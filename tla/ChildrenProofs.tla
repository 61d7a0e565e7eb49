--------------------------- MODULE ChildrenProofs ---------------------------
(***************************************************************************)
(* The safety properties of the background agents, proved of Children for  *)
(* any number of children, any cap and any bounds.                         *)
(***************************************************************************)
EXTENDS Children, TLAPS, FiniteSetTheorems, WellFoundedInduction

----------------------------------------------------------------------------
(* Types.                                                                  *)

MetaT == [here : BOOLEAN, task : BOOLEAN, prompt : BOOLEAN, queued : BOOLEAN,
          ended : {"no", "error", "stopped"}, reported : Nat]
KidT == [pc : {"none", "exec", "check", "prompt", "wait", "up"},
         by : {"none", "create", "drain", "ensure"},
         prompt : BOOLEAN, stopReq : BOOLEAN, startFailed : BOOLEAN,
         dying : BOOLEAN, signalled : BOOLEAN, unread : BOOLEAN,
         held : BOOLEAN, inTurn : BOOLEAN, exited : BOOLEAN]
LineT == {"task", "msg"}
ProcT == [st : {"none", "boot", "idle", "open", "turn", "flush", "dead"},
          pipe : Seq(LineT), int : BOOLEAN, fresh : BOOLEAN]
EventT == {"work", "done", "cancelled"}
EntryT == {"meta", "task", "msg", "done", "cancelled"}
PastT == [spawned : 0 .. NKids, orphans : SUBSET Kids, messaged : SUBSET Kids,
          overtaken : SUBSET Kids, bootStopped : SUBSET Kids,
          withdrawn : SUBSET Kids, cut : SUBSET Kids, restarted : BOOLEAN,
          waitEnded : SUBSET Kids, heard : [Kids -> SUBSET Nat]]

(* n only tells reports apart: its value plays no part.                    *)
IsReport(r) ==
  /\ r = [k |-> r.k, trigger |-> r.trigger, stopped |-> r.stopped,
          pc |-> r.pc, key |-> r.key, n |-> r.n]
  /\ r.k \in Kids /\ r.trigger \in {"exit", "close", "unstarted"}
  /\ r.stopped \in BOOLEAN /\ r.key \in Nat
  /\ r.pc \in {"start", "decide", "mark", "tell"}

Typed ==
  /\ serve \in {"up", "closing", "down"}
  /\ meta \in [Kids -> MetaT]
  /\ queue \in Seq(Kids)
  /\ running \in SUBSET Kids
  /\ kids \in [Kids -> KidT]
  /\ proc \in [Kids -> ProcT]
  /\ stray \in [Kids -> ProcT]
  /\ out \in [Kids -> Seq(EventT)]
  /\ file \in [Kids -> Seq(EntryT)]
  /\ drains \in 0 .. MaxRunning
  /\ \A r \in reports : IsReport(r)
  /\ freeing \in SUBSET Kids
  /\ waiting \in SUBSET Kids
  /\ sending \in [Kids -> {"no", "take", "took", "write"}]
  /\ waitStops \in SUBSET Kids
  /\ withdrawing \in SUBSET Kids
  /\ owed \in SUBSET Kids
  /\ told \in [Kids -> Seq(Nat)]
  /\ past \in PastT
  /\ budget \in [Whats -> Nat]

ReportsOf(k) == {r \in reports : r.k = k}
Born(k) == k <= past.spawned

(* Nothing is known of a child before it is created.                       *)
NoProcess(p) == p.st = "none" /\ p.pipe = <<>> /\ ~p.int
Unborn(k) ==
  ~Born(k) =>
    /\ ~meta[k].here /\ kids[k].pc = "none"
    /\ NoProcess(proc[k]) /\ NoProcess(stray[k])
    /\ out[k] = <<>> /\ file[k] = <<>> /\ told[k] = <<>>
    /\ sending[k] = "no" /\ ReportsOf(k) = {}
    /\ k \notin running \cup freeing \cup waiting \cup waitStops
                \cup withdrawing \cup owed
    /\ k \notin past.orphans \cup past.messaged \cup past.overtaken
                \cup past.bootStopped \cup past.withdrawn \cup past.cut

(* A serve that is down has forgotten.                                     *)
Forgotten(k) ==
  serve = "down" =>
    /\ past.restarted
    /\ kids[k].pc = "none" /\ sending[k] = "no" /\ ReportsOf(k) = {}
    /\ k \notin running \cup freeing \cup waiting \cup waitStops
                \cup withdrawing \cup owed

(* A process is leased, and only the process of a child that was started.  *)
Leased(k) ==
  /\ kids[k].pc = "none" => ~kids[k].exited /\ ~kids[k].startFailed
  /\ kids[k].pc \in {"none", "exec"} => NoProcess(proc[k]) /\ out[k] = <<>>
  /\ kids[k].pc \notin {"none", "exec"} => proc[k].st # "none"
  /\ kids[k].exited => proc[k].st = "dead" /\ out[k] = <<>>
  /\ kids[k].pc = "exec" => ~kids[k].exited
  /\ kids[k].startFailed => kids[k].pc = "wait" /\ proc[k].st = "dead"
  /\ kids[k].pc = "wait" => proc[k].st = "dead"
  /\ Launching(k) => kids[k].by \in {"create", "drain"}
  /\ ~past.restarted => k \notin past.orphans
  /\ k \notin past.orphans => NoProcess(stray[k])

(* What waits for a slot has a task and nothing else.                      *)
Blank(k) ==
  /\ ~meta[k].task /\ ~meta[k].prompt /\ ~meta[k].queued
  /\ meta[k].ended = "no" /\ meta[k].reported = 0
Queued(k) ==
  /\ meta[k].queued =>
       /\ meta[k].task /\ kids[k].pc = "none" /\ sending[k] = "no"
       /\ ReportsOf(k) = {}
       /\ k \notin running \cup freeing \cup waiting \cup owed
  /\ serve = "up" => (meta[k].queued <=> InQueue(k))
  /\ ~meta[k].here => Blank(k) /\ k \notin running

(* The queue is in order of age.                                           *)
InOrder ==
  /\ \A i, j \in DOMAIN queue : i < j => queue[i] < queue[j]
  /\ serve # "up" => queue = <<>>

(* A child given up is off the books for good.                             *)
GivenUp(k) ==
  /\ k \in withdrawing => k \in past.withdrawn
  /\ k \in past.withdrawn => ~meta[k].here
  /\ k \in past.withdrawn \ withdrawing => ~Live(k)
  /\ k \in past.withdrawn \ (withdrawing \cup past.cut \cup past.orphans) =>
       file[k] = <<>>

(* What a process prints is of a turn in its session file.                 *)
NoEntries(f) == \A i \in DOMAIN f : f[i] = "meta"
InTurn(p) == p.st \in {"open", "turn", "flush"}
Files(k) == InTurn(proc[k]) \/ out[k] # <<>> => ~NoEntries(file[k])

(* A mark is the number of a turn's entry.                                 *)
IsEntry(f, i) == i \in DOMAIN f /\ f[i] # "meta"
Marked(k) ==
  k \notin past.withdrawn =>
    /\ meta[k].reported # 0 => IsEntry(file[k], meta[k].reported)
    /\ \A r \in ReportsOf(k) : r.pc = "mark" => IsEntry(file[k], r.key)

(* The task is in the session file or on its way at most once.             *)
HasTask(f) == \E i \in DOMAIN f : f[i] = "task"
OneTask(f) == \A i, j \in DOMAIN f : f[i] = "task" /\ f[j] = "task" => i = j
BeforePrompt(k) == kids[k].pc \in {"exec", "check", "prompt"}
Tasks(k) ==
  k \notin past.orphans =>
    /\ OneTask(file[k]) /\ OneTask(proc[k].pipe)
    /\ HasTask(proc[k].pipe) => ~HasTask(file[k])
    /\ meta[k].queued \/ BeforePrompt(k) =>
         ~HasTask(file[k]) /\ ~HasTask(proc[k].pipe)

(* A child stopped while it booted is not prompted, nor queued again.      *)
BootStopped(k) ==
  /\ k \in past.bootStopped \ past.orphans =>
       /\ ~HasTask(file[k]) /\ ~HasTask(proc[k].pipe)
       /\ ~meta[k].queued /\ kids[k].pc # "prompt"
       /\ Booting(k) => kids[k].stopReq
       /\ serve = "down" => ~meta[k].task
  /\ Booting(k) /\ kids[k].stopReq => k \in past.bootStopped

(* The slot of a child nobody wrote to is taken before its task is written *)
(* and kept until the turn says it is over.                                *)
NoClose(o) == \A i \in DOMAIN o : o[i] = "work"
HoldsSlot(k) ==
  k \notin past.messaged =>
    /\ sending[k] = "no"
    /\ BeforePrompt(k) \/ k \in waiting \cup freeing =>
         proc[k].pipe = <<>> /\ ~OpenTurn(k)
    /\ BeforePrompt(k) => out[k] = <<>>
    /\ BeforePrompt(k) /\ ~kids[k].exited /\ meta[k].here => k \in running
    /\ Len(proc[k].pipe) <= 1
    /\ OpenTurn(k) => proc[k].pipe = <<>>
    /\ OpenTurn(k) \/ (Alive(proc[k]) /\ proc[k].pipe # <<>>) =>
         /\ NoClose(out[k])
         /\ meta[k].here => k \in running

(* Whoever gives a slot back wakes the queue.                              *)
Rewakes(k) ==
  \/ Launching(k) /\ kids[k].by = "drain"
  \/ kids[k].startFailed /\ kids[k].by = "create" /\ ~kids[k].exited
  \/ sending[k] = "took" /\ kids[k].pc # "exec" /\ ~Alive(proc[k])
Woken ==
  serve = "up" /\ queue # <<>> /\ ~Full =>
    drains > 0 \/ withdrawing # {} \/ \E k \in Kids : Rewakes(k)
Launched(k) ==
  /\ Launching(k) /\ kids[k].by = "create" => meta[k].here
  /\ kids[k].exited /\ k \in running => sending[k] = "took"
  /\ kids[k].pc = "exec" => sending[k] # "took" /\ (meta[k].here => k \in running)
  /\ BeforePrompt(k) => k \notin waiting \cup freeing

(* What the parent was told, or is about to be.                            *)
ToldKey(k, x) ==
  \/ \E i \in DOMAIN told[k] : told[k][i] = x
  \/ \E r \in ReportsOf(k) : r.pc = "tell" /\ r.key = x

(* Nothing new is said of a child given up.                                *)
Silent(k) ==
  k \in past.withdrawn => \A x \in Nat : ToldKey(k, x) => x \in past.heard[k]

(* No entry is told twice.                                                 *)
Told(k) ==
  /\ \A i, j \in DOMAIN told[k] : i # j => told[k][i] # told[k][j]
  /\ \A r \in ReportsOf(k) : r.pc = "tell" =>
       \A i \in DOMAIN told[k] : told[k][i] # r.key
  /\ \A r, q \in ReportsOf(k) :
       r.pc = "tell" /\ q.pc = "tell" /\ r.key = q.key => r = q
  /\ meta[k].here => \A x \in Nat : ToldKey(k, x) => x <= meta[k].reported
  /\ meta[k].here /\ ToldKey(k, 0) => meta[k].ended # "no"
  /\ meta[k].reported > 0 /\ k \notin past.cut => ToldKey(k, meta[k].reported)
  /\ meta[k].ended # "no" /\ k \notin past.cut => \E x \in Nat : ToldKey(k, x)

(* A turn closes once, a cancelled and its done for one, unless a stop     *)
(* ended a wait; and a report names its input or that closing.             *)
OpenFile(f) ==
  \E i \in DOMAIN f : IsInput(f[i]) /\ \A j \in i + 1 .. Len(f) : ~IsClose(f[j])
Bookkeeping(f, i) == i > 1 /\ f[i] = "done" /\ f[i - 1] = "cancelled"
ClosesOnce(f) ==
  \A x, y \in DOMAIN f :
    x < y /\ IsClose(f[x]) /\ IsClose(f[y]) /\ SameTurn(f, x, y)
      => Bookkeeping(f, y)
Names(f, x) == IsEntry(f, x) /\ ~Bookkeeping(f, x)
Turns(k) ==
  k \notin past.orphans \cup past.withdrawn \cup past.waitEnded =>
    /\ InTurn(proc[k]) => OpenFile(file[k])
    /\ ClosesOnce(file[k])
    /\ \A x \in Nat \ {0} : ToldKey(k, x) => Names(file[k], x)
    /\ \A r \in ReportsOf(k) : r.pc = "mark" => Names(file[k], r.key)

(* A child with a prompt that never got to its turn.                       *)
ExitTold(k) ==
  \E r \in ReportsOf(k) : r.trigger = "exit" /\ r.pc \in {"start", "decide"}
Unstarted(k) ==
  /\ meta[k].here /\ BeforePrompt(k) => kids[k].prompt = meta[k].prompt
  /\ meta[k].here /\ k \in waiting \cup freeing => ~meta[k].prompt
  /\ meta[k].here /\ meta[k].prompt /\ NoEntries(file[k])
       /\ meta[k].ended = "no" /\ k \notin past.bootStopped =>
       /\ meta[k].task
       /\ serve = "up" =>
            \/ meta[k].queued \/ kids[k].startFailed
            \/ Live(k) /\ ~kids[k].exited
            \/ ExitTold(k)

(* A turn that is not marked reported is still to be.                      *)
LastInput(f) == lastTurn(f).input
ToReport(k) ==
  \/ serve # "up" \/ (k \in owed /\ ~Live(k))
  \/ OpenTurn(k)
  \/ Live(k) /\ ~kids[k].exited
       /\ (proc[k].st = "dead" \/ sending[k] # "no" \/ proc[k].pipe # <<>>)
  \/ ~NoClose(out[k])
  \/ \E r \in ReportsOf(k) :
       \/ r.pc \in {"start", "decide"}
       \/ r.pc = "mark" /\ r.key >= LastInput(file[k])
Reported(k) ==
  k \notin past.orphans \cup past.overtaken /\ meta[k].here =>
    /\ meta[k].queued \/ BeforePrompt(k) \/ kids[k].startFailed =>
         NoEntries(file[k])
    /\ BeforePrompt(k) => proc[k].pipe = <<>>
    /\ LastInput(file[k]) <= meta[k].reported \/ ToReport(k)

(* The last word of a process that is still at it.                         *)
LastWorks(k) ==
  out[k] # <<>> /\ out[k][Len(out[k])] = "work" => proc[k].st \in {"turn", "dead"}

IInv ==
  /\ Typed /\ InOrder /\ Woken
  /\ \A k \in Kids :
       /\ Unborn(k) /\ Forgotten(k) /\ Leased(k) /\ Queued(k) /\ GivenUp(k)
       /\ Files(k) /\ Marked(k) /\ Tasks(k) /\ BootStopped(k) /\ HoldsSlot(k)
       /\ Launched(k) /\ Told(k) /\ Silent(k) /\ Turns(k) /\ Unstarted(k)
       /\ Reported(k) /\ LastWorks(k)

(* Bounds under which serve ends at most once.  A room whose process was   *)
(* left over by two crashes may leak its slot.                             *)
OneRestart == \A b \in Bounds : b["restarts"] <= 1
LastLife ==
  /\ budget["restarts"] <= 1
  /\ serve # "up" \/ past.restarted => budget["restarts"] = 0
  /\ serve = "closing" => ~past.restarted

(* Where no process is left over that could still write to a room's file.  *)
Quiet(p) == p.st \in {"none", "boot", "idle"} /\ (p.pipe = <<>> \/ p.int)
Rooms(k) ==
  meta[k].here /\ ~meta[k].prompt =>
    /\ kids[k].pc # "prompt"
    /\ ~past.restarted /\ (Alive(proc[k]) \/ kids[k].pc = "exec")
         /\ (sending[k] # "no" \/ (proc[k].pipe # <<>> /\ ~proc[k].int)) =>
         file[k] # <<>>
    /\ serve = "down" /\ meta[k].task /\ file[k] = <<>> => Quiet(stray[k])
    /\ meta[k].queued \/ kids[k].pc \in {"exec", "check"} \/ k \in waiting =>
         Quiet(stray[k])
    /\ meta[k].queued => NoEntries(file[k])

(* A slot has something to come that gives it back: a room's, as long as   *)
(* serve ends at most once.                                                *)
HeldBy(k) ==
  \/ sending[k] = "took" \/ out[k] # <<>>
  \/ Live(k) /\ ~kids[k].exited
       /\ (OpenTurn(k) \/ proc[k].pipe # <<>> \/ proc[k].st = "dead")
NoLeak(k) ==
  k \in running /\ (meta[k].prompt \/ OneRestart) =>
    \/ HeldBy(k) \/ k \in freeing \/ kids[k].pc = "prompt"
    \/ kids[k].pc \in {"exec", "check"} /\ (kids[k].prompt \/ NoEntries(file[k]))
    \/ k \in waiting /\ NoEntries(file[k])

SlotsInv ==
  /\ OneRestart => LastLife /\ \A k \in Kids : Rooms(k)
  /\ \A k \in Kids : NoLeak(k)
----------------------------------------------------------------------------
(* lastTurn.                                                               *)

(* A finite stretch of numbers has a largest.                              *)
LEMMA LastIs ==
  ASSUME NEW n \in Nat, NEW S \in SUBSET (1 .. n)
  PROVE  /\ LastOf(S) \in S \cup {0}
         /\ \A j \in S : j <= LastOf(S)
<1> DEFINE R == OpToRel(<, Nat)
           T == {m \in Nat : \A j \in S : j <= m}
<1>1. IsWellFoundedOn(R, Nat)
  BY NatLessThanWellFounded
<1>2. n \in T /\ T \subseteq Nat
  OBVIOUS
<1>3. PICK x \in T : \A y \in T : <<y, x>> \notin R
  <2> HIDE DEF R, T
  <2> QED BY <1>1, <1>2, WFMin
<1>4. \A y \in T : ~(y < x)
  BY <1>3 DEF OpToRel
<1>5. x \in S \cup {0}
  <2> SUFFICES ASSUME x \notin S, x # 0 PROVE FALSE
    OBVIOUS
  <2>0. x \in Nat /\ \A j \in S : j <= x
    BY <1>3
  <2>1. x \in Nat /\ x - 1 \in Nat /\ \A j \in S : j <= x /\ j # x
    <3> HIDE DEF R, T
    <3> QED BY <2>0
  <2>2. \A j \in S : j <= x - 1
    BY <2>1
  <2>3. x - 1 \in T
    BY <2>1, <2>2
  <2> HIDE DEF T
  <2> QED BY <2>1, <1>4, <2>3
<1>6. \E i \in S \cup {0} : \A j \in S : j <= i
  BY <1>3, <1>5
<1> QED BY <1>6 DEF LastOf

Inputs(f) == {i \in DOMAIN f : IsInput(f[i])}
Closings(f) ==
  {i \in lastTurn(f).input + 1 .. Len(f) : IsClose(f[i])
     /\ ~(i > 1 /\ f[i] = "done" /\ f[i - 1] = "cancelled")}

LEMMA LastTurnIs ==
  ASSUME NEW f \in Seq(EntryT)
  PROVE  LET t == lastTurn(f) IN
         /\ t.input \in Inputs(f) \cup {0}
         /\ \A i \in Inputs(f) : i <= t.input
         /\ t.closing \in Closings(f) \cup {0}
         /\ \A i \in Closings(f) : i <= t.closing
         /\ t.hasEntry <=> t.input + t.closing > 0
<1>1. /\ lastTurn(f).input = LastOf(Inputs(f))
      /\ lastTurn(f).closing = LastOf(Closings(f))
      /\ lastTurn(f).hasEntry <=> lastTurn(f).input + lastTurn(f).closing > 0
  BY DEF lastTurn, Inputs, Closings
<1>2. Inputs(f) \in SUBSET (1 .. Len(f)) /\ Len(f) \in Nat
  BY DEF Inputs
<1>3. lastTurn(f).input \in Inputs(f) \cup {0}
      /\ \A i \in Inputs(f) : i <= lastTurn(f).input
  BY <1>1, <1>2, LastIs
<1>4. Closings(f) \in SUBSET (1 .. Len(f))
  BY <1>2, <1>3 DEF Closings
<1>5. lastTurn(f).closing \in Closings(f) \cup {0}
      /\ \A i \in Closings(f) : i <= lastTurn(f).closing
  <2>1. /\ LastOf(Closings(f)) \in Closings(f) \cup {0}
        /\ \A i \in Closings(f) : i <= LastOf(Closings(f))
    BY <1>2, <1>4, LastIs
  <2> QED BY <1>1, <2>1
<1> QED BY <1>1, <1>3, <1>5

LEMMA HasEntry ==
  ASSUME NEW f \in Seq(EntryT)
  PROVE  lastTurn(f).hasEntry <=> ~NoEntries(f)
<1>a. Inputs(f) \subseteq 1 .. Len(f) /\ Len(f) \in Nat
  BY DEF Inputs
<1>b. lastTurn(f).input \in Nat
  BY <1>a, LastTurnIs
<1>c. Closings(f) \subseteq 1 .. Len(f) /\ lastTurn(f).closing \in Nat
  BY <1>a, <1>b, LastTurnIs DEF Closings
<1>1. CASE lastTurn(f).hasEntry
  <2>1. Inputs(f) # {} \/ Closings(f) # {}
    BY <1>1, <1>b, <1>c, LastTurnIs
  <2> QED BY <1>1, <1>a, <1>b, <1>c, <2>1 DEF Inputs, Closings, NoEntries, IsInput, IsClose
<1>2. CASE ~NoEntries(f)
  <2>1. PICK i \in 1 .. Len(f) : f[i] # "meta"
    BY <1>2 DEF NoEntries
  <2>2. f[i] \in EntryT
    BY <2>1
  <2>3. CASE IsInput(f[i])
    <3>1. i \in Inputs(f) /\ i > 0
      BY <2>1, <2>3, <1>a DEF Inputs
    <3> QED BY <1>2, <3>1, <1>b, <1>c, LastTurnIs
  <2>4. CASE IsClose(f[i]) /\ lastTurn(f).input = 0
    <3> DEFINE j == IF i > 1 /\ f[i] = "done" /\ f[i - 1] = "cancelled"
                    THEN i - 1 ELSE i
    <3>1. j \in 1 .. Len(f) /\ IsClose(f[j])
          /\ ~(j > 1 /\ f[j] = "done" /\ f[j - 1] = "cancelled")
      BY <2>1, <2>4, <1>a DEF IsClose
    <3>2. j \in Closings(f) /\ j > 0
      BY <3>1, <2>4, <1>a DEF Closings
    <3> HIDE DEF j
    <3> QED BY <1>2, <3>2, <1>b, <1>c, LastTurnIs
  <2>5. CASE IsClose(f[i]) /\ lastTurn(f).input # 0
    BY <1>2, <2>5, <1>b, <1>c, LastTurnIs
  <2>6. IsInput(f[i]) \/ IsClose(f[i])
    BY <2>1, <2>2 DEF EntryT, IsInput, IsClose
  <2> QED BY <2>3, <2>4, <2>5, <2>6
<1> QED BY <1>1, <1>2

(* A turn's number is that of one of its entries, not before its input.    *)
LEMMA TurnKeyIs ==
  ASSUME NEW f \in Seq(EntryT), ~NoEntries(f)
  PROVE  /\ TurnKey(f) \in Nat \ {0} /\ IsEntry(f, TurnKey(f))
         /\ TurnKey(f) >= LastInput(f)
<1>a. Inputs(f) \subseteq 1 .. Len(f) /\ Len(f) \in Nat
  BY DEF Inputs
<1>b. lastTurn(f).input \in Nat
  BY <1>a, LastTurnIs
<1>c. Closings(f) \subseteq 1 .. Len(f) /\ lastTurn(f).closing \in Nat
  BY <1>a, <1>b, LastTurnIs DEF Closings
<1>1. CASE lastTurn(f).closing > 0
  <2>1. TurnKey(f) = lastTurn(f).closing
    BY <1>1 DEF TurnKey
  <2>2. lastTurn(f).closing \in Closings(f)
    BY <1>1, LastTurnIs
  <2> QED BY <2>1, <2>2, <1>a, <1>b, <1>c DEF Closings, IsEntry, IsClose, LastInput
<1>2. CASE lastTurn(f).closing = 0
  <2>1. TurnKey(f) = lastTurn(f).input
    BY <1>2 DEF TurnKey
  <2>2. lastTurn(f).input \in Inputs(f)
    BY <1>2, <1>b, LastTurnIs, HasEntry
  <2> QED BY <2>1, <2>2, <1>a, <1>b DEF Inputs, IsEntry, IsInput, LastInput
<1> QED BY <1>1, <1>2, <1>c

----------------------------------------------------------------------------
(* The queue.                                                              *)

In(q, j) == \E i \in DOMAIN q : q[i] = j
Ordered(q) == \A i, j \in DOMAIN q : i < j => q[i] < q[j]

LEMMA Appended ==
  ASSUME NEW q \in Seq(Kids), NEW k \in Kids
  PROVE  /\ Append(q, k) \in Seq(Kids)
         /\ \A j : In(Append(q, k), j) <=> In(q, j) \/ j = k
         /\ Ordered(q) /\ (\A i \in DOMAIN q : q[i] < k) => Ordered(Append(q, k))
<1>1. /\ Len(Append(q, k)) = Len(q) + 1 /\ Len(q) \in Nat
      /\ DOMAIN q = 1 .. Len(q) /\ DOMAIN Append(q, k) = 1 .. Len(q) + 1
      /\ \A i \in 1 .. Len(q) : Append(q, k)[i] = q[i]
      /\ Append(q, k)[Len(q) + 1] = k
  OBVIOUS
<1>2. \A j : In(Append(q, k), j) <=> In(q, j) \/ j = k
  BY <1>1 DEF In
<1>3. ASSUME Ordered(q), \A i \in DOMAIN q : q[i] < k PROVE Ordered(Append(q, k))
  BY <1>1, <1>3 DEF Ordered
<1> QED BY <1>2, <1>3

LEMMA Headed ==
  ASSUME NEW q \in Seq(Kids), q # <<>>
  PROVE  /\ Tail(q) \in Seq(Kids) /\ Head(q) \in Kids /\ In(q, Head(q))
         /\ \A j : j # Head(q) => (In(Tail(q), j) <=> In(q, j))
         /\ Ordered(q) => /\ Ordered(Tail(q)) /\ ~In(Tail(q), Head(q))
                          /\ \A j : In(q, j) => Head(q) <= j
<1>1. /\ Len(q) \in Nat \ {0} /\ Head(q) = q[1] /\ DOMAIN q = 1 .. Len(q)
      /\ DOMAIN Tail(q) = 1 .. Len(q) - 1
      /\ \A i \in 1 .. Len(q) - 1 : Tail(q)[i] = q[i + 1]
      /\ \A i \in 1 .. Len(q) : q[i] \in Kids
  OBVIOUS
<1>2. ASSUME NEW j, j # Head(q) PROVE In(Tail(q), j) <=> In(q, j)
  <2>1. ASSUME NEW i \in DOMAIN q, q[i] = j PROVE In(Tail(q), j)
    <3>1. i - 1 \in 1 .. Len(q) - 1 /\ Tail(q)[i - 1] = j
      BY <1>1, <1>2, <2>1
    <3> QED BY <1>1, <3>1 DEF In
  <2> QED BY <1>1, <2>1 DEF In
<1>3. ASSUME Ordered(q)
      PROVE  /\ Ordered(Tail(q)) /\ ~In(Tail(q), Head(q))
             /\ \A j : In(q, j) => Head(q) <= j
  BY <1>1, <1>3 DEF Ordered, In, Kids
<1>4. In(q, Head(q))
  BY <1>1 DEF In
<1>5. Tail(q) \in Seq(Kids) /\ Head(q) \in Kids
  BY <1>1
<1> QED BY <1>2, <1>3, <1>4, <1>5

LEMMA Removed ==
  ASSUME NEW q \in Seq(Kids), NEW p \in DOMAIN q
  PROVE  /\ RemoveAt(q, p) \in Seq(Kids)
         /\ \A j : j # q[p] => (In(RemoveAt(q, p), j) <=> In(q, j))
         /\ Ordered(q) => Ordered(RemoveAt(q, p)) /\ ~In(RemoveAt(q, p), q[p])
<1> DEFINE r == RemoveAt(q, p)
<1>1. /\ Len(q) \in Nat \ {0} /\ DOMAIN q = 1 .. Len(q) /\ p \in 1 .. Len(q)
      /\ \A i \in 1 .. Len(q) : q[i] \in Kids
  OBVIOUS
<1>2. /\ r \in Seq(Kids) /\ DOMAIN r = 1 .. Len(q) - 1
      /\ \A i \in 1 .. p - 1 : r[i] = q[i]
      /\ \A i \in p .. Len(q) - 1 : r[i] = q[i + 1]
  <2>1. /\ SubSeq(q, 1, p - 1) \in Seq(Kids) /\ Len(SubSeq(q, 1, p - 1)) = p - 1
        /\ \A i \in 1 .. p - 1 : SubSeq(q, 1, p - 1)[i] = q[i]
    BY <1>1
  <2>2. /\ SubSeq(q, p + 1, Len(q)) \in Seq(Kids)
        /\ Len(SubSeq(q, p + 1, Len(q))) = Len(q) - p
        /\ \A i \in 1 .. Len(q) - p : SubSeq(q, p + 1, Len(q))[i] = q[i + p]
    BY <1>1
  <2>3. r = SubSeq(q, 1, p - 1) \o SubSeq(q, p + 1, Len(q))
    BY DEF RemoveAt
  <2> HIDE DEF r
  <2> DEFINE a == SubSeq(q, 1, p - 1)
             b == SubSeq(q, p + 1, Len(q))
  <2>4. /\ a \in Seq(Kids) /\ Len(a) = p - 1 /\ b \in Seq(Kids) /\ Len(b) = Len(q) - p
        /\ r = a \o b
    BY <2>1, <2>2, <2>3
  <2>5. /\ \A i \in 1 .. p - 1 : a[i] = q[i]
        /\ \A i \in 1 .. Len(q) - p : b[i] = q[i + p]
    BY <2>1, <2>2
  <2> HIDE DEF a, b
  <2>6. /\ r \in Seq(Kids) /\ DOMAIN r = 1 .. Len(q) - 1
        /\ \A i \in 1 .. p - 1 : r[i] = a[i]
        /\ \A i \in p .. Len(q) - 1 : r[i] = b[i - (p - 1)]
    <3>1. /\ a \o b \in Seq(Kids) /\ DOMAIN (a \o b) = 1 .. Len(a) + Len(b)
          /\ \A i \in 1 .. Len(a) : (a \o b)[i] = a[i]
          /\ \A i \in Len(a) + 1 .. Len(a) + Len(b) : (a \o b)[i] = b[i - Len(a)]
      BY <2>4
    <3>2. Len(a) + Len(b) = Len(q) - 1 /\ Len(a) + 1 = p
      BY <1>1, <2>4
    <3> QED BY <1>1, <2>4, <3>1, <3>2
  <2>7. \A i \in p .. Len(q) - 1 : r[i] = q[i + 1]
    <3>1. \A i \in p .. Len(q) - 1 :
            i - (p - 1) \in 1 .. Len(q) - p /\ (i - (p - 1)) + p = i + 1
      BY <1>1
    <3> QED BY <2>5, <2>6, <3>1
  <2> QED BY <2>5, <2>6, <2>7
<1> HIDE DEF r
<1>3. ASSUME NEW j, j # q[p] PROVE In(r, j) <=> In(q, j)
  <2>1. ASSUME NEW i \in DOMAIN q, q[i] = j PROVE In(r, j)
    <3>1. CASE i < p
      BY <1>1, <1>2, <2>1, <3>1 DEF In
    <3>2. CASE i > p
      <4>1. i - 1 \in p .. Len(q) - 1 /\ r[i - 1] = q[i - 1 + 1] /\ i - 1 + 1 = i
        BY <1>1, <1>2, <3>2
      <4> QED BY <1>1, <1>2, <2>1, <4>1 DEF In
    <3> QED BY <1>1, <1>3, <2>1, <3>1, <3>2
  <2>2. ASSUME NEW i \in DOMAIN r, r[i] = j PROVE In(q, j)
    <3>1. CASE i < p
      BY <1>1, <1>2, <2>2, <3>1 DEF In
    <3>2. CASE i >= p
      <4>1. i \in p .. Len(q) - 1 /\ i + 1 \in 1 .. Len(q)
        BY <1>1, <1>2, <3>2
      <4> QED BY <1>1, <1>2, <2>2, <4>1 DEF In
    <3> QED BY <1>1, <1>2, <3>1, <3>2
  <2> QED BY <2>1, <2>2 DEF In
<1>4. ASSUME Ordered(q) PROVE Ordered(r) /\ ~In(r, q[p])
  <2> DEFINE At(i) == IF i < p THEN i ELSE i + 1
  <2>1. \A i \in DOMAIN r : At(i) \in DOMAIN q /\ At(i) # p /\ r[i] = q[At(i)]
    BY <1>1, <1>2
  <2>2. \A i, j \in DOMAIN r : i < j => At(i) < At(j)
    BY <1>1, <1>2
  <2>3. \A i, j \in DOMAIN q : i # j => q[i] # q[j]
    BY <1>1, <1>4 DEF Ordered, Kids
  <2> HIDE DEF At
  <2>4. Ordered(r)
    BY <1>4, <2>1, <2>2 DEF Ordered
  <2>5. ~In(r, q[p])
    BY <2>1, <2>3 DEF In
  <2> QED BY <2>4, <2>5
<1> QED BY <1>2, <1>3, <1>4 DEF r

LEMMA Unqueuing ==
  ASSUME NEW k \in Kids, queue \in Seq(Kids)
  PROVE  /\ Unqueued(k) \in Seq(Kids)
         /\ \A j : j # k => (In(Unqueued(k), j) <=> In(queue, j))
         /\ Ordered(queue) => Ordered(Unqueued(k)) /\ ~In(Unqueued(k), k)
<1> DEFINE at == {i \in DOMAIN queue : queue[i] = k}
<1>1. CASE at = {}
  <2>1. Unqueued(k) = queue
    BY <1>1 DEF Unqueued
  <2> QED BY <1>1, <2>1 DEF In
<1>2. CASE at # {}
  <2>1. PICK i \in DOMAIN queue : queue[i] = k /\ Unqueued(k) = RemoveAt(queue, i)
    BY <1>2 DEF Unqueued
  <2> QED BY <2>1, Removed
<1> QED BY <1>1, <1>2

----------------------------------------------------------------------------
(* The types.                                                              *)

LEMMA NothingTyped ==
  NoMeta \in MetaT /\ NoChild \in KidT /\ NoProc \in ProcT /\ Started \in ProcT
<1>1. NoMeta \in MetaT
  BY DEF NoMeta, MetaT
<1>2. NoChild \in KidT
  BY DEF NoChild, KidT
<1>3. NoProc \in ProcT
  BY DEF NoProc, ProcT
<1>4. Started \in ProcT
  BY <1>3 DEF Started, NoProc, ProcT
<1> QED BY <1>1, <1>2, <1>3, <1>4

LEMMA NewTyped ==
  ASSUME NEW pc \in {"exec", "up"}, NEW by \in {"create", "drain", "ensure"},
         NEW prompt \in BOOLEAN
  PROVE  newChild(pc, by, prompt) \in KidT
BY NothingTyped DEF newChild, KidT

LEMMA KilledTyped ==
  ASSUME NEW p \in ProcT
  PROVE  /\ Killed(p) \in ProcT
         /\ Alive(p) => Killed(p) = [p EXCEPT !.st = "dead"]
         /\ ~Alive(p) => Killed(p) = p
         /\ ~Alive(Killed(p)) /\ Killed(p).pipe = p.pipe
         /\ Killed(p).st = "none" <=> p.st = "none"
         /\ Killed(p).int = p.int /\ Killed(p).fresh = p.fresh
BY DEF Killed, ProcT, Alive

LEMMA ReportTyped ==
  ASSUME NEW k \in Kids, NEW trigger \in {"exit", "close", "unstarted"},
         NEW pc \in {"start", "decide", "mark", "tell"}, kids \in [Kids -> KidT]
  PROVE  IsReport(Report(k, trigger, pc))
BY DEF IsReport, Report, KidT

(* A report that goes on is a report.                                      *)
LEMMA ReportSets ==
  ASSUME NEW r, IsReport(r)
  PROVE  /\ \A v \in {"start", "decide", "mark", "tell"} : IsReport([r EXCEPT !.pc = v])
         /\ \A v \in BOOLEAN : IsReport([r EXCEPT !.stopped = v])
         /\ \A v \in Nat : IsReport([r EXCEPT !.key = v])
         /\ \A v : IsReport([r EXCEPT !.n = v])
<1>1. ASSUME NEW v \in {"start", "decide", "mark", "tell"} PROVE IsReport([r EXCEPT !.pc = v])
  <2> DEFINE x == [k |-> r.k, trigger |-> r.trigger, stopped |-> r.stopped,
                       pc |-> v, key |-> r.key, n |-> r.n]
  <2>1. [r EXCEPT !.pc = v] = x /\ IsReport(x)
    BY DEF IsReport
  <2> QED BY <2>1
<1>2. ASSUME NEW v \in BOOLEAN PROVE IsReport([r EXCEPT !.stopped = v])
  <2> DEFINE x == [k |-> r.k, trigger |-> r.trigger, stopped |-> v,
                       pc |-> r.pc, key |-> r.key, n |-> r.n]
  <2>1. [r EXCEPT !.stopped = v] = x /\ IsReport(x)
    BY DEF IsReport
  <2> QED BY <2>1
<1>3. ASSUME NEW v \in Nat PROVE IsReport([r EXCEPT !.key = v])
  <2> DEFINE x == [k |-> r.k, trigger |-> r.trigger, stopped |-> r.stopped,
                       pc |-> r.pc, key |-> v, n |-> r.n]
  <2>1. [r EXCEPT !.key = v] = x /\ IsReport(x)
    BY DEF IsReport
  <2> QED BY <2>1
<1>4. ASSUME NEW v PROVE IsReport([r EXCEPT !.n = v])
  <2> DEFINE x == [k |-> r.k, trigger |-> r.trigger, stopped |-> r.stopped,
                       pc |-> r.pc, key |-> r.key, n |-> v]
  <2>1. [r EXCEPT !.n = v] = x /\ IsReport(x)
    BY DEF IsReport
  <2> QED BY <2>1
<1> QED BY <1>1, <1>2, <1>3, <1>4

LEMMA AnotherTyped == \A n \in 0 .. MaxRunning : Another(n) \in 0 .. MaxRunning
BY SomeSlot DEF Another

LEMMA Spending ==
  ASSUME NEW what \in Whats, budget \in [Whats -> Nat], Spend(what)
  PROVE  budget' \in [Whats -> Nat]
BY DEF Spend

(* What a process may do next, one outcome at a time.                      *)
Outcome(p, f, o) ==
  \/ /\ p.st = "boot" /\ o.proc.st = "idle" /\ o.proc.pipe = p.pipe /\ o.say = <<>>
     /\ o.proc.int = p.int /\ o.proc.fresh = (f = <<>>)
     /\ \/ f = <<>> /\ o.file = <<"meta">>
        \/ f # <<>> /\ openTurn(f) /\ o.file = Append(f, "cancelled")
        \/ f # <<>> /\ o.file = f
  \/ /\ p.st = "idle" /\ p.pipe # <<>> /\ ~p.int /\ o.proc.st = "open"
     /\ o.say = <<>>
     /\ o.proc.pipe = Tail(p.pipe) /\ o.file = Append(f, Head(p.pipe))
     /\ o.proc.int = p.int /\ o.proc.fresh = p.fresh
  \/ /\ p.st = "turn" /\ p.pipe # <<>> /\ o.proc.st = "turn" /\ o.say = <<>>
     /\ o.proc.pipe = Tail(p.pipe) /\ o.file = f
     /\ o.proc.int = p.int /\ o.proc.fresh = p.fresh
  \/ /\ p.st = "open" /\ o.proc.st = "turn" /\ o.say = <<"work">>
     /\ o.proc.pipe = p.pipe /\ o.file = f
     /\ o.proc.int = p.int /\ o.proc.fresh = p.fresh
  \/ /\ p.st = "turn" /\ o.proc.st = "flush" /\ o.say = <<"done">>
     /\ o.proc.pipe = p.pipe /\ o.file = f
     /\ o.proc.int = p.int /\ o.proc.fresh = p.fresh
  \/ /\ p.st = "flush" /\ o.proc.st = "idle" /\ o.say = <<>>
     /\ o.proc.pipe = p.pipe /\ o.file = Append(f, "done")
     /\ o.proc.int = p.int /\ o.proc.fresh = p.fresh
  \/ /\ p.st \in {"open", "turn"} /\ o.proc.st = "dead"
     /\ o.say = <<"cancelled", "done">> /\ o.proc.pipe = p.pipe
     /\ o.file = f \o <<"cancelled", "done">>
     /\ o.proc.int = p.int /\ o.proc.fresh = p.fresh
  \/ /\ p.st \in {"boot", "idle"} /\ o.proc.st = "dead" /\ o.say = <<>>
     /\ o.proc.pipe = p.pipe
     /\ o.proc.int = p.int /\ o.proc.fresh = p.fresh
     /\ \/ p.fresh /\ f = <<"meta">> /\ o.file = <<>>
        \/ ~(p.fresh /\ f = <<"meta">>) /\ o.file = f

LEMMA Outcomes ==
  ASSUME NEW p \in ProcT, NEW f \in Seq(EntryT), NEW eof \in BOOLEAN,
         NEW o \in ProcSteps(p, f, eof)
  PROVE  /\ o.proc \in ProcT /\ o.file \in Seq(EntryT) /\ o.say \in Seq(EventT)
         /\ Outcome(p, f, o)
<1>0. p.pipe \in Seq(LineT) /\ (p.pipe # <<>> => Head(p.pipe) \in EntryT)
  BY DEF ProcT, LineT, EntryT
<1>1. CASE o \in Mounts(p, f)
  <2>1. p.st = "boot" /\ o = To([p EXCEPT !.st = "idle", !.fresh = f = <<>>],
           IF f = <<>> THEN <<"meta">>
           ELSE IF openTurn(f) THEN Append(f, "cancelled") ELSE f, <<>>)
    BY <1>1 DEF Mounts
  <2>2. (f = <<>>) \in BOOLEAN
    OBVIOUS
  <2>3. /\ o.proc = [p EXCEPT !.st = "idle", !.fresh = f = <<>>] /\ o.say = <<>>
        /\ o.file = IF f = <<>> THEN <<"meta">>
                    ELSE IF openTurn(f) THEN Append(f, "cancelled") ELSE f
    BY <2>1 DEF To
  <2>4. <<"meta">> \in Seq(EntryT) /\ Append(f, "cancelled") \in Seq(EntryT)
    BY DEF EntryT
  <2>5. o.proc \in ProcT
    BY <2>1, <2>2, <2>3 DEF ProcT
  <2>6. /\ o.proc.st = "idle" /\ o.proc.pipe = p.pipe
        /\ o.proc.int = p.int /\ o.proc.fresh = (f = <<>>)
    BY <2>3 DEF ProcT
  <2>7. \/ f = <<>> /\ o.file = <<"meta">>
        \/ f # <<>> /\ openTurn(f) /\ o.file = Append(f, "cancelled")
        \/ f # <<>> /\ o.file = f
    BY <2>3
  <2>8. o.file \in Seq(EntryT) /\ o.say \in Seq(EventT)
    BY <2>3, <2>4
  <2> QED BY <2>1, <2>3, <2>5, <2>6, <2>7, <2>8 DEF Outcome
<1>2. CASE o \in TakesLine(p, f)
  <2>1. /\ p.st = "idle" /\ p.pipe # <<>> /\ ~p.int
        /\ o.proc = [p EXCEPT !.st = "open", !.pipe = Tail(p.pipe)]
        /\ o.file = Append(f, Head(p.pipe)) /\ o.say = <<>>
    BY <1>2 DEF TakesLine, To
  <2>2. o.proc \in ProcT
    <3>1. Tail(p.pipe) \in Seq(LineT)
      BY <1>0, <2>1
    <3> QED BY <2>1, <3>1 DEF ProcT
  <2>3. /\ o.proc.st = "open" /\ o.proc.pipe = Tail(p.pipe)
        /\ o.proc.int = p.int /\ o.proc.fresh = p.fresh
    BY <2>1 DEF ProcT
  <2>4. Append(f, Head(p.pipe)) \in Seq(EntryT) /\ <<>> \in Seq(EventT)
    BY <1>0, <2>1 DEF EntryT, EventT
  <2> QED BY <2>1, <2>2, <2>3, <2>4 DEF Outcome
<1>3. CASE o \in Steers(p, f)
  <2>1. /\ p.st = "turn" /\ p.pipe # <<>>
        /\ o.proc = [p EXCEPT !.pipe = Tail(p.pipe)]
        /\ o.file = f /\ o.say = <<>>
    BY <1>3 DEF Steers, To
  <2>2. o.proc \in ProcT
    BY <1>0, <2>1 DEF ProcT
  <2>3. /\ o.proc.st = "turn" /\ o.proc.pipe = Tail(p.pipe)
        /\ o.proc.int = p.int /\ o.proc.fresh = p.fresh
    BY <2>1 DEF ProcT
  <2>4. f \in Seq(EntryT) /\ <<>> \in Seq(EventT)
    BY <1>0, <2>1 DEF EntryT, EventT
  <2> QED BY <2>1, <2>2, <2>3, <2>4 DEF Outcome
<1>4. CASE o \in Works(p, f)
  <2>1. /\ p.st = "open"
        /\ o.proc = [p EXCEPT !.st = "turn"]
        /\ o.file = f /\ o.say = <<"work">>
    BY <1>4 DEF Works, To
  <2>2. o.proc \in ProcT
    BY <1>0, <2>1 DEF ProcT
  <2>3. /\ o.proc.st = "turn" /\ o.proc.pipe = p.pipe
        /\ o.proc.int = p.int /\ o.proc.fresh = p.fresh
    BY <2>1 DEF ProcT
  <2>4. f \in Seq(EntryT) /\ <<"work">> \in Seq(EventT)
    BY <1>0, <2>1 DEF EntryT, EventT
  <2> QED BY <2>1, <2>2, <2>3, <2>4 DEF Outcome
<1>5. CASE o \in Finishes(p, f)
  <2>1. /\ p.st = "turn"
        /\ o.proc = [p EXCEPT !.st = "flush"]
        /\ o.file = f /\ o.say = <<"done">>
    BY <1>5 DEF Finishes, To
  <2>2. o.proc \in ProcT
    BY <1>0, <2>1 DEF ProcT
  <2>3. /\ o.proc.st = "flush" /\ o.proc.pipe = p.pipe
        /\ o.proc.int = p.int /\ o.proc.fresh = p.fresh
    BY <2>1 DEF ProcT
  <2>4. f \in Seq(EntryT) /\ <<"done">> \in Seq(EventT)
    BY <1>0, <2>1 DEF EntryT, EventT
  <2> QED BY <2>1, <2>2, <2>3, <2>4 DEF Outcome
<1>6. CASE o \in Flushes(p, f)
  <2>1. /\ p.st = "flush"
        /\ o.proc = [p EXCEPT !.st = "idle"]
        /\ o.file = Append(f, "done") /\ o.say = <<>>
    BY <1>6 DEF Flushes, To
  <2>2. o.proc \in ProcT
    BY <1>0, <2>1 DEF ProcT
  <2>3. /\ o.proc.st = "idle" /\ o.proc.pipe = p.pipe
        /\ o.proc.int = p.int /\ o.proc.fresh = p.fresh
    BY <2>1 DEF ProcT
  <2>4. Append(f, "done") \in Seq(EntryT) /\ <<>> \in Seq(EventT)
    BY <1>0, <2>1 DEF EntryT, EventT
  <2> QED BY <2>1, <2>2, <2>3, <2>4 DEF Outcome
<1>7. CASE o \in Cancels(p, f)
  <2>0. /\ p.st \in {"open", "turn"}
        /\ o = To([p EXCEPT !.st = "dead"], f \o <<"cancelled", "done">>,
                  <<"cancelled", "done">>)
    <3>1. ~(~p.int \/ p.st \notin {"open", "turn"})
      BY <1>7 DEF Cancels
    <3> QED BY <1>7, <3>1 DEF Cancels
  <2>1. /\ p.st \in {"open", "turn"}
        /\ o.proc = [p EXCEPT !.st = "dead"]
        /\ o.file = f \o <<"cancelled", "done">> /\ o.say = <<"cancelled", "done">>
    BY <2>0 DEF To
  <2>2. o.proc \in ProcT
    BY <1>0, <2>1 DEF ProcT
  <2>3. /\ o.proc.st = "dead" /\ o.proc.pipe = p.pipe
        /\ o.proc.int = p.int /\ o.proc.fresh = p.fresh
    BY <2>1 DEF ProcT
  <2>4. /\ <<"cancelled", "done">> \in Seq(EntryT)
        /\ <<"cancelled", "done">> \in Seq(EventT)
    BY DEF EntryT, EventT
  <2>5. f \o <<"cancelled", "done">> \in Seq(EntryT)
    BY <2>4
  <2> QED BY <2>1, <2>2, <2>3, <2>4, <2>5 DEF Outcome
<1>8. CASE o \in Leaves(p, f, eof)
  <2>1. /\ p.st \in {"boot", "idle"}
        /\ o.proc = [p EXCEPT !.st = "dead"]
        /\ o.file = (IF p.fresh /\ f = <<"meta">> THEN <<>> ELSE f) /\ o.say = <<>>
    BY <1>8 DEF Leaves, To
  <2>2. o.proc \in ProcT
    BY <1>0, <2>1 DEF ProcT
  <2>3. /\ o.proc.st = "dead" /\ o.proc.pipe = p.pipe
        /\ o.proc.int = p.int /\ o.proc.fresh = p.fresh
    BY <2>1 DEF ProcT
  <2>4. o.file \in Seq(EntryT) /\ o.say \in Seq(EventT)
    BY <1>0, <2>1 DEF EntryT, EventT
  <2> QED BY <2>1, <2>2, <2>3, <2>4 DEF Outcome
<1> QED BY <1>1, <1>2, <1>3, <1>4, <1>5, <1>6, <1>7, <1>8 DEF ProcSteps

----------------------------------------------------------------------------
(* What each step does to one child, field by field.                       *)

KidIs(k, pc, by, prompt, stopReq, failed, exited) ==
  /\ kids'[k].pc = pc /\ kids'[k].by = by /\ kids'[k].prompt = prompt
  /\ kids'[k].stopReq = stopReq /\ kids'[k].startFailed = failed
  /\ kids'[k].exited = exited

MetaIs(k, here, task, prompt, queued, ended, reported) ==
  /\ meta'[k].here = here /\ meta'[k].task = task /\ meta'[k].prompt = prompt
  /\ meta'[k].queued = queued /\ meta'[k].ended = ended
  /\ meta'[k].reported = reported

ProcIs(k, st, pipe, int) ==
  proc'[k].st = st /\ proc'[k].pipe = pipe /\ proc'[k].int = int

(* Forgotten in meta.json; in memory, and no process.                      *)
Erased(k) == MetaIs(k, FALSE, FALSE, FALSE, FALSE, "no", 0)
Released(k) == KidIs(k, "none", "none", FALSE, FALSE, FALSE, FALSE)
Dies(k) ==
  /\ proc'[k].pipe = proc[k].pipe /\ proc'[k].int = proc[k].int
  /\ \/ proc[k].st = "none" /\ proc'[k].st = "none"
     \/ proc[k].st # "none" /\ proc'[k].st = "dead"

(* A report goroutine starts, or goes on.                                  *)
Adds(k, rest, trigger, pc, key) ==
  \E x : /\ ReportsOf(k)' = rest \cup {x}
         /\ x.k = k /\ x.trigger = trigger /\ x.pc = pc /\ x.key = key

Unstarts(k, how, rest) ==
  LET due == serve = "up" /\ meta[k].here /\ meta[k].ended = "no" /\ meta[k].task
  IN \/ /\ due
        /\ MetaIs(k, TRUE, FALSE, meta[k].prompt, meta[k].queued, how,
                  meta[k].reported)
        /\ Adds(k, rest, "unstarted", "tell", 0)
     \/ ~due /\ meta'[k] = meta[k] /\ ReportsOf(k)' = rest

LaunchFails(k) ==
  \/ kids[k].by = "create" /\ Erased(k) /\ ReportsOf(k)' = ReportsOf(k)
  \/ kids[k].by # "create" /\ Unstarts(k, "error", ReportsOf(k))

ChildEvents(k, kind) ==
  \/ /\ ~meta[k].here
     /\ meta'[k] = meta[k] /\ ReportsOf(k)' = ReportsOf(k)
     /\ k \in running' <=> k \in running
  \/ /\ meta[k].here
     /\ MetaIs(k, TRUE, meta[k].task /\ ~TaskTaken(k, kind), meta[k].prompt,
               meta[k].queued, meta[k].ended, meta[k].reported)
     /\ \/ /\ kind = "work"
           /\ (k \in running' <=> k \in running) /\ ReportsOf(k)' = ReportsOf(k)
        \/ /\ kind # "work" /\ k \notin running'
           /\ serve = "closing" \/ (kind = "exit" /\ kids[k].startFailed)
           /\ ReportsOf(k)' = ReportsOf(k)
        \/ /\ kind # "work" /\ k \notin running'
           /\ serve # "closing" /\ ~(kind = "exit" /\ kids[k].startFailed)
           /\ \/ kind = "exit" /\ Adds(k, ReportsOf(k), "exit", "start", 0)
              \/ kind # "exit" /\ Adds(k, ReportsOf(k), "close", "decide", 0)

PastKept(j) ==
  /\ Born(j)' <=> Born(j)
  /\ j \in past'.orphans <=> j \in past.orphans
  /\ j \in past'.messaged <=> j \in past.messaged
  /\ j \in past'.overtaken <=> j \in past.overtaken
  /\ j \in past'.bootStopped <=> j \in past.bootStopped
  /\ j \in past'.withdrawn <=> j \in past.withdrawn
  /\ j \in past'.cut <=> j \in past.cut
  /\ past'.restarted = past.restarted

DiskKept(j) == meta'[j] = meta[j] /\ file'[j] = file[j] /\ told'[j] = told[j]

ProcessKept(j) == proc'[j] = proc[j] /\ stray'[j] = stray[j] /\ out'[j] = out[j]

MindKept(j) ==
  /\ kids'[j] = kids[j] /\ sending'[j] = sending[j]
  /\ j \in running' <=> j \in running
  /\ j \in freeing' <=> j \in freeing
  /\ j \in waiting' <=> j \in waiting
  /\ j \in waitStops' <=> j \in waitStops
  /\ j \in withdrawing' <=> j \in withdrawing
  /\ ReportsOf(j)' = ReportsOf(j)

Same(j) ==
  /\ serve' = serve
  /\ DiskKept(j) /\ ProcessKept(j) /\ MindKept(j) /\ PastKept(j)
  /\ InQueue(j)' <=> InQueue(j)
  /\ j \in owed' <=> j \in owed

LEMMA EventReports ==
  ASSUME Typed, NEW k \in Kids, NEW kind \in EventT \cup {"exit"}, childEvent(k, kind)
  PROVE  /\ ChildEvents(k, kind)
         /\ \A j \in Kids : j # k =>
              /\ ReportsOf(j)' = ReportsOf(j)
              /\ meta'[j] = meta[j]
              /\ j \in running' <=> j \in running
<1>1. CASE ~meta[k].here
  BY <1>1 DEF childEvent, ChildEvents, ReportsOf
<1>2. CASE meta[k].here
  <2> DEFINE new == IF kind = "exit" THEN Report(k, "exit", "start")
                    ELSE Report(k, "close", "decide")
  <2>1. /\ meta' = [meta EXCEPT ![k].task = meta[k].task /\ ~TaskTaken(k, kind)]
        /\ IF kind = "work" THEN UNCHANGED <<running, reports>>
           ELSE /\ running' = running \ {k}
                /\ IF serve = "closing" \/ (kind = "exit" /\ kids[k].startFailed)
                   THEN UNCHANGED reports
                   ELSE reports' = More(new)
    BY <1>2 DEF childEvent, SlotBack
  <2>2. /\ MetaIs(k, TRUE, meta[k].task /\ ~TaskTaken(k, kind), meta[k].prompt,
                  meta[k].queued, meta[k].ended, meta[k].reported)
        /\ \A j \in Kids : j # k => meta'[j] = meta[j]
    <3>1. meta[k] \in MetaT /\ meta \in [Kids -> MetaT]
      BY DEF Typed
    <3>2. meta'[k] = [meta[k] EXCEPT !.task = meta[k].task /\ ~TaskTaken(k, kind)]
      BY <2>1, <3>1
    <3>3. \A j \in Kids : j # k => meta'[j] = meta[j]
      BY <2>1, <3>1
    <3> QED BY <1>2, <3>1, <3>2, <3>3 DEF MetaIs, MetaT
  <2>3. CASE kind = "work" \/ serve = "closing" \/ (kind = "exit" /\ kids[k].startFailed)
    <3> HIDE DEF new
    <3> QED BY <1>2, <2>1, <2>2, <2>3 DEF ChildEvents, ReportsOf
  <2>4. CASE ~(kind = "work" \/ serve = "closing" \/ (kind = "exit" /\ kids[k].startFailed))
    <3>1. PICK m : reports' = reports \cup {[new EXCEPT !.n = m]}
      <4> HIDE DEF new
      <4> QED BY <2>1, <2>4 DEF More
    <3> DEFINE x == [new EXCEPT !.n = m]
    <3>2. /\ x.k = k /\ x.key = 0
          /\ kind = "exit" => x.trigger = "exit" /\ x.pc = "start"
          /\ kind # "exit" => x.trigger = "close" /\ x.pc = "decide"
      BY DEF Report
    <3>3. reports' = reports \cup {x}
      BY <3>1
    <3> HIDE DEF x, new
    <3>4. /\ ReportsOf(k)' = ReportsOf(k) \cup {x}
          /\ \A j \in Kids : j # k => ReportsOf(j)' = ReportsOf(j)
      BY <3>2, <3>3 DEF ReportsOf
    <3>5. \/ kind = "exit" /\ Adds(k, ReportsOf(k), "exit", "start", 0)
          \/ kind # "exit" /\ Adds(k, ReportsOf(k), "close", "decide", 0)
      BY <3>2, <3>4 DEF Adds
    <3> QED BY <1>2, <2>1, <2>2, <2>4, <3>4, <3>5 DEF ChildEvents
  <2> QED BY <2>3, <2>4
<1> QED BY <1>1, <1>2

(* A child that ended unstarted, seen by itself and by the others.         *)
LEMMA EndsUnstarted ==
  ASSUME Typed, NEW k \in Kids, NEW how \in {"error", "stopped"},
         NEW gone, EndUnstarted(k, how, reports \ gone)
  PROVE  /\ Unstarts(k, how, ReportsOf(k) \ gone)
         /\ \A j \in Kids : j # k =>
              /\ ReportsOf(j)' = ReportsOf(j) \ gone
              /\ meta'[j] = meta[j]
<1> DEFINE due == serve = "up" /\ meta[k].here /\ meta[k].ended = "no" /\ meta[k].task
           x == Report(k, "unstarted", "tell")
<1>0. x.k = k /\ x.trigger = "unstarted" /\ x.pc = "tell" /\ x.key = 0
  BY DEF Report
<1>1. CASE due
  <2>1. /\ meta' = [meta EXCEPT ![k].ended = how, ![k].task = FALSE]
        /\ reports' = (reports \ gone) \cup {x}
    BY <1>1 DEF EndUnstarted
  <2>2. meta[k] \in MetaT /\ meta \in [Kids -> MetaT]
    BY DEF Typed
  <2>3. /\ meta'[k] = [meta[k] EXCEPT !.ended = how, !.task = FALSE]
        /\ \A j \in Kids : j # k => meta'[j] = meta[j]
    BY <2>1, <2>2
  <2>4. MetaIs(k, TRUE, FALSE, meta[k].prompt, meta[k].queued, how, meta[k].reported)
    BY <1>1, <2>2, <2>3 DEF MetaIs, MetaT
  <2> HIDE DEF x
  <2>5. /\ ReportsOf(k)' = (ReportsOf(k) \ gone) \cup {x}
        /\ \A j \in Kids : j # k => ReportsOf(j)' = ReportsOf(j) \ gone
    BY <1>0, <2>1 DEF ReportsOf
  <2>6. Adds(k, ReportsOf(k) \ gone, "unstarted", "tell", 0)
    BY <1>0, <2>5 DEF Adds
  <2> QED BY <1>1, <2>3, <2>4, <2>5, <2>6 DEF Unstarts
<1>2. CASE ~due
  <2>1. meta' = meta /\ reports' = reports \ gone
    BY <1>2 DEF EndUnstarted
  <2> HIDE DEF x
  <2> QED BY <1>2, <2>1 DEF Unstarts, ReportsOf
<1> QED BY <1>1, <1>2

(* What abandon and drop do when a start failed.                           *)
LEMMA FailedLaunches ==
  ASSUME Typed, NEW k \in Kids, LaunchFailed(k)
  PROVE  /\ LaunchFails(k)
         /\ \A j \in Kids : j # k =>
              /\ ReportsOf(j)' = ReportsOf(j)
              /\ meta'[j] = meta[j]
<1>1. CASE kids[k].by = "create"
  <2>1. meta' = [meta EXCEPT ![k] = NoMeta] /\ reports' = reports
    BY <1>1 DEF LaunchFailed
  <2>2. Erased(k)
    BY <2>1 DEF Erased, MetaIs, NoMeta, Typed
  <2> QED BY <1>1, <2>1, <2>2 DEF LaunchFails, ReportsOf, Typed
<1>2. CASE kids[k].by # "create"
  <2>1. EndUnstarted(k, "error", reports \ {})
    <3>1. reports \ {} = reports
      OBVIOUS
    <3> QED BY <1>2, <3>1 DEF LaunchFailed
  <2>2. /\ Unstarts(k, "error", ReportsOf(k) \ {})
        /\ \A j \in Kids : j # k => ReportsOf(j)' = ReportsOf(j) \ {} /\ meta'[j] = meta[j]
    BY <2>1, EndsUnstarted
  <2>3. \A j : ReportsOf(j) \ {} = ReportsOf(j)
    OBVIOUS
  <2> QED BY <1>2, <2>2, <2>3 DEF LaunchFails
<1> QED BY <1>1, <1>2

OnLaunchStarts(k) ==
  /\ Up
  /\ kids[k].pc = "exec"
  /\ serve' = serve
  /\ meta'[k] = meta[k]
  /\ stray'[k] = stray[k]
  /\ out'[k] = out[k]
  /\ file'[k] = file[k]
  /\ told'[k] = told[k]
  /\ sending'[k] = sending[k]
  /\ k \in running' <=> k \in running
  /\ k \in freeing' <=> k \in freeing
  /\ k \in waiting' <=> k \in waiting
  /\ k \in waitStops' <=> k \in waitStops
  /\ k \in withdrawing' <=> k \in withdrawing
  /\ k \in owed' <=> k \in owed
  /\ InQueue(k)' <=> InQueue(k)
  /\ ReportsOf(k)' = ReportsOf(k)
  /\ past' = past
  /\ KidIs(k, "check", kids[k].by, kids[k].prompt, kids[k].stopReq,
          kids[k].startFailed, kids[k].exited)
  /\ ProcIs(k, "boot", <<>>, FALSE)

LEMMA LaunchStartsDoes ==
  ASSUME Typed, InOrder, NEW k \in Kids, LaunchStarts(k)
  PROVE  OnLaunchStarts(k)
<1>1. /\ Up
      /\ kids[k].pc = "exec"
      /\ serve' = serve
      /\ meta'[k] = meta[k]
      /\ stray'[k] = stray[k]
      /\ out'[k] = out[k]
      /\ file'[k] = file[k]
      /\ told'[k] = told[k]
      /\ sending'[k] = sending[k]
      /\ k \in running' <=> k \in running
      /\ k \in freeing' <=> k \in freeing
      /\ k \in waiting' <=> k \in waiting
      /\ k \in waitStops' <=> k \in waitStops
      /\ k \in withdrawing' <=> k \in withdrawing
      /\ k \in owed' <=> k \in owed
      /\ InQueue(k)' <=> InQueue(k)
      /\ ReportsOf(k)' = ReportsOf(k)
      /\ past' = past
      /\ kids'[k] = [kids[k] EXCEPT !.pc = "check"]
      /\ proc'[k] = Started
  BY DEF LaunchStarts, disk, Typed, ReportsOf, InQueue, Live, MetaT, KidT, ProcT, historyExists, NoProc, Started
<1>2. kids[k] \in KidT /\ meta[k] \in MetaT /\ proc[k] \in ProcT
  BY DEF Typed
<1> QED BY <1>1, <1>2 DEF OnLaunchStarts, KidIs, ProcIs, Started, NoProc, KidT, MetaT, ProcT

LEMMA LaunchStartsOthers ==
  ASSUME Typed, InOrder, NEW k \in Kids, LaunchStarts(k), NEW j \in Kids, j # k
  PROVE  Same(j)
  BY DEF LaunchStarts, disk, Typed, ReportsOf, InQueue, Same, DiskKept, ProcessKept, MindKept, PastKept, Born, PastT

OnLaunchChecks(k) ==
  /\ Up
  /\ kids[k].pc = "check"
  /\ serve' = serve
  /\ stray'[k] = stray[k]
  /\ out'[k] = out[k]
  /\ file'[k] = file[k]
  /\ told'[k] = told[k]
  /\ sending'[k] = sending[k]
  /\ k \in running' <=> k \in running
  /\ k \in freeing' <=> k \in freeing
  /\ k \in waitStops' <=> k \in waitStops
  /\ k \in withdrawing' <=> k \in withdrawing
  /\ k \in owed' <=> k \in owed
  /\ InQueue(k)' <=> InQueue(k)
  /\ ReportsOf(k)' = ReportsOf(k)
  /\ past' = past
  /\ \/ /\ kids[k].stopReq
        /\ MetaIs(k, meta[k].here, FALSE, meta[k].prompt, meta[k].queued,
            meta[k].ended, meta[k].reported)
        /\ KidIs(k, "wait", kids[k].by, kids[k].prompt, kids[k].stopReq,
            kids[k].startFailed, kids[k].exited)
        /\ Dies(k)
        /\ k \in waiting' <=> k \in waiting
     \/ /\ ~kids[k].stopReq
        /\ kids[k].prompt
        /\ KidIs(k, "prompt", kids[k].by, kids[k].prompt, kids[k].stopReq,
            kids[k].startFailed, kids[k].exited)
        /\ meta'[k] = meta[k]
        /\ proc'[k] = proc[k]
        /\ k \in waiting' <=> k \in waiting
     \/ /\ ~kids[k].stopReq
        /\ ~kids[k].prompt
        /\ KidIs(k, "up", kids[k].by, kids[k].prompt, kids[k].stopReq,
            kids[k].startFailed, kids[k].exited)
        /\ meta'[k] = meta[k]
        /\ proc'[k] = proc[k]
        /\ k \in waiting'

LEMMA LaunchChecksDoes ==
  ASSUME Typed, InOrder, NEW k \in Kids, LaunchChecks(k)
  PROVE  OnLaunchChecks(k)
<1>1. /\ Up
      /\ kids[k].pc = "check"
      /\ serve' = serve
      /\ stray'[k] = stray[k]
      /\ out'[k] = out[k]
      /\ file'[k] = file[k]
      /\ told'[k] = told[k]
      /\ sending'[k] = sending[k]
      /\ k \in running' <=> k \in running
      /\ k \in freeing' <=> k \in freeing
      /\ k \in waitStops' <=> k \in waitStops
      /\ k \in withdrawing' <=> k \in withdrawing
      /\ k \in owed' <=> k \in owed
      /\ InQueue(k)' <=> InQueue(k)
      /\ ReportsOf(k)' = ReportsOf(k)
      /\ past' = past
      /\ \/ /\ kids[k].stopReq
            /\ meta'[k] = [meta[k] EXCEPT !.task = FALSE]
            /\ kids'[k] = [kids[k] EXCEPT !.pc = "wait", !.dying = TRUE]
            /\ proc'[k] = Killed(proc[k])
            /\ k \in waiting' <=> k \in waiting
         \/ /\ ~kids[k].stopReq
            /\ kids[k].prompt
            /\ kids'[k] = [kids[k] EXCEPT !.pc = "prompt"]
            /\ meta'[k] = meta[k]
            /\ proc'[k] = proc[k]
            /\ k \in waiting' <=> k \in waiting
         \/ /\ ~kids[k].stopReq
            /\ ~kids[k].prompt
            /\ kids'[k] = [kids[k] EXCEPT !.pc = "up"]
            /\ meta'[k] = meta[k]
            /\ proc'[k] = proc[k]
            /\ k \in waiting'
  BY DEF LaunchChecks, Typed, ReportsOf, InQueue, Live, MetaT, KidT, ProcT, historyExists, NoProc, Started, StopSeen
<1>2. kids[k] \in KidT /\ meta[k] \in MetaT /\ proc[k] \in ProcT
  BY DEF Typed
<1> QED BY <1>1, <1>2 DEF OnLaunchChecks, Dies, KidIs, MetaIs, Killed, Alive, KidT, MetaT, ProcT

LEMMA LaunchChecksOthers ==
  ASSUME Typed, InOrder, NEW k \in Kids, LaunchChecks(k), NEW j \in Kids, j # k
  PROVE  Same(j)
  BY DEF LaunchChecks, Typed, ReportsOf, InQueue, Same, DiskKept, ProcessKept, MindKept, PastKept, Born, PastT, StopSeen

OnLaunchPrompts(k) ==
  /\ Up
  /\ kids[k].pc = "prompt"
  /\ serve' = serve
  /\ meta'[k] = meta[k]
  /\ stray'[k] = stray[k]
  /\ out'[k] = out[k]
  /\ file'[k] = file[k]
  /\ told'[k] = told[k]
  /\ sending'[k] = sending[k]
  /\ k \in freeing' <=> k \in freeing
  /\ k \in waiting' <=> k \in waiting
  /\ k \in waitStops' <=> k \in waitStops
  /\ k \in withdrawing' <=> k \in withdrawing
  /\ k \in owed' <=> k \in owed
  /\ InQueue(k)' <=> InQueue(k)
  /\ ReportsOf(k)' = ReportsOf(k)
  /\ past' = past
  /\ \/ /\ Alive(proc[k])
        /\ KidIs(k, "up", kids[k].by, kids[k].prompt, kids[k].stopReq,
            kids[k].startFailed, kids[k].exited)
        /\ ProcIs(k, proc[k].st, Append(proc[k].pipe, "task"), proc[k].int)
        /\ k \in running' <=> k \in running
     \/ /\ ~Alive(proc[k])
        /\ KidIs(k, "wait", kids[k].by, kids[k].prompt, kids[k].stopReq, TRUE,
            kids[k].exited)
        /\ proc'[k] = proc[k]
        /\ k \notin running'

LEMMA LaunchPromptsDoes ==
  ASSUME Typed, InOrder, NEW k \in Kids, LaunchPrompts(k)
  PROVE  OnLaunchPrompts(k)
<1>1. /\ Up
      /\ kids[k].pc = "prompt"
      /\ serve' = serve
      /\ meta'[k] = meta[k]
      /\ stray'[k] = stray[k]
      /\ out'[k] = out[k]
      /\ file'[k] = file[k]
      /\ told'[k] = told[k]
      /\ sending'[k] = sending[k]
      /\ k \in freeing' <=> k \in freeing
      /\ k \in waiting' <=> k \in waiting
      /\ k \in waitStops' <=> k \in waitStops
      /\ k \in withdrawing' <=> k \in withdrawing
      /\ k \in owed' <=> k \in owed
      /\ InQueue(k)' <=> InQueue(k)
      /\ ReportsOf(k)' = ReportsOf(k)
      /\ past' = past
      /\ \/ /\ Alive(proc[k])
            /\ kids'[k] = [kids[k] EXCEPT !.pc = "up", !.unread = TRUE]
            /\ proc'[k] = [proc[k] EXCEPT !.pipe = Append(proc[k].pipe, "task")]
            /\ k \in running' <=> k \in running
         \/ /\ ~Alive(proc[k])
            /\ kids'[k] = [kids[k] EXCEPT !.pc = "wait", !.startFailed = TRUE,
                                            !.dying = TRUE]
            /\ proc'[k] = proc[k]
            /\ k \notin running'
  BY DEF LaunchPrompts, disk, Typed, ReportsOf, InQueue, Live, MetaT, KidT, ProcT, historyExists, NoProc, Started
<1>2. kids[k] \in KidT /\ meta[k] \in MetaT /\ proc[k] \in ProcT
  BY DEF Typed
<1> QED BY <1>1, <1>2 DEF OnLaunchPrompts, KidIs, ProcIs, KidT, MetaT, ProcT

LEMMA LaunchPromptsOthers ==
  ASSUME Typed, InOrder, NEW k \in Kids, LaunchPrompts(k), NEW j \in Kids, j # k
  PROVE  Same(j)
  BY DEF LaunchPrompts, disk, Typed, ReportsOf, InQueue, Same, DiskKept, ProcessKept, MindKept, PastKept, Born, PastT

OnFreeLooks(k) ==
  /\ Up
  /\ k \in waiting
  /\ serve' = serve
  /\ meta'[k] = meta[k]
  /\ kids'[k] = kids[k]
  /\ proc'[k] = proc[k]
  /\ stray'[k] = stray[k]
  /\ out'[k] = out[k]
  /\ file'[k] = file[k]
  /\ told'[k] = told[k]
  /\ sending'[k] = sending[k]
  /\ k \in running' <=> k \in running
  /\ k \in waitStops' <=> k \in waitStops
  /\ k \in withdrawing' <=> k \in withdrawing
  /\ k \in owed' <=> k \in owed
  /\ InQueue(k)' <=> InQueue(k)
  /\ ReportsOf(k)' = ReportsOf(k)
  /\ past' = past
  /\ k \in freeing' <=>
         k \in freeing \/ ~(\E i \in DOMAIN file[k] : IsInput(file[k][i]))
  /\ k \notin waiting'

LEMMA FreeLooksDoes ==
  ASSUME Typed, InOrder, NEW k \in Kids, FreeLooks(k)
  PROVE  OnFreeLooks(k)
<1>1. /\ Up
      /\ k \in waiting
      /\ serve' = serve
      /\ meta'[k] = meta[k]
      /\ kids'[k] = kids[k]
      /\ proc'[k] = proc[k]
      /\ stray'[k] = stray[k]
      /\ out'[k] = out[k]
      /\ file'[k] = file[k]
      /\ told'[k] = told[k]
      /\ sending'[k] = sending[k]
      /\ k \in running' <=> k \in running
      /\ k \in waitStops' <=> k \in waitStops
      /\ k \in withdrawing' <=> k \in withdrawing
      /\ k \in owed' <=> k \in owed
      /\ InQueue(k)' <=> InQueue(k)
      /\ ReportsOf(k)' = ReportsOf(k)
      /\ past' = past
      /\ k \in freeing' <=>
             k \in freeing \/ ~(\E i \in DOMAIN file[k] : IsInput(file[k][i]))
      /\ k \notin waiting'
  BY DEF FreeLooks, disk, process, Typed, ReportsOf, InQueue, Live, MetaT, KidT, ProcT, historyExists, NoProc, Started
<1>2. kids[k] \in KidT /\ meta[k] \in MetaT /\ proc[k] \in ProcT
  BY DEF Typed
<1> QED BY <1>1, <1>2 DEF OnFreeLooks, KidT, MetaT, ProcT

LEMMA FreeLooksOthers ==
  ASSUME Typed, InOrder, NEW k \in Kids, FreeLooks(k), NEW j \in Kids, j # k
  PROVE  Same(j)
  BY DEF FreeLooks, disk, process, Typed, ReportsOf, InQueue, Same, DiskKept, ProcessKept, MindKept, PastKept, Born, PastT

OnFreeGives(k) ==
  /\ Up
  /\ k \in freeing
  /\ serve' = serve
  /\ kids'[k] = kids[k]
  /\ proc'[k] = proc[k]
  /\ stray'[k] = stray[k]
  /\ out'[k] = out[k]
  /\ file'[k] = file[k]
  /\ told'[k] = told[k]
  /\ sending'[k] = sending[k]
  /\ k \in waiting' <=> k \in waiting
  /\ k \in waitStops' <=> k \in waitStops
  /\ k \in withdrawing' <=> k \in withdrawing
  /\ k \in owed' <=> k \in owed
  /\ InQueue(k)' <=> InQueue(k)
  /\ ReportsOf(k)' = ReportsOf(k)
  /\ past' = past
  /\ MetaIs(k, meta[k].here, meta[k].task /\ ~historyExists(k),
          meta[k].prompt, meta[k].queued, meta[k].ended, meta[k].reported)
  /\ k \notin running'
  /\ k \notin freeing'

LEMMA FreeGivesDoes ==
  ASSUME Typed, InOrder, NEW k \in Kids, FreeGives(k)
  PROVE  OnFreeGives(k)
<1>1. /\ Up
      /\ k \in freeing
      /\ serve' = serve
      /\ kids'[k] = kids[k]
      /\ proc'[k] = proc[k]
      /\ stray'[k] = stray[k]
      /\ out'[k] = out[k]
      /\ file'[k] = file[k]
      /\ told'[k] = told[k]
      /\ sending'[k] = sending[k]
      /\ k \in waiting' <=> k \in waiting
      /\ k \in waitStops' <=> k \in waitStops
      /\ k \in withdrawing' <=> k \in withdrawing
      /\ k \in owed' <=> k \in owed
      /\ InQueue(k)' <=> InQueue(k)
      /\ ReportsOf(k)' = ReportsOf(k)
      /\ past' = past
      /\ meta'[k] = [meta[k] EXCEPT !.task = meta[k].task /\ ~historyExists(k)]
      /\ k \notin running'
      /\ k \notin freeing'
  BY DEF FreeGives, process, GiveSlot, GoDrain, Typed, ReportsOf, InQueue, Live, MetaT, KidT, ProcT, historyExists, NoProc, Started
<1>2. kids[k] \in KidT /\ meta[k] \in MetaT /\ proc[k] \in ProcT
  BY DEF Typed
<1> QED BY <1>1, <1>2 DEF OnFreeGives, MetaIs, KidT, MetaT, ProcT

LEMMA FreeGivesOthers ==
  ASSUME Typed, InOrder, NEW k \in Kids, FreeGives(k), NEW j \in Kids, j # k
  PROVE  Same(j)
  BY DEF FreeGives, process, GiveSlot, GoDrain, Typed, ReportsOf, InQueue, Same, DiskKept, ProcessKept, MindKept, PastKept, Born, PastT

OnHoldExpires(k) ==
  /\ Up
  /\ Live(k)
  /\ serve' = serve
  /\ meta'[k] = meta[k]
  /\ stray'[k] = stray[k]
  /\ out'[k] = out[k]
  /\ file'[k] = file[k]
  /\ told'[k] = told[k]
  /\ sending'[k] = sending[k]
  /\ k \in running' <=> k \in running
  /\ k \in freeing' <=> k \in freeing
  /\ k \in waiting' <=> k \in waiting
  /\ k \in waitStops' <=> k \in waitStops
  /\ k \in withdrawing' <=> k \in withdrawing
  /\ k \in owed' <=> k \in owed
  /\ InQueue(k)' <=> InQueue(k)
  /\ ReportsOf(k)' = ReportsOf(k)
  /\ past' = past
  /\ KidIs(k, kids[k].pc, kids[k].by, kids[k].prompt, kids[k].stopReq,
          kids[k].startFailed, kids[k].exited)
  /\ ProcIs(k, proc[k].st, proc[k].pipe, proc[k].int \/ Alive(proc[k]))

LEMMA HoldExpiresDoes ==
  ASSUME Typed, InOrder, NEW k \in Kids, HoldExpires(k)
  PROVE  OnHoldExpires(k)
<1>1. /\ Up
      /\ Live(k)
      /\ serve' = serve
      /\ meta'[k] = meta[k]
      /\ stray'[k] = stray[k]
      /\ out'[k] = out[k]
      /\ file'[k] = file[k]
      /\ told'[k] = told[k]
      /\ sending'[k] = sending[k]
      /\ k \in running' <=> k \in running
      /\ k \in freeing' <=> k \in freeing
      /\ k \in waiting' <=> k \in waiting
      /\ k \in waitStops' <=> k \in waitStops
      /\ k \in withdrawing' <=> k \in withdrawing
      /\ k \in owed' <=> k \in owed
      /\ InQueue(k)' <=> InQueue(k)
      /\ ReportsOf(k)' = ReportsOf(k)
      /\ past' = past
      /\ kids'[k] = [kids[k] EXCEPT !.held = FALSE, !.signalled = TRUE]
      /\ proc'[k] = [proc[k] EXCEPT !.int = proc[k].int \/ Alive(proc[k])]
  BY DEF HoldExpires, disk, Typed, ReportsOf, InQueue, Live, MetaT, KidT, ProcT, historyExists, NoProc, Started
<1>2. kids[k] \in KidT /\ meta[k] \in MetaT /\ proc[k] \in ProcT
  BY DEF Typed
<1> QED BY <1>1, <1>2 DEF OnHoldExpires, KidIs, ProcIs, KidT, MetaT, ProcT

LEMMA HoldExpiresOthers ==
  ASSUME Typed, InOrder, NEW k \in Kids, HoldExpires(k), NEW j \in Kids, j # k
  PROVE  Same(j)
  BY DEF HoldExpires, disk, Typed, ReportsOf, InQueue, Same, DiskKept, ProcessKept, MindKept, PastKept, Born, PastT

OnSendTakes(k) ==
  /\ Up
  /\ sending[k] = "take"
  /\ serve' = serve
  /\ meta'[k] = meta[k]
  /\ kids'[k] = kids[k]
  /\ proc'[k] = proc[k]
  /\ stray'[k] = stray[k]
  /\ out'[k] = out[k]
  /\ file'[k] = file[k]
  /\ told'[k] = told[k]
  /\ k \in freeing' <=> k \in freeing
  /\ k \in waiting' <=> k \in waiting
  /\ k \in waitStops' <=> k \in waitStops
  /\ k \in withdrawing' <=> k \in withdrawing
  /\ k \in owed' <=> k \in owed
  /\ InQueue(k)' <=> InQueue(k)
  /\ ReportsOf(k)' = ReportsOf(k)
  /\ past' = past
  /\ \/ /\ meta[k].here
        /\ ~meta[k].queued
        /\ k \notin running
        /\ k \in running'
        /\ sending'[k] = "took"
     \/ /\ k \in running' <=> k \in running
        /\ sending'[k] = "write"

LEMMA SendTakesDoes ==
  ASSUME Typed, InOrder, NEW k \in Kids, SendTakes(k)
  PROVE  OnSendTakes(k)
<1>1. /\ Up
      /\ sending[k] = "take"
      /\ serve' = serve
      /\ meta'[k] = meta[k]
      /\ kids'[k] = kids[k]
      /\ proc'[k] = proc[k]
      /\ stray'[k] = stray[k]
      /\ out'[k] = out[k]
      /\ file'[k] = file[k]
      /\ told'[k] = told[k]
      /\ k \in freeing' <=> k \in freeing
      /\ k \in waiting' <=> k \in waiting
      /\ k \in waitStops' <=> k \in waitStops
      /\ k \in withdrawing' <=> k \in withdrawing
      /\ k \in owed' <=> k \in owed
      /\ InQueue(k)' <=> InQueue(k)
      /\ ReportsOf(k)' = ReportsOf(k)
      /\ past' = past
      /\ \/ /\ meta[k].here
            /\ ~meta[k].queued
            /\ k \notin running
            /\ k \in running'
            /\ sending'[k] = "took"
         \/ /\ k \in running' <=> k \in running
            /\ sending'[k] = "write"
  BY DEF SendTakes, disk, process, Typed, ReportsOf, InQueue, Live, MetaT, KidT, ProcT, historyExists, NoProc, Started
<1>2. kids[k] \in KidT /\ meta[k] \in MetaT /\ proc[k] \in ProcT
  BY DEF Typed
<1> QED BY <1>1, <1>2 DEF OnSendTakes, KidT, MetaT, ProcT

LEMMA SendTakesOthers ==
  ASSUME Typed, InOrder, NEW k \in Kids, SendTakes(k), NEW j \in Kids, j # k
  PROVE  Same(j)
  BY DEF SendTakes, disk, process, Typed, ReportsOf, InQueue, Same, DiskKept, ProcessKept, MindKept, PastKept, Born, PastT

OnSendWrites(k) ==
  /\ Up
  /\ sending[k] \in {"took", "write"}
  /\ kids[k].pc # "exec"
  /\ serve' = serve
  /\ meta'[k] = meta[k]
  /\ stray'[k] = stray[k]
  /\ out'[k] = out[k]
  /\ file'[k] = file[k]
  /\ told'[k] = told[k]
  /\ k \in freeing' <=> k \in freeing
  /\ k \in waiting' <=> k \in waiting
  /\ k \in waitStops' <=> k \in waitStops
  /\ k \in withdrawing' <=> k \in withdrawing
  /\ k \in owed' <=> k \in owed
  /\ InQueue(k)' <=> InQueue(k)
  /\ ReportsOf(k)' = ReportsOf(k)
  /\ sending'[k] = "no"
  /\ Born(k)' <=> Born(k)
  /\ k \in past'.orphans <=> k \in past.orphans
  /\ k \in past'.messaged <=> k \in past.messaged
  /\ k \in past'.overtaken <=>
         k \in past.overtaken \/ kids[k].pc \in {"check", "prompt"}
  /\ k \in past'.bootStopped <=> k \in past.bootStopped
  /\ k \in past'.withdrawn <=> k \in past.withdrawn
  /\ k \in past'.cut <=> k \in past.cut
  /\ past'.restarted = past.restarted
  /\ \/ /\ Live(k)
        /\ Alive(proc[k])
        /\ KidIs(k, kids[k].pc, kids[k].by, kids[k].prompt, kids[k].stopReq,
            kids[k].startFailed, kids[k].exited)
        /\ ProcIs(k, proc[k].st, Append(proc[k].pipe, "msg"), proc[k].int)
        /\ k \in running' <=> k \in running
     \/ /\ ~(Live(k) /\ Alive(proc[k]))
        /\ sending[k] = "took"
        /\ kids'[k] = kids[k]
        /\ proc'[k] = proc[k]
        /\ k \notin running'
     \/ /\ ~(Live(k) /\ Alive(proc[k]))
        /\ sending[k] = "write"
        /\ kids'[k] = kids[k]
        /\ proc'[k] = proc[k]
        /\ k \in running' <=> k \in running

LEMMA SendWritesDoes ==
  ASSUME Typed, InOrder, NEW k \in Kids, SendWrites(k)
  PROVE  OnSendWrites(k)
<1>1. /\ Up
      /\ sending[k] \in {"took", "write"}
      /\ kids[k].pc # "exec"
      /\ serve' = serve
      /\ meta'[k] = meta[k]
      /\ stray'[k] = stray[k]
      /\ out'[k] = out[k]
      /\ file'[k] = file[k]
      /\ told'[k] = told[k]
      /\ k \in freeing' <=> k \in freeing
      /\ k \in waiting' <=> k \in waiting
      /\ k \in waitStops' <=> k \in waitStops
      /\ k \in withdrawing' <=> k \in withdrawing
      /\ k \in owed' <=> k \in owed
      /\ InQueue(k)' <=> InQueue(k)
      /\ ReportsOf(k)' = ReportsOf(k)
      /\ sending'[k] = "no"
      /\ Born(k)' <=> Born(k)
      /\ k \in past'.orphans <=> k \in past.orphans
      /\ k \in past'.messaged <=> k \in past.messaged
      /\ k \in past'.overtaken <=>
             k \in past.overtaken \/ kids[k].pc \in {"check", "prompt"}
      /\ k \in past'.bootStopped <=> k \in past.bootStopped
      /\ k \in past'.withdrawn <=> k \in past.withdrawn
      /\ k \in past'.cut <=> k \in past.cut
      /\ past'.restarted = past.restarted
      /\ \/ /\ Live(k)
            /\ Alive(proc[k])
            /\ kids'[k] = [kids[k] EXCEPT !.unread = TRUE]
            /\ proc'[k] = [proc[k] EXCEPT !.pipe = Append(proc[k].pipe, "msg")]
            /\ k \in running' <=> k \in running
         \/ /\ ~(Live(k) /\ Alive(proc[k]))
            /\ sending[k] = "took"
            /\ kids'[k] = kids[k]
            /\ proc'[k] = proc[k]
            /\ k \notin running'
         \/ /\ ~(Live(k) /\ Alive(proc[k]))
            /\ sending[k] = "write"
            /\ kids'[k] = kids[k]
            /\ proc'[k] = proc[k]
            /\ k \in running' <=> k \in running
  BY DEF SendWrites, disk, GiveSlot, GoDrain, Typed, ReportsOf, InQueue, Live, MetaT, KidT, ProcT, historyExists, NoProc, Started, PastT, Born
<1>2. kids[k] \in KidT /\ meta[k] \in MetaT /\ proc[k] \in ProcT
  BY DEF Typed
<1> QED BY <1>1, <1>2 DEF OnSendWrites, KidIs, ProcIs, KidT, MetaT, ProcT

LEMMA SendWritesOthers ==
  ASSUME Typed, InOrder, NEW k \in Kids, SendWrites(k), NEW j \in Kids, j # k
  PROVE  Same(j)
  BY DEF SendWrites, disk, GiveSlot, GoDrain, Typed, ReportsOf, InQueue, Same, DiskKept, ProcessKept, MindKept, PastKept, Born, PastT, PastT, Born

OnWithdrawKills(k) ==
  /\ Up
  /\ Live(k)
  /\ kids[k].pc # "exec"
  /\ Alive(proc[k])
  /\ serve' = serve
  /\ meta'[k] = meta[k]
  /\ stray'[k] = stray[k]
  /\ out'[k] = out[k]
  /\ file'[k] = file[k]
  /\ told'[k] = told[k]
  /\ sending'[k] = sending[k]
  /\ k \in running' <=> k \in running
  /\ k \in freeing' <=> k \in freeing
  /\ k \in waiting' <=> k \in waiting
  /\ k \in waitStops' <=> k \in waitStops
  /\ k \in withdrawing' <=> k \in withdrawing
  /\ k \in owed' <=> k \in owed
  /\ InQueue(k)' <=> InQueue(k)
  /\ ReportsOf(k)' = ReportsOf(k)
  /\ past' = past
  /\ KidIs(k, kids[k].pc, kids[k].by, kids[k].prompt, kids[k].stopReq,
          kids[k].startFailed, kids[k].exited)
  /\ Dies(k)

LEMMA WithdrawKillsDoes ==
  ASSUME Typed, InOrder, NEW k \in Kids, WithdrawKills(k)
  PROVE  OnWithdrawKills(k)
<1>1. /\ Up
      /\ Live(k)
      /\ kids[k].pc # "exec"
      /\ Alive(proc[k])
      /\ serve' = serve
      /\ meta'[k] = meta[k]
      /\ stray'[k] = stray[k]
      /\ out'[k] = out[k]
      /\ file'[k] = file[k]
      /\ told'[k] = told[k]
      /\ sending'[k] = sending[k]
      /\ k \in running' <=> k \in running
      /\ k \in freeing' <=> k \in freeing
      /\ k \in waiting' <=> k \in waiting
      /\ k \in waitStops' <=> k \in waitStops
      /\ k \in withdrawing' <=> k \in withdrawing
      /\ k \in owed' <=> k \in owed
      /\ InQueue(k)' <=> InQueue(k)
      /\ ReportsOf(k)' = ReportsOf(k)
      /\ past' = past
      /\ kids'[k] = [kids[k] EXCEPT !.dying = TRUE]
      /\ proc'[k] = Killed(proc[k])
  BY DEF WithdrawKills, disk, Kill, Typed, ReportsOf, InQueue, Live, MetaT, KidT, ProcT, historyExists, NoProc, Started
<1>2. kids[k] \in KidT /\ meta[k] \in MetaT /\ proc[k] \in ProcT
  BY DEF Typed
<1> QED BY <1>1, <1>2 DEF OnWithdrawKills, Dies, KidIs, Killed, Alive, KidT, MetaT, ProcT

LEMMA WithdrawKillsOthers ==
  ASSUME Typed, InOrder, NEW k \in Kids, WithdrawKills(k), NEW j \in Kids, j # k
  PROVE  Same(j)
  BY DEF WithdrawKills, disk, Kill, Typed, ReportsOf, InQueue, Same, DiskKept, ProcessKept, MindKept, PastKept, Born, PastT

OnWithdrawEnds(k) ==
  /\ Up
  /\ k \in withdrawing
  /\ ~Live(k)
  /\ serve' = serve
  /\ meta'[k] = meta[k]
  /\ kids'[k] = kids[k]
  /\ proc'[k] = proc[k]
  /\ stray'[k] = stray[k]
  /\ out'[k] = out[k]
  /\ told'[k] = told[k]
  /\ sending'[k] = sending[k]
  /\ k \in running' <=> k \in running
  /\ k \in freeing' <=> k \in freeing
  /\ k \in waiting' <=> k \in waiting
  /\ k \in waitStops' <=> k \in waitStops
  /\ k \in owed' <=> k \in owed
  /\ InQueue(k)' <=> InQueue(k)
  /\ ReportsOf(k)' = ReportsOf(k)
  /\ past' = past
  /\ file'[k] = <<>>
  /\ k \notin withdrawing'

LEMMA WithdrawEndsDoes ==
  ASSUME Typed, InOrder, NEW k \in Kids, WithdrawEnds(k)
  PROVE  OnWithdrawEnds(k)
<1>1. /\ Up
      /\ k \in withdrawing
      /\ ~Live(k)
      /\ serve' = serve
      /\ meta'[k] = meta[k]
      /\ kids'[k] = kids[k]
      /\ proc'[k] = proc[k]
      /\ stray'[k] = stray[k]
      /\ out'[k] = out[k]
      /\ told'[k] = told[k]
      /\ sending'[k] = sending[k]
      /\ k \in running' <=> k \in running
      /\ k \in freeing' <=> k \in freeing
      /\ k \in waiting' <=> k \in waiting
      /\ k \in waitStops' <=> k \in waitStops
      /\ k \in owed' <=> k \in owed
      /\ InQueue(k)' <=> InQueue(k)
      /\ ReportsOf(k)' = ReportsOf(k)
      /\ past' = past
      /\ file'[k] = <<>>
      /\ k \notin withdrawing'
  BY DEF WithdrawEnds, process, GoDrain, Typed, ReportsOf, InQueue, Live, MetaT, KidT, ProcT, historyExists, NoProc, Started
<1>2. kids[k] \in KidT /\ meta[k] \in MetaT /\ proc[k] \in ProcT
  BY DEF Typed
<1> QED BY <1>1, <1>2 DEF OnWithdrawEnds, KidT, MetaT, ProcT

LEMMA WithdrawEndsOthers ==
  ASSUME Typed, InOrder, NEW k \in Kids, WithdrawEnds(k), NEW j \in Kids, j # k
  PROVE  Same(j)
  BY DEF WithdrawEnds, process, GoDrain, Typed, ReportsOf, InQueue, Same, DiskKept, ProcessKept, MindKept, PastKept, Born, PastT

OnCloseKills(k) ==
  /\ serve = "closing"
  /\ Live(k)
  /\ kids[k].pc # "exec"
  /\ Alive(proc[k])
  /\ serve' = serve
  /\ meta'[k] = meta[k]
  /\ stray'[k] = stray[k]
  /\ out'[k] = out[k]
  /\ file'[k] = file[k]
  /\ told'[k] = told[k]
  /\ sending'[k] = sending[k]
  /\ k \in running' <=> k \in running
  /\ k \in freeing' <=> k \in freeing
  /\ k \in waiting' <=> k \in waiting
  /\ k \in waitStops' <=> k \in waitStops
  /\ k \in withdrawing' <=> k \in withdrawing
  /\ k \in owed' <=> k \in owed
  /\ InQueue(k)' <=> InQueue(k)
  /\ ReportsOf(k)' = ReportsOf(k)
  /\ past' = past
  /\ KidIs(k, kids[k].pc, kids[k].by, kids[k].prompt, kids[k].stopReq,
          kids[k].startFailed, kids[k].exited)
  /\ Dies(k)

LEMMA CloseKillsDoes ==
  ASSUME Typed, InOrder, NEW k \in Kids, CloseKills(k)
  PROVE  OnCloseKills(k)
<1>1. /\ serve = "closing"
      /\ Live(k)
      /\ kids[k].pc # "exec"
      /\ Alive(proc[k])
      /\ serve' = serve
      /\ meta'[k] = meta[k]
      /\ stray'[k] = stray[k]
      /\ out'[k] = out[k]
      /\ file'[k] = file[k]
      /\ told'[k] = told[k]
      /\ sending'[k] = sending[k]
      /\ k \in running' <=> k \in running
      /\ k \in freeing' <=> k \in freeing
      /\ k \in waiting' <=> k \in waiting
      /\ k \in waitStops' <=> k \in waitStops
      /\ k \in withdrawing' <=> k \in withdrawing
      /\ k \in owed' <=> k \in owed
      /\ InQueue(k)' <=> InQueue(k)
      /\ ReportsOf(k)' = ReportsOf(k)
      /\ past' = past
      /\ kids'[k] = [kids[k] EXCEPT !.dying = TRUE]
      /\ proc'[k] = Killed(proc[k])
  BY DEF CloseKills, disk, Kill, Typed, ReportsOf, InQueue, Live, MetaT, KidT, ProcT, historyExists, NoProc, Started
<1>2. kids[k] \in KidT /\ meta[k] \in MetaT /\ proc[k] \in ProcT
  BY DEF Typed
<1> QED BY <1>1, <1>2 DEF OnCloseKills, Dies, KidIs, Killed, Alive, KidT, MetaT, ProcT

LEMMA CloseKillsOthers ==
  ASSUME Typed, InOrder, NEW k \in Kids, CloseKills(k), NEW j \in Kids, j # k
  PROVE  Same(j)
  BY DEF CloseKills, disk, Kill, Typed, ReportsOf, InQueue, Same, DiskKept, ProcessKept, MindKept, PastKept, Born, PastT

OnProcDies(k) ==
  /\ Alive(proc[k])
  /\ serve' = serve
  /\ meta'[k] = meta[k]
  /\ kids'[k] = kids[k]
  /\ stray'[k] = stray[k]
  /\ out'[k] = out[k]
  /\ file'[k] = file[k]
  /\ told'[k] = told[k]
  /\ sending'[k] = sending[k]
  /\ k \in running' <=> k \in running
  /\ k \in freeing' <=> k \in freeing
  /\ k \in waiting' <=> k \in waiting
  /\ k \in waitStops' <=> k \in waitStops
  /\ k \in withdrawing' <=> k \in withdrawing
  /\ k \in owed' <=> k \in owed
  /\ InQueue(k)' <=> InQueue(k)
  /\ ReportsOf(k)' = ReportsOf(k)
  /\ past' = past
  /\ Dies(k)

LEMMA ProcDiesDoes ==
  ASSUME Typed, InOrder, NEW k \in Kids, ProcDies(k)
  PROVE  OnProcDies(k)
<1>1. /\ Alive(proc[k])
      /\ serve' = serve
      /\ meta'[k] = meta[k]
      /\ kids'[k] = kids[k]
      /\ stray'[k] = stray[k]
      /\ out'[k] = out[k]
      /\ file'[k] = file[k]
      /\ told'[k] = told[k]
      /\ sending'[k] = sending[k]
      /\ k \in running' <=> k \in running
      /\ k \in freeing' <=> k \in freeing
      /\ k \in waiting' <=> k \in waiting
      /\ k \in waitStops' <=> k \in waitStops
      /\ k \in withdrawing' <=> k \in withdrawing
      /\ k \in owed' <=> k \in owed
      /\ InQueue(k)' <=> InQueue(k)
      /\ ReportsOf(k)' = ReportsOf(k)
      /\ past' = past
      /\ proc'[k] = Killed(proc[k])
  BY DEF ProcDies, memory, disk, Spend, Typed, ReportsOf, InQueue, Live, MetaT, KidT, ProcT, historyExists, NoProc, Started
<1>2. kids[k] \in KidT /\ meta[k] \in MetaT /\ proc[k] \in ProcT
  BY DEF Typed
<1> QED BY <1>1, <1>2 DEF OnProcDies, Dies, Killed, Alive, KidT, MetaT, ProcT

LEMMA ProcDiesOthers ==
  ASSUME Typed, InOrder, NEW k \in Kids, ProcDies(k), NEW j \in Kids, j # k
  PROVE  Same(j)
  BY DEF ProcDies, memory, disk, Spend, Typed, ReportsOf, InQueue, Same, DiskKept, ProcessKept, MindKept, PastKept, Born, PastT

LEMMA SendStartsOthers ==
  ASSUME Typed, InOrder, NEW k \in Kids, SendStarts(k), NEW j \in Kids, j # k
  PROVE  Same(j)
  BY DEF SendStarts, disk, Spend, newChild, Typed, ReportsOf, InQueue, Same, DiskKept, ProcessKept, MindKept, PastKept, Born, PastT

OnSendStarts(k) ==
  /\ serve = "up"
  /\ sending[k] = "no"
  /\ meta[k].here
  /\ ~meta[k].queued
  /\ file[k] # <<>>
  /\ serve' = serve
  /\ meta'[k] = meta[k]
  /\ stray'[k] = stray[k]
  /\ out'[k] = out[k]
  /\ file'[k] = file[k]
  /\ told'[k] = told[k]
  /\ k \in running' <=> k \in running
  /\ k \in freeing' <=> k \in freeing
  /\ k \in waiting' <=> k \in waiting
  /\ k \in waitStops' <=> k \in waitStops
  /\ k \in withdrawing' <=> k \in withdrawing
  /\ k \in owed' <=> k \in owed
  /\ InQueue(k)' <=> InQueue(k)
  /\ ReportsOf(k)' = ReportsOf(k)
  /\ sending'[k] = "take"
  /\ Born(k)' <=> Born(k)
  /\ k \in past'.orphans <=> k \in past.orphans
  /\ k \in past'.messaged
  /\ k \in past'.overtaken <=> k \in past.overtaken
  /\ k \in past'.bootStopped <=> k \in past.bootStopped
  /\ k \in past'.withdrawn <=> k \in past.withdrawn
  /\ k \in past'.cut <=> k \in past.cut
  /\ past'.restarted = past.restarted
  /\ \/ /\ Live(k)
        /\ kids'[k] = kids[k]
        /\ proc'[k] = proc[k]
     \/ /\ ~Live(k)
        /\ ~Alive(stray[k])
        /\ KidIs(k, "up", "ensure", FALSE, FALSE, FALSE, FALSE)
        /\ ProcIs(k, "boot", <<>>, FALSE)

LEMMA SendStartsDoes ==
  ASSUME Typed, InOrder, NEW k \in Kids, SendStarts(k)
  PROVE  OnSendStarts(k)
<1>1. /\ serve = "up"
      /\ sending[k] = "no"
      /\ meta[k].here
      /\ ~meta[k].queued
      /\ file[k] # <<>>
      /\ serve' = serve
      /\ meta'[k] = meta[k]
      /\ stray'[k] = stray[k]
      /\ out'[k] = out[k]
      /\ file'[k] = file[k]
      /\ told'[k] = told[k]
      /\ k \in running' <=> k \in running
      /\ k \in freeing' <=> k \in freeing
      /\ k \in waiting' <=> k \in waiting
      /\ k \in waitStops' <=> k \in waitStops
      /\ k \in withdrawing' <=> k \in withdrawing
      /\ k \in owed' <=> k \in owed
      /\ InQueue(k)' <=> InQueue(k)
      /\ ReportsOf(k)' = ReportsOf(k)
      /\ sending'[k] = "take"
      /\ Born(k)' <=> Born(k)
      /\ k \in past'.orphans <=> k \in past.orphans
      /\ k \in past'.messaged
      /\ k \in past'.overtaken <=> k \in past.overtaken
      /\ k \in past'.bootStopped <=> k \in past.bootStopped
      /\ k \in past'.withdrawn <=> k \in past.withdrawn
      /\ k \in past'.cut <=> k \in past.cut
      /\ past'.restarted = past.restarted
      /\ \/ /\ Live(k)
            /\ kids'[k] = kids[k]
            /\ proc'[k] = proc[k]
         \/ /\ ~Live(k)
            /\ ~Alive(stray[k])
            /\ kids'[k] = [NoChild EXCEPT !.pc = "up", !.by = "ensure",
                                  !.prompt = FALSE]
            /\ proc'[k] = Started
  <2>1. /\ serve = "up" /\ sending[k] = "no" /\ meta[k].here /\ ~meta[k].queued
        /\ file[k] # <<>>
        /\ UNCHANGED <<serve, queue, running, drains, reports, freeing, waiting,
                       waitStops, withdrawing, owed, meta, file, told, stray, out>>
        /\ sending' = [sending EXCEPT ![k] = "take"]
        /\ past' = [past EXCEPT !.messaged = past.messaged \cup {k}]
    BY DEF SendStarts, disk, historyExists
  <2>2. \/ Live(k) /\ kids'[k] = kids[k] /\ proc'[k] = proc[k]
        \/ /\ ~Live(k) /\ ~Alive(stray[k]) /\ proc'[k] = Started
           /\ kids'[k] = [NoChild EXCEPT !.pc = "up", !.by = "ensure", !.prompt = FALSE]
    <3>1. CASE Live(k)
      BY <3>1 DEF SendStarts
    <3>2. CASE ~Live(k)
      <4>1. /\ ~Alive(stray[k]) /\ proc' = [proc EXCEPT ![k] = Started]
            /\ kids' = [kids EXCEPT ![k] = newChild("up", "ensure", FALSE)]
        BY <3>2 DEF SendStarts
      <4>2. newChild("up", "ensure", FALSE) =
              [NoChild EXCEPT !.pc = "up", !.by = "ensure", !.prompt = FALSE]
        BY DEF newChild
      <4> QED BY <3>2, <4>1, <4>2 DEF Typed
    <3> QED BY <3>1, <3>2
  <2>3. sending'[k] = "take"
    BY <2>1 DEF Typed
  <2>4. past \in PastT
    BY DEF Typed
  <2> QED BY <2>1, <2>2, <2>3, <2>4 DEF ReportsOf, InQueue, Born, PastT
<1>2. kids[k] \in KidT /\ meta[k] \in MetaT /\ proc[k] \in ProcT
  BY DEF Typed
<1> QED BY <1>1, <1>2 DEF OnSendStarts, KidIs, ProcIs, NoChild, Started, NoProc, KidT, MetaT, ProcT

OnLaunchAbandons(k) ==
  /\ Up
  /\ kids[k].pc = "exec"
  /\ serve' = serve
  /\ proc'[k] = proc[k]
  /\ stray'[k] = stray[k]
  /\ out'[k] = out[k]
  /\ file'[k] = file[k]
  /\ told'[k] = told[k]
  /\ sending'[k] = sending[k]
  /\ k \in freeing' <=> k \in freeing
  /\ k \in waiting' <=> k \in waiting
  /\ k \in waitStops' <=> k \in waitStops
  /\ k \in withdrawing' <=> k \in withdrawing
  /\ k \in owed' <=> k \in owed
  /\ InQueue(k)' <=> InQueue(k)
  /\ past' = past
  /\ LaunchFails(k)
  /\ Released(k)
  /\ k \notin running'

LEMMA LaunchAbandonsDoes ==
  ASSUME Typed, InOrder, NEW k \in Kids, LaunchAbandons(k)
  PROVE  OnLaunchAbandons(k)
<1>1. /\ Up
      /\ kids[k].pc = "exec"
      /\ serve' = serve
      /\ proc'[k] = proc[k]
      /\ stray'[k] = stray[k]
      /\ out'[k] = out[k]
      /\ file'[k] = file[k]
      /\ told'[k] = told[k]
      /\ sending'[k] = sending[k]
      /\ k \in freeing' <=> k \in freeing
      /\ k \in waiting' <=> k \in waiting
      /\ k \in waitStops' <=> k \in waitStops
      /\ k \in withdrawing' <=> k \in withdrawing
      /\ k \in owed' <=> k \in owed
      /\ InQueue(k)' <=> InQueue(k)
      /\ past' = past
      /\ LaunchFails(k)
      /\ kids'[k] = NoChild
      /\ k \notin running'
  <2>1. LaunchFails(k)
    BY FailedLaunches DEF LaunchAbandons
  <2> QED BY <2>1 DEF LaunchAbandons, GiveSlot, process, Typed, InQueue
<1>2. kids[k] \in KidT /\ meta[k] \in MetaT /\ proc[k] \in ProcT
  BY DEF Typed
<1> QED BY <1>1, <1>2 DEF OnLaunchAbandons, Released, KidIs, NoChild, KidT, MetaT, ProcT

LEMMA LaunchAbandonsOthers ==
  ASSUME Typed, InOrder, NEW k \in Kids, LaunchAbandons(k), NEW j \in Kids, j # k
  PROVE  Same(j)
<1>1. meta'[j] = meta[j] /\ ReportsOf(j)' = ReportsOf(j)
  BY FailedLaunches DEF LaunchAbandons
<1> QED BY <1>1 DEF LaunchAbandons, GiveSlot, process, Typed, InQueue, Same, DiskKept, ProcessKept, MindKept, PastKept, Born

OnReadEvent(k) ==
  /\ Up
  /\ Live(k)
  /\ out[k] # <<>>
  /\ serve' = serve
  /\ stray'[k] = stray[k]
  /\ file'[k] = file[k]
  /\ told'[k] = told[k]
  /\ sending'[k] = sending[k]
  /\ k \in freeing' <=> k \in freeing
  /\ k \in waiting' <=> k \in waiting
  /\ k \in waitStops' <=> k \in waitStops
  /\ k \in withdrawing' <=> k \in withdrawing
  /\ k \in owed' <=> k \in owed
  /\ InQueue(k)' <=> InQueue(k)
  /\ past' = past
  /\ out'[k] = Tail(out[k])
  /\ ChildEvents(k, Head(out[k]))
  /\ \/ /\ Head(out[k]) = "work"
        /\ KidIs(k, kids[k].pc, kids[k].by, kids[k].prompt, kids[k].stopReq,
            kids[k].startFailed, kids[k].exited)
        /\ ProcIs(k, proc[k].st, proc[k].pipe, proc[k].int \/ (kids[k].held /\
            Alive(proc[k])))
     \/ /\ Head(out[k]) # "work"
        /\ KidIs(k, kids[k].pc, kids[k].by, kids[k].prompt, kids[k].stopReq,
            kids[k].startFailed, kids[k].exited)
        /\ proc'[k] = proc[k]

LEMMA ReadEventDoes ==
  ASSUME Typed, InOrder, NEW k \in Kids, ReadEvent(k)
  PROVE  OnReadEvent(k)
<1>1. /\ Up
      /\ Live(k)
      /\ out[k] # <<>>
      /\ serve' = serve
      /\ stray'[k] = stray[k]
      /\ file'[k] = file[k]
      /\ told'[k] = told[k]
      /\ sending'[k] = sending[k]
      /\ k \in freeing' <=> k \in freeing
      /\ k \in waiting' <=> k \in waiting
      /\ k \in waitStops' <=> k \in waitStops
      /\ k \in withdrawing' <=> k \in withdrawing
      /\ k \in owed' <=> k \in owed
      /\ InQueue(k)' <=> InQueue(k)
      /\ past' = past
      /\ out'[k] = Tail(out[k])
      /\ ChildEvents(k, Head(out[k]))
      /\ \/ /\ Head(out[k]) = "work"
            /\ kids'[k] = [kids[k] EXCEPT !.unread = FALSE, !.inTurn = TRUE, !.held = FALSE,
                           !.signalled = kids[k].signalled \/ kids[k].held]
            /\ proc'[k] = [proc[k] EXCEPT !.int = proc[k].int \/ (kids[k].held /\ Alive(proc[k]))]
         \/ /\ Head(out[k]) # "work"
            /\ kids'[k] = [kids[k] EXCEPT !.inTurn = FALSE]
            /\ proc'[k] = proc[k]
  <2>1. Head(out[k]) \in EventT /\ childEvent(k, Head(out[k]))
    BY DEF ReadEvent, Typed
  <2>2. ChildEvents(k, Head(out[k]))
    BY <2>1, EventReports
  <2>3. CASE Head(out[k]) = "work"
    BY <2>2, <2>3 DEF ReadEvent, Release, Typed, KidT, ProcT, InQueue
  <2>4. CASE Head(out[k]) # "work"
    BY <2>2, <2>4 DEF ReadEvent, Typed, KidT, InQueue
  <2> QED BY <2>3, <2>4
<1>2. kids[k] \in KidT /\ meta[k] \in MetaT /\ proc[k] \in ProcT
  BY DEF Typed
<1> QED BY <1>1, <1>2 DEF OnReadEvent, KidIs, ProcIs, KidT, MetaT, ProcT

LEMMA ReadEventOthers ==
  ASSUME Typed, InOrder, NEW k \in Kids, ReadEvent(k), NEW j \in Kids, j # k
  PROVE  Same(j)
<1>1. Head(out[k]) \in EventT /\ childEvent(k, Head(out[k]))
  BY DEF ReadEvent, Typed
<1>2. /\ meta'[j] = meta[j] /\ ReportsOf(j)' = ReportsOf(j)
      /\ j \in running' <=> j \in running
  BY <1>1, EventReports
<1>3. kids'[j] = kids[j] /\ proc'[j] = proc[j]
  BY DEF ReadEvent, Release, Typed
<1> QED BY <1>2, <1>3 DEF ReadEvent, Typed, InQueue, Same, DiskKept, ProcessKept, MindKept, PastKept, Born

OnReap(k) ==
  /\ Up
  /\ Live(k)
  /\ ~kids[k].exited
  /\ proc[k].st = "dead"
  /\ out[k] = <<>>
  /\ serve' = serve
  /\ proc'[k] = proc[k]
  /\ stray'[k] = stray[k]
  /\ out'[k] = out[k]
  /\ file'[k] = file[k]
  /\ told'[k] = told[k]
  /\ sending'[k] = sending[k]
  /\ k \in freeing' <=> k \in freeing
  /\ k \in waiting' <=> k \in waiting
  /\ k \in waitStops' <=> k \in waitStops
  /\ k \in withdrawing' <=> k \in withdrawing
  /\ k \in owed' <=> k \in owed
  /\ InQueue(k)' <=> InQueue(k)
  /\ past' = past
  /\ ChildEvents(k, "exit")
  /\ KidIs(k, kids[k].pc, kids[k].by, kids[k].prompt, kids[k].stopReq,
          kids[k].startFailed, TRUE)

LEMMA ReapDoes ==
  ASSUME Typed, InOrder, NEW k \in Kids, Reap(k)
  PROVE  OnReap(k)
<1>1. /\ Up
      /\ Live(k)
      /\ ~kids[k].exited
      /\ proc[k].st = "dead"
      /\ out[k] = <<>>
      /\ serve' = serve
      /\ proc'[k] = proc[k]
      /\ stray'[k] = stray[k]
      /\ out'[k] = out[k]
      /\ file'[k] = file[k]
      /\ told'[k] = told[k]
      /\ sending'[k] = sending[k]
      /\ k \in freeing' <=> k \in freeing
      /\ k \in waiting' <=> k \in waiting
      /\ k \in waitStops' <=> k \in waitStops
      /\ k \in withdrawing' <=> k \in withdrawing
      /\ k \in owed' <=> k \in owed
      /\ InQueue(k)' <=> InQueue(k)
      /\ past' = past
      /\ ChildEvents(k, "exit")
      /\ kids'[k] = [kids[k] EXCEPT !.inTurn = FALSE, !.exited = TRUE]
  <2>1. ChildEvents(k, "exit")
    BY EventReports DEF Reap
  <2> QED BY <2>1 DEF Reap, process, Typed, KidT, InQueue
<1>2. kids[k] \in KidT /\ meta[k] \in MetaT /\ proc[k] \in ProcT
  BY DEF Typed
<1> QED BY <1>1, <1>2 DEF OnReap, KidIs, KidT, MetaT, ProcT

LEMMA ReapOthers ==
  ASSUME Typed, InOrder, NEW k \in Kids, Reap(k), NEW j \in Kids, j # k
  PROVE  Same(j)
<1>1. /\ meta'[j] = meta[j] /\ ReportsOf(j)' = ReportsOf(j)
      /\ j \in running' <=> j \in running
  BY EventReports DEF Reap
<1> QED BY <1>1 DEF Reap, process, Typed, InQueue, Same, DiskKept, ProcessKept, MindKept, PastKept, Born

OnDrop(k) ==
  /\ Up
  /\ kids[k].exited
  /\ kids[k].pc \in {"up", "wait"}
  /\ serve' = serve
  /\ stray'[k] = stray[k]
  /\ out'[k] = out[k]
  /\ file'[k] = file[k]
  /\ told'[k] = told[k]
  /\ sending'[k] = sending[k]
  /\ k \in freeing' <=> k \in freeing
  /\ k \in waiting' <=> k \in waiting
  /\ k \in waitStops' <=> k \in waitStops
  /\ k \in withdrawing' <=> k \in withdrawing
  /\ k \in owed' <=> k \in owed
  /\ InQueue(k)' <=> InQueue(k)
  /\ past' = past
  /\ Released(k)
  /\ ProcIs(k, "none", <<>>, FALSE)
  /\ \/ /\ kids[k].startFailed
        /\ k \notin running'
        /\ LaunchFails(k)
     \/ /\ ~kids[k].startFailed
        /\ k \in running' <=> k \in running
        /\ meta'[k] = meta[k]
        /\ ReportsOf(k)' = ReportsOf(k)

LEMMA DropDoes ==
  ASSUME Typed, InOrder, NEW k \in Kids, Drop(k)
  PROVE  OnDrop(k)
<1>1. /\ Up
      /\ kids[k].exited
      /\ kids[k].pc \in {"up", "wait"}
      /\ serve' = serve
      /\ stray'[k] = stray[k]
      /\ out'[k] = out[k]
      /\ file'[k] = file[k]
      /\ told'[k] = told[k]
      /\ sending'[k] = sending[k]
      /\ k \in freeing' <=> k \in freeing
      /\ k \in waiting' <=> k \in waiting
      /\ k \in waitStops' <=> k \in waitStops
      /\ k \in withdrawing' <=> k \in withdrawing
      /\ k \in owed' <=> k \in owed
      /\ InQueue(k)' <=> InQueue(k)
      /\ past' = past
      /\ kids'[k] = NoChild
      /\ proc'[k] = NoProc
      /\ \/ /\ kids[k].startFailed
            /\ k \notin running'
            /\ LaunchFails(k)
         \/ /\ ~kids[k].startFailed
            /\ k \in running' <=> k \in running
            /\ meta'[k] = meta[k]
            /\ ReportsOf(k)' = ReportsOf(k)
  <2>1. CASE kids[k].startFailed
    <3>1. LaunchFails(k)
      BY <2>1, FailedLaunches DEF Drop
    <3> QED BY <2>1, <3>1 DEF Drop, Typed, InQueue
  <2>2. CASE ~kids[k].startFailed
    BY <2>2 DEF Drop, Typed, InQueue, ReportsOf
  <2> QED BY <2>1, <2>2
<1>2. kids[k] \in KidT /\ meta[k] \in MetaT /\ proc[k] \in ProcT
  BY DEF Typed
<1> QED BY <1>1, <1>2 DEF OnDrop, ProcIs, Released, KidIs, NoChild, NoProc, KidT, MetaT, ProcT

LEMMA DropOthers ==
  ASSUME Typed, InOrder, NEW k \in Kids, Drop(k), NEW j \in Kids, j # k
  PROVE  Same(j)
<1>1. /\ meta'[j] = meta[j] /\ ReportsOf(j)' = ReportsOf(j)
      /\ j \in running' <=> j \in running
  BY FailedLaunches DEF Drop, ReportsOf
<1> QED BY <1>1 DEF Drop, Typed, InQueue, Same, DiskKept, ProcessKept, MindKept, PastKept, Born

OnCreateChild(k, prompt) ==
  /\ serve = "up"
  /\ past.spawned = k - 1
  /\ serve' = serve
  /\ proc'[k] = proc[k]
  /\ stray'[k] = stray[k]
  /\ out'[k] = out[k]
  /\ file'[k] = file[k]
  /\ told'[k] = told[k]
  /\ sending'[k] = sending[k]
  /\ k \in freeing' <=> k \in freeing
  /\ k \in waiting' <=> k \in waiting
  /\ k \in waitStops' <=> k \in waitStops
  /\ k \in withdrawing' <=> k \in withdrawing
  /\ k \in owed' <=> k \in owed
  /\ ReportsOf(k)' = ReportsOf(k)
  /\ ~Born(k) /\ Born(k)'
  /\ k \in past'.orphans <=> k \in past.orphans
  /\ k \in past'.messaged <=> k \in past.messaged
  /\ k \in past'.overtaken <=> k \in past.overtaken
  /\ k \in past'.bootStopped <=> k \in past.bootStopped
  /\ k \in past'.withdrawn <=> k \in past.withdrawn
  /\ k \in past'.cut <=> k \in past.cut
  /\ past'.restarted = past.restarted
  /\ \/ /\ queue # <<>> \/ Full
        /\ MetaIs(k, TRUE, TRUE, prompt, TRUE, "no", 0)
        /\ InQueue(k)'
        /\ k \in running' <=> k \in running
        /\ kids'[k] = kids[k]
     \/ /\ queue = <<>>
        /\ MetaIs(k, TRUE, TRUE, prompt, FALSE, "no", 0)
        /\ InQueue(k)' <=> InQueue(k)
        /\ k \in running'
        /\ KidIs(k, "exec", "create", prompt, FALSE, FALSE, FALSE)

LEMMA CreateChildDoes ==
  ASSUME Typed, InOrder, NEW k \in Kids, NEW prompt \in BOOLEAN, CreateChild(k, prompt)
  PROVE  OnCreateChild(k, prompt)
<1>1. /\ serve = "up"
      /\ past.spawned = k - 1
      /\ serve' = serve
      /\ proc'[k] = proc[k]
      /\ stray'[k] = stray[k]
      /\ out'[k] = out[k]
      /\ file'[k] = file[k]
      /\ told'[k] = told[k]
      /\ sending'[k] = sending[k]
      /\ k \in freeing' <=> k \in freeing
      /\ k \in waiting' <=> k \in waiting
      /\ k \in waitStops' <=> k \in waitStops
      /\ k \in withdrawing' <=> k \in withdrawing
      /\ k \in owed' <=> k \in owed
      /\ ReportsOf(k)' = ReportsOf(k)
      /\ ~Born(k) /\ Born(k)'
      /\ k \in past'.orphans <=> k \in past.orphans
      /\ k \in past'.messaged <=> k \in past.messaged
      /\ k \in past'.overtaken <=> k \in past.overtaken
      /\ k \in past'.bootStopped <=> k \in past.bootStopped
      /\ k \in past'.withdrawn <=> k \in past.withdrawn
      /\ k \in past'.cut <=> k \in past.cut
      /\ past'.restarted = past.restarted
      /\ \/ /\ queue # <<>> \/ Full
            /\ meta'[k] = [NoMeta EXCEPT !.here = TRUE, !.task = TRUE, !.prompt = prompt,
                                !.queued = TRUE]
            /\ InQueue(k)'
            /\ k \in running' <=> k \in running
            /\ kids'[k] = kids[k]
         \/ /\ queue = <<>>
            /\ meta'[k] = [NoMeta EXCEPT !.here = TRUE, !.task = TRUE, !.prompt = prompt,
                                !.queued = FALSE]
            /\ InQueue(k)' <=> InQueue(k)
            /\ k \in running'
            /\ kids'[k] = [NoChild EXCEPT !.pc = "exec", !.by = "create",
                                  !.prompt = prompt]
  <2>p. past.spawned = k - 1 /\ past' = [past EXCEPT !.spawned = k] /\ past \in PastT
    BY DEF CreateChild, Typed
  <2>q. /\ ~Born(k) /\ Born(k)' /\ past'.restarted = past.restarted
        /\ k \in past'.orphans <=> k \in past.orphans
        /\ k \in past'.messaged <=> k \in past.messaged
        /\ k \in past'.overtaken <=> k \in past.overtaken
        /\ k \in past'.bootStopped <=> k \in past.bootStopped
        /\ k \in past'.withdrawn <=> k \in past.withdrawn
        /\ k \in past'.cut <=> k \in past.cut
    BY <2>p DEF Born, PastT, Kids
  <2>1. CASE Waits
    <3>1. queue # <<>> \/ Full
      BY <2>1 DEF Waits
    <3>2. InQueue(k)'
      <4>1. queue' = Append(queue, k)
        BY <2>1 DEF CreateChild
      <4>2. In(queue', k)
        BY <4>1, Appended DEF Typed
      <4> QED BY <4>2 DEF In, InQueue
    <3> QED BY <2>1, <2>p, <2>q, <3>1, <3>2 DEF CreateChild, process, Spend, Typed, ReportsOf
  <2>2. CASE ~Waits
    <3>1. queue = <<>> /\ queue' = queue
      BY <2>2 DEF CreateChild, Waits
    <3>2. kids'[k] = [NoChild EXCEPT !.pc = "exec", !.by = "create", !.prompt = prompt]
      BY <2>2 DEF CreateChild, newChild, Typed
    <3>3. /\ meta'[k] = [NoMeta EXCEPT !.here = TRUE, !.task = TRUE, !.prompt = prompt,
                                       !.queued = FALSE]
          /\ k \in running'
      <4>1. Waits = FALSE
        BY <2>2 DEF Waits
      <4>2. meta' = [meta EXCEPT ![k] = [NoMeta EXCEPT !.here = TRUE, !.task = TRUE,
                                           !.prompt = prompt, !.queued = FALSE]]
        BY <4>1 DEF CreateChild
      <4> QED BY <2>2, <4>2 DEF CreateChild, Typed
    <3>4. /\ serve = "up" /\ past.spawned = k - 1
          /\ past' = [past EXCEPT !.spawned = k]
          /\ UNCHANGED <<serve, reports, freeing, waiting, sending, waitStops,
                         withdrawing, owed, file, told, proc, stray, out>>
      BY DEF CreateChild, process
    <3> QED BY <2>p, <2>q, <3>1, <3>2, <3>3, <3>4 DEF ReportsOf, InQueue
  <2> QED BY <2>1, <2>2
<1>2. kids[k] \in KidT /\ meta[k] \in MetaT /\ proc[k] \in ProcT
  BY DEF Typed
<1> QED BY <1>1, <1>2 DEF OnCreateChild, KidIs, MetaIs, NoChild, NoMeta, KidT, MetaT, ProcT

LEMMA CreateChildOthers ==
  ASSUME Typed, InOrder, NEW k \in Kids, NEW prompt \in BOOLEAN, CreateChild(k, prompt), NEW j \in Kids, j # k
  PROVE  Same(j)
<1>1. InQueue(j)' <=> InQueue(j)
  <2>1. queue' = queue \/ queue' = Append(queue, k)
    BY DEF CreateChild
  <2>2. In(queue', j) <=> In(queue, j)
    BY <2>1, Appended DEF Typed
  <2> QED BY <2>2 DEF In, InQueue
<1>2. j \in running' <=> j \in running
  BY DEF CreateChild
<1>3. kids'[j] = kids[j] /\ meta'[j] = meta[j]
  BY DEF CreateChild, Typed
<1>4. Born(j)' <=> Born(j)
  BY DEF CreateChild, Typed, PastT, Born, Kids
<1> QED BY <1>1, <1>2, <1>3, <1>4
     DEF CreateChild, process, Typed, ReportsOf, Same, DiskKept, ProcessKept, MindKept, PastKept, PastT

OnstopChild(k) ==
  /\ serve = "up"
  /\ meta[k].here
  /\ serve' = serve
  /\ stray'[k] = stray[k]
  /\ out'[k] = out[k]
  /\ file'[k] = file[k]
  /\ told'[k] = told[k]
  /\ sending'[k] = sending[k]
  /\ k \in running' <=> k \in running
  /\ k \in freeing' <=> k \in freeing
  /\ k \in waiting' <=> k \in waiting
  /\ k \in withdrawing' <=> k \in withdrawing
  /\ k \in owed' <=> k \in owed
  /\ ReportsOf(k)' = ReportsOf(k)
  /\ Born(k)' <=> Born(k)
  /\ k \in past'.orphans <=> k \in past.orphans
  /\ k \in past'.messaged <=> k \in past.messaged
  /\ k \in past'.overtaken <=> k \in past.overtaken
  /\ k \in past'.withdrawn <=> k \in past.withdrawn
  /\ k \in past'.cut <=> k \in past.cut
  /\ past'.restarted = past.restarted
  /\ \/ /\ InQueue(k)
        /\ ~InQueue(k)'
        /\ Erased(k)
        /\ kids'[k] = kids[k]
        /\ proc'[k] = proc[k]
        /\ k \in waitStops' <=> k \in waitStops
        /\ k \in past'.bootStopped <=> k \in past.bootStopped
     \/ /\ k \in running
        /\ Booting(k)
        /\ KidIs(k, kids[k].pc, kids[k].by, kids[k].prompt, TRUE,
            kids[k].startFailed, kids[k].exited)
        /\ k \in past'.bootStopped
        /\ InQueue(k)' <=> InQueue(k)
        /\ meta'[k] = meta[k]
        /\ proc'[k] = proc[k]
        /\ k \in waitStops' <=> k \in waitStops
     \/ /\ k \in running
        /\ Live(k)
        /\ ~Booting(k)
        /\ KidIs(k, kids[k].pc, kids[k].by, kids[k].prompt, TRUE,
            kids[k].startFailed, kids[k].exited)
        /\ Dies(k)
        /\ InQueue(k)' <=> InQueue(k)
        /\ meta'[k] = meta[k]
        /\ k \in waitStops' <=> k \in waitStops
        /\ k \in past'.bootStopped <=> k \in past.bootStopped
     \/ /\ k \in running
        /\ Live(k)
        /\ ~Booting(k)
        /\ KidIs(k, kids[k].pc, kids[k].by, kids[k].prompt, kids[k].stopReq,
            kids[k].startFailed, kids[k].exited)
        /\ proc'[k] = proc[k]
        /\ k \in waitStops => k \in waitStops'
        /\ InQueue(k)' <=> InQueue(k)
        /\ meta'[k] = meta[k]
        /\ k \in past'.bootStopped <=> k \in past.bootStopped
     \/ /\ k \in running
        /\ Live(k)
        /\ ~Booting(k)
        /\ KidIs(k, kids[k].pc, kids[k].by, kids[k].prompt, kids[k].stopReq,
            kids[k].startFailed, kids[k].exited)
        /\ ProcIs(k, proc[k].st, proc[k].pipe, proc[k].int \/ Alive(proc[k]))
        /\ k \in waitStops => k \in waitStops'
        /\ InQueue(k)' <=> InQueue(k)
        /\ meta'[k] = meta[k]
        /\ k \in past'.bootStopped <=> k \in past.bootStopped

LEMMA stopChildDoes ==
  ASSUME Typed, InOrder, NEW k \in Kids, stopChild(k)
  PROVE  OnstopChild(k)
<1>1. /\ serve = "up"
      /\ meta[k].here
      /\ serve' = serve
      /\ stray'[k] = stray[k]
      /\ out'[k] = out[k]
      /\ file'[k] = file[k]
      /\ told'[k] = told[k]
      /\ sending'[k] = sending[k]
      /\ k \in running' <=> k \in running
      /\ k \in freeing' <=> k \in freeing
      /\ k \in waiting' <=> k \in waiting
      /\ k \in withdrawing' <=> k \in withdrawing
      /\ k \in owed' <=> k \in owed
      /\ ReportsOf(k)' = ReportsOf(k)
      /\ Born(k)' <=> Born(k)
      /\ k \in past'.orphans <=> k \in past.orphans
      /\ k \in past'.messaged <=> k \in past.messaged
      /\ k \in past'.overtaken <=> k \in past.overtaken
      /\ k \in past'.withdrawn <=> k \in past.withdrawn
      /\ k \in past'.cut <=> k \in past.cut
      /\ past'.restarted = past.restarted
      /\ \/ /\ InQueue(k)
            /\ ~InQueue(k)'
            /\ meta'[k] = NoMeta
            /\ kids'[k] = kids[k]
            /\ proc'[k] = proc[k]
            /\ k \in waitStops' <=> k \in waitStops
            /\ k \in past'.bootStopped <=> k \in past.bootStopped
         \/ /\ k \in running
            /\ Booting(k)
            /\ kids'[k] = [kids[k] EXCEPT !.stopReq = TRUE]
            /\ k \in past'.bootStopped
            /\ InQueue(k)' <=> InQueue(k)
            /\ meta'[k] = meta[k]
            /\ proc'[k] = proc[k]
            /\ k \in waitStops' <=> k \in waitStops
         \/ /\ k \in running
            /\ Live(k)
            /\ ~Booting(k)
            /\ kids'[k] = [kids[k] EXCEPT !.stopReq = TRUE, !.dying = TRUE]
            /\ proc'[k] = Killed(proc[k])
            /\ InQueue(k)' <=> InQueue(k)
            /\ meta'[k] = meta[k]
            /\ k \in waitStops' <=> k \in waitStops
            /\ k \in past'.bootStopped <=> k \in past.bootStopped
         \/ /\ k \in running
            /\ Live(k)
            /\ ~Booting(k)
            /\ kids'[k] = [kids[k] EXCEPT !.held = TRUE]
            /\ proc'[k] = proc[k]
            /\ k \in waitStops => k \in waitStops'
            /\ InQueue(k)' <=> InQueue(k)
            /\ meta'[k] = meta[k]
            /\ k \in past'.bootStopped <=> k \in past.bootStopped
         \/ /\ k \in running
            /\ Live(k)
            /\ ~Booting(k)
            /\ kids'[k] = [kids[k] EXCEPT !.signalled = TRUE]
            /\ proc'[k] = [proc[k] EXCEPT !.int = proc[k].int \/ Alive(proc[k])]
            /\ k \in waitStops => k \in waitStops'
            /\ InQueue(k)' <=> InQueue(k)
            /\ meta'[k] = meta[k]
            /\ k \in past'.bootStopped <=> k \in past.bootStopped
  <2>1. CASE StopDrops(k)
    <3>1. PICK i \in DOMAIN queue : queue[i] = k /\ queue' = RemoveAt(queue, i)
      BY <2>1 DEF StopDrops
    <3>2. ~InQueue(k)'
      <4>1. Ordered(queue) /\ queue \in Seq(Kids)
        BY DEF Ordered, InOrder, Typed
      <4>2. ~In(queue', k)
        BY <3>1, <4>1, Removed
      <4> QED BY <4>2 DEF In, InQueue
    <3> QED BY <2>1, <3>1, <3>2 DEF stopChild, StopDrops, Typed, ReportsOf, InQueue, Born, PastT
  <2>2. CASE StopBooting(k)
    BY <2>2 DEF stopChild, StopBooting, Typed, ReportsOf, InQueue, Born, PastT
  <2>3. CASE StopPending(k)
    BY <2>3 DEF stopChild, StopPending, Typed, ReportsOf, InQueue, KidT, Born, PastT
  <2>4. CASE StopTurn(k)
    <3>1. /\ k \in running /\ Live(k) /\ ~Booting(k)
          /\ waitStops' = IF StatusDone(file[k]) THEN waitStops \cup {k} ELSE waitStops
          /\ Interrupt(k)
          /\ UNCHANGED <<queue, meta, past, serve, running, drains, reports, freeing,
                         waiting, sending, withdrawing, owed, file, told, stray, out>>
      BY <2>4 DEF stopChild, StopTurn
    <3>2. \/ /\ kids'[k] = [kids[k] EXCEPT !.held = TRUE]
             /\ proc'[k] = proc[k]
          \/ /\ kids'[k] = [kids[k] EXCEPT !.signalled = TRUE]
             /\ proc'[k] = [proc[k] EXCEPT !.int = proc[k].int \/ Alive(proc[k])]
      BY <3>1 DEF Interrupt, Typed
    <3>3. k \in waitStops => k \in waitStops'
      BY <3>1
    <3>4. serve = "up" /\ meta[k].here
      BY DEF stopChild
    <3> QED BY <3>1, <3>2, <3>3, <3>4 DEF ReportsOf, InQueue, Born
  <2> QED BY <2>1, <2>2, <2>3, <2>4 DEF stopChild
<1>2. kids[k] \in KidT /\ meta[k] \in MetaT /\ proc[k] \in ProcT
  BY DEF Typed
<1>3. meta'[k] = NoMeta
        => Erased(k)
  BY <1>2 DEF Erased, NoMeta, MetaIs, KidT, ProcT
<1>4. kids'[k] = [kids[k] EXCEPT !.stopReq = TRUE]
        => KidIs(k, kids[k].pc, kids[k].by, kids[k].prompt, TRUE,
            kids[k].startFailed, kids[k].exited)
  BY <1>2 DEF KidIs, KidT, ProcT
<1>5. kids'[k] = [kids[k] EXCEPT !.stopReq = TRUE, !.dying = TRUE]
        => KidIs(k, kids[k].pc, kids[k].by, kids[k].prompt, TRUE,
            kids[k].startFailed, kids[k].exited)
  BY <1>2 DEF KidIs, KidT, ProcT
<1>6. proc'[k] = Killed(proc[k])
        => Dies(k)
  BY <1>2 DEF Dies, Killed, Alive, KidT, ProcT
<1>7. kids'[k] = [kids[k] EXCEPT !.held = TRUE]
        => KidIs(k, kids[k].pc, kids[k].by, kids[k].prompt, kids[k].stopReq,
            kids[k].startFailed, kids[k].exited)
  BY <1>2 DEF KidIs, KidT, ProcT
<1>8. kids'[k] = [kids[k] EXCEPT !.signalled = TRUE]
        => KidIs(k, kids[k].pc, kids[k].by, kids[k].prompt, kids[k].stopReq,
            kids[k].startFailed, kids[k].exited)
  BY <1>2 DEF KidIs, KidT, ProcT
<1>9. proc'[k] = [proc[k] EXCEPT !.int = proc[k].int \/ Alive(proc[k])]
        => ProcIs(k, proc[k].st, proc[k].pipe, proc[k].int \/ Alive(proc[k]))
  BY <1>2 DEF ProcIs, Alive, KidT, ProcT
<1> QED BY <1>1, <1>3, <1>4, <1>5, <1>6, <1>7, <1>8, <1>9 DEF OnstopChild

LEMMA stopChildOthers ==
  ASSUME Typed, InOrder, NEW k \in Kids, stopChild(k), NEW j \in Kids, j # k
  PROVE  Same(j)
<1>1. CASE StopDrops(k)
  <2>1. PICK i \in DOMAIN queue : queue[i] = k /\ queue' = RemoveAt(queue, i)
    BY <1>1 DEF StopDrops
  <2>2. InQueue(j)' <=> InQueue(j)
    <3>1. In(queue', j) <=> In(queue, j)
      BY <2>1, Removed DEF Typed
    <3> QED BY <3>1 DEF In, InQueue
  <2> QED BY <1>1, <2>1, <2>2 DEF stopChild, StopDrops, Typed, ReportsOf, Same, DiskKept, ProcessKept, MindKept, PastKept, Born
<1>2. CASE StopBooting(k)
  BY <1>2 DEF stopChild, StopBooting, Typed, ReportsOf, InQueue, Same, DiskKept, ProcessKept, MindKept, PastKept, Born, PastT
<1>3. CASE StopPending(k)
  BY <1>3 DEF stopChild, StopPending, Typed, ReportsOf, InQueue, Same, DiskKept, ProcessKept, MindKept, PastKept, Born
<1>4. CASE StopTurn(k)
  BY <1>4 DEF stopChild, StopTurn, Interrupt, Typed, ReportsOf, InQueue, Same, DiskKept, ProcessKept, MindKept, PastKept, Born
<1> QED BY <1>1, <1>2, <1>3, <1>4 DEF stopChild

OnWithdrawChild(k) ==
  /\ serve = "up"
  /\ meta[k].here
  /\ ~(kids[k].by = "create" /\ kids[k].pc # "up")
  /\ serve' = serve
  /\ kids'[k] = kids[k]
  /\ proc'[k] = proc[k]
  /\ stray'[k] = stray[k]
  /\ out'[k] = out[k]
  /\ file'[k] = file[k]
  /\ told'[k] = told[k]
  /\ sending'[k] = sending[k]
  /\ k \in freeing' <=> k \in freeing
  /\ k \in waiting' <=> k \in waiting
  /\ k \in waitStops' <=> k \in waitStops
  /\ k \in owed' <=> k \in owed
  /\ ReportsOf(k)' = ReportsOf(k)
  /\ Erased(k)
  /\ k \notin running'
  /\ k \in withdrawing'
  /\ ~InQueue(k)'
  /\ Born(k)' <=> Born(k)
  /\ k \in past'.orphans <=> k \in past.orphans
  /\ k \in past'.messaged <=> k \in past.messaged
  /\ k \in past'.overtaken <=> k \in past.overtaken
  /\ k \in past'.bootStopped <=> k \in past.bootStopped
  /\ k \in past'.withdrawn
  /\ k \in past'.cut <=> k \in past.cut
  /\ past'.restarted = past.restarted
  /\ \A x : ToldKey(k, x) => x \in past'.heard[k]

LEMMA WithdrawChildDoes ==
  ASSUME Typed, InOrder, NEW k \in Kids, WithdrawChild(k)
  PROVE  OnWithdrawChild(k)
<1>1. /\ serve = "up"
      /\ meta[k].here
      /\ ~(kids[k].by = "create" /\ kids[k].pc # "up")
      /\ serve' = serve
      /\ kids'[k] = kids[k]
      /\ proc'[k] = proc[k]
      /\ stray'[k] = stray[k]
      /\ out'[k] = out[k]
      /\ file'[k] = file[k]
      /\ told'[k] = told[k]
      /\ sending'[k] = sending[k]
      /\ k \in freeing' <=> k \in freeing
      /\ k \in waiting' <=> k \in waiting
      /\ k \in waitStops' <=> k \in waitStops
      /\ k \in owed' <=> k \in owed
      /\ ReportsOf(k)' = ReportsOf(k)
      /\ meta'[k] = NoMeta
      /\ k \notin running'
      /\ k \in withdrawing'
      /\ ~InQueue(k)'
      /\ Born(k)' <=> Born(k)
      /\ k \in past'.orphans <=> k \in past.orphans
      /\ k \in past'.messaged <=> k \in past.messaged
      /\ k \in past'.overtaken <=> k \in past.overtaken
      /\ k \in past'.bootStopped <=> k \in past.bootStopped
      /\ k \in past'.withdrawn
      /\ k \in past'.cut <=> k \in past.cut
      /\ past'.restarted = past.restarted
  <2>1. ~InQueue(k)'
    BY Unqueuing DEF WithdrawChild, Typed, InOrder, In, InQueue, Ordered
  <2> QED BY <2>1 DEF WithdrawChild, process, Typed, ReportsOf, Born, PastT
<1>2. kids[k] \in KidT /\ meta[k] \in MetaT /\ proc[k] \in ProcT
  BY DEF Typed
<1>3. past'.heard[k] = OnTheWay(k)
  BY DEF WithdrawChild, Typed, PastT
<1>4. \A x : ToldKey(k, x) => x \in past'.heard[k]
  BY <1>3 DEF OnTheWay, ToldKey, ReportsOf
<1> QED BY <1>1, <1>2, <1>4 DEF OnWithdrawChild, Erased, MetaIs, NoMeta, KidT, MetaT, ProcT

LEMMA WithdrawChildOthers ==
  ASSUME Typed, InOrder, NEW k \in Kids, WithdrawChild(k), NEW j \in Kids, j # k
  PROVE  Same(j)
<1>1. InQueue(j)' <=> InQueue(j)
  <2>1. In(queue', j) <=> In(queue, j)
    BY Unqueuing DEF WithdrawChild, Typed
  <2> QED BY <2>1 DEF In, InQueue
<1> QED BY <1>1 DEF WithdrawChild, process, Typed, ReportsOf, Same, DiskKept, ProcessKept, MindKept, PastKept, Born, PastT

OnProcMoves(k) ==
  /\ serve' = serve
  /\ meta'[k] = meta[k]
  /\ kids'[k] = kids[k]
  /\ stray'[k] = stray[k]
  /\ told'[k] = told[k]
  /\ sending'[k] = sending[k]
  /\ k \in running' <=> k \in running
  /\ k \in freeing' <=> k \in freeing
  /\ k \in waiting' <=> k \in waiting
  /\ k \in waitStops' <=> k \in waitStops
  /\ k \in withdrawing' <=> k \in withdrawing
  /\ k \in owed' <=> k \in owed
  /\ InQueue(k)' <=> InQueue(k)
  /\ ReportsOf(k)' = ReportsOf(k)
  /\ past' = past
  /\ \E o : /\ o.proc \in ProcT /\ o.file \in Seq(EntryT) /\ o.say \in Seq(EventT)
         /\ Outcome(proc[k], file[k], o)
         /\ proc'[k] = o.proc /\ file'[k] = o.file
         /\ out'[k] = out[k] \o o.say

LEMMA ProcMovesDoes ==
  ASSUME Typed, InOrder, NEW k \in Kids, ProcMoves(k)
  PROVE  OnProcMoves(k)
<1>1. PICK o \in ProcSteps(proc[k], file[k], FALSE) :
        /\ proc' = [proc EXCEPT ![k] = o.proc]
        /\ file' = [file EXCEPT ![k] = o.file]
        /\ out' = [out EXCEPT ![k] = out[k] \o o.say]
        /\ UNCHANGED <<serve, memory, meta, told, stray, past, budget>>
  BY DEF ProcMoves
<1>2. /\ o.proc \in ProcT /\ o.file \in Seq(EntryT) /\ o.say \in Seq(EventT)
      /\ Outcome(proc[k], file[k], o)
  <2>1. proc[k] \in ProcT /\ file[k] \in Seq(EntryT)
    BY DEF Typed
  <2> QED BY <2>1, Outcomes
<1>3. UNCHANGED <<serve, queue, running, kids, drains, reports, freeing, waiting, sending,
                  waitStops, withdrawing, owed, meta, told, past>>
  BY <1>1 DEF memory
<1>4. /\ proc'[k] = o.proc /\ file'[k] = o.file /\ out'[k] = out[k] \o o.say /\ stray'[k] = stray[k]
  BY <1>1 DEF Typed
<1>5. \E x : /\ x.proc \in ProcT /\ x.file \in Seq(EntryT) /\ x.say \in Seq(EventT)
            /\ Outcome(proc[k], file[k], x)
            /\ proc'[k] = x.proc /\ file'[k] = x.file
            /\ out'[k] = out[k] \o x.say
  BY <1>2, <1>4, Zenon
<1> QED BY <1>3, <1>4, <1>5 DEF OnProcMoves, ReportsOf, InQueue

LEMMA ProcMovesOthers ==
  ASSUME Typed, InOrder, NEW k \in Kids, ProcMoves(k), NEW j \in Kids, j # k
  PROVE  Same(j)
  BY DEF ProcMoves, memory, Typed, ReportsOf, InQueue, Same, DiskKept, ProcessKept, MindKept, PastKept, Born

OnStrayMoves(k) ==
  /\ serve' = serve
  /\ meta'[k] = meta[k]
  /\ kids'[k] = kids[k]
  /\ proc'[k] = proc[k]
  /\ out'[k] = out[k]
  /\ told'[k] = told[k]
  /\ sending'[k] = sending[k]
  /\ k \in running' <=> k \in running
  /\ k \in freeing' <=> k \in freeing
  /\ k \in waiting' <=> k \in waiting
  /\ k \in waitStops' <=> k \in waitStops
  /\ k \in withdrawing' <=> k \in withdrawing
  /\ k \in owed' <=> k \in owed
  /\ InQueue(k)' <=> InQueue(k)
  /\ ReportsOf(k)' = ReportsOf(k)
  /\ past' = past
  /\ \E o : /\ o.proc \in ProcT /\ o.file \in Seq(EntryT) /\ o.say \in Seq(EventT)
         /\ Outcome(stray[k], file[k], o)
         /\ \/ o.proc.st = "dead" /\ NoProcess(stray'[k])
            \/ o.proc.st # "dead" /\ stray'[k] = o.proc
         /\ \/ file[k] = <<>> /\ stray[k].st # "boot" /\ file'[k] = file[k]
            \/ (file[k] # <<>> \/ stray[k].st = "boot") /\ file'[k] = o.file

LEMMA StrayMovesDoes ==
  ASSUME Typed, InOrder, NEW k \in Kids, StrayMoves(k)
  PROVE  OnStrayMoves(k)
<1>1. PICK o \in ProcSteps(stray[k], file[k], TRUE) :
        /\ stray' = [stray EXCEPT ![k] = IF o.proc.st = "dead" THEN NoProc ELSE o.proc]
        /\ file' = [file EXCEPT ![k] = IF file[k] = <<>> /\ stray[k].st # "boot" THEN file[k] ELSE o.file]
        /\ proc' = proc /\ out' = out
        /\ UNCHANGED <<serve, memory, meta, told, proc, out, past, budget>>
  BY DEF StrayMoves
<1>2. /\ o.proc \in ProcT /\ o.file \in Seq(EntryT) /\ o.say \in Seq(EventT)
      /\ Outcome(stray[k], file[k], o)
  <2>1. stray[k] \in ProcT /\ file[k] \in Seq(EntryT)
    BY DEF Typed
  <2> QED BY <2>1, Outcomes
<1>3. UNCHANGED <<serve, queue, running, kids, drains, reports, freeing, waiting, sending,
                  waitStops, withdrawing, owed, meta, told, past>>
  BY <1>1 DEF memory
<1>4. /\ proc'[k] = proc[k] /\ out'[k] = out[k]
      /\ \/ o.proc.st = "dead" /\ NoProcess(stray'[k])
         \/ o.proc.st # "dead" /\ stray'[k] = o.proc
      /\ \/ file[k] = <<>> /\ stray[k].st # "boot" /\ file'[k] = file[k]
         \/ (file[k] # <<>> \/ stray[k].st = "boot") /\ file'[k] = o.file
  BY <1>1 DEF Typed, NoProcess, NoProc
<1>5. \E x : /\ x.proc \in ProcT /\ x.file \in Seq(EntryT) /\ x.say \in Seq(EventT)
            /\ Outcome(stray[k], file[k], x)
            /\ \/ x.proc.st = "dead" /\ NoProcess(stray'[k])
               \/ x.proc.st # "dead" /\ stray'[k] = x.proc
            /\ \/ file[k] = <<>> /\ stray[k].st # "boot" /\ file'[k] = file[k]
               \/ (file[k] # <<>> \/ stray[k].st = "boot") /\ file'[k] = x.file
  BY <1>2, <1>4, Zenon
<1> QED BY <1>3, <1>4, <1>5 DEF OnStrayMoves, ReportsOf, InQueue

LEMMA StrayMovesOthers ==
  ASSUME Typed, InOrder, NEW k \in Kids, StrayMoves(k), NEW j \in Kids, j # k
  PROVE  Same(j)
  BY DEF StrayMoves, memory, Typed, ReportsOf, InQueue, Same, DiskKept, ProcessKept, MindKept, PastKept, Born

(* One round of drainQueue starts at most the oldest.                      *)
StartsNext(k) ==
  /\ serve = "up" /\ queue # <<>> /\ k = Head(queue) /\ InQueue(k)
  /\ \A j \in Kids : InQueue(j) => k <= j
  /\ serve' = serve
  /\ MetaIs(k, meta[k].here, meta[k].task, meta[k].prompt, FALSE, meta[k].ended,
            meta[k].reported)
  /\ KidIs(k, "exec", "drain", meta[k].prompt, FALSE, FALSE, FALSE)
  /\ k \in running' /\ ~InQueue(k)'
  /\ proc'[k] = proc[k] /\ stray'[k] = stray[k] /\ out'[k] = out[k]
  /\ file'[k] = file[k] /\ told'[k] = told[k] /\ sending'[k] = sending[k]
  /\ k \in freeing' <=> k \in freeing
  /\ k \in waiting' <=> k \in waiting
  /\ k \in waitStops' <=> k \in waitStops
  /\ k \in withdrawing' <=> k \in withdrawing
  /\ k \in owed' <=> k \in owed
  /\ ReportsOf(k)' = ReportsOf(k)
  /\ past' = past

LEMMA DrainDoes ==
  ASSUME Typed, InOrder, DrainQueue
  PROVE  \/ \A j \in Kids : Same(j)
         \/ \E k \in Kids : StartsNext(k) /\ \A j \in Kids : j # k => Same(j)
<1>1. CASE serve = "closing" \/ queue = <<>> \/ Full
  BY <1>1 DEF DrainQueue, process, Same, DiskKept, ProcessKept, MindKept, PastKept, Born, ReportsOf, InQueue
<1>2. CASE ~(serve = "closing" \/ queue = <<>> \/ Full)
  <2>0. PICK k \in Kids : k = Head(queue)
    BY <1>2, Headed DEF Typed
  <2>1. /\ k \in Kids /\ InQueue(k) /\ queue' = Tail(queue)
        /\ \A j \in Kids : InQueue(j) => k <= j
        /\ ~InQueue(k)'
        /\ \A j \in Kids : j # k => (In(queue', j) <=> In(queue, j))
    <3>1. queue \in Seq(Kids) /\ queue # <<>> /\ Ordered(queue)
      BY <1>2 DEF Typed, InOrder, Ordered
    <3>2. queue' = Tail(queue)
      BY <1>2 DEF DrainQueue
    <3>3. /\ k \in Kids /\ In(queue, k) /\ ~In(queue', k)
          /\ \A j : In(queue, j) => k <= j
          /\ \A j : j # k => (In(queue', j) <=> In(queue, j))
      BY <2>0, <3>1, <3>2, Headed
    <3>4. \A j : In(queue, j) <=> InQueue(j)
      BY DEF In, InQueue
    <3>5. ~InQueue(k)'
      BY <3>3 DEF In, InQueue
    <3> QED BY <3>2, <3>3, <3>4, <3>5
  <2>2. serve = "up"
    BY <1>2 DEF DrainQueue, Typed, Up
  <2>3. /\ meta' = [meta EXCEPT ![k].queued = FALSE]
        /\ running' = running \cup {k}
        /\ kids' = [kids EXCEPT ![k] = newChild("exec", "drain", meta[k].prompt)]
    BY <1>2, <2>0 DEF DrainQueue
  <2>4. newChild("exec", "drain", meta[k].prompt) =
          [NoChild EXCEPT !.pc = "exec", !.by = "drain", !.prompt = meta[k].prompt]
    BY DEF newChild
  <2>u. UNCHANGED <<serve, reports, freeing, waiting, sending, waitStops,
                    withdrawing, owed, file, told, proc, stray, out, past>>
    BY DEF DrainQueue, process
  <2>5. StartsNext(k)
    <3>1. /\ meta'[k] = [meta[k] EXCEPT !.queued = FALSE] /\ k \in running'
          /\ kids'[k] = [NoChild EXCEPT !.pc = "exec", !.by = "drain",
                                     !.prompt = meta[k].prompt]
      BY <2>1, <2>3, <2>4 DEF Typed
    <3>2. meta[k] \in MetaT /\ meta[k].prompt \in BOOLEAN
      BY DEF Typed, MetaT
    <3>3. MetaIs(k, meta[k].here, meta[k].task, meta[k].prompt, FALSE, meta[k].ended,
                 meta[k].reported)
      BY <3>1, <3>2 DEF MetaIs, MetaT
    <3>4. KidIs(k, "exec", "drain", meta[k].prompt, FALSE, FALSE, FALSE)
      BY <3>1 DEF KidIs, NoChild
    <3> QED BY <1>2, <2>0, <2>1, <2>2, <3>1, <3>3, <3>4, <2>u DEF StartsNext, ReportsOf
  <2>6. ASSUME NEW j \in Kids, j # k PROVE Same(j)
    <3>1. InQueue(j)' <=> InQueue(j)
      BY <2>1, <2>6 DEF In, InQueue
    <3> QED BY <2>1, <2>3, <2>6, <2>u, <3>1 DEF Same, DiskKept, ProcessKept, MindKept, PastKept, Born, Typed, ReportsOf
  <2> QED BY <2>1, <2>5, <2>6
<1> QED BY <1>1, <1>2

(* The steps of a report, of the child k.                                  *)
LEMMA Replaced ==
  ASSUME NEW k \in Kids, NEW r \in reports, r.k = k, NEW x, x.k = k,
         reports' = (reports \ {r}) \cup {x}
  PROVE  /\ ReportsOf(k)' = (ReportsOf(k) \ {r}) \cup {x}
         /\ \A j \in Kids : j # k => ReportsOf(j)' = ReportsOf(j)
BY DEF ReportsOf

LEMMA TakenAway ==
  ASSUME NEW k \in Kids, NEW r \in reports, r.k = k, reports' = reports \ {r}
  PROVE  /\ ReportsOf(k)' = ReportsOf(k) \ {r}
         /\ \A j \in Kids : j # k => ReportsOf(j)' = ReportsOf(j)
BY DEF ReportsOf

StartsReport(k, r) ==
  /\ Up /\ r \in ReportsOf(k) /\ r.pc = "start"
  /\ Adds(k, ReportsOf(k) \ {r}, r.trigger, "decide", r.key)
  /\ k \notin waitStops'
  /\ \/ file'[k] = file[k]
     \/ /\ StatusDone(file[k]) /\ file'[k] = Append(file[k], "cancelled")
        /\ k \in past'.waitEnded
  /\ serve' = serve /\ kids'[k] = kids[k] /\ sending'[k] = sending[k]
  /\ meta'[k] = meta[k] /\ told'[k] = told[k] /\ ProcessKept(k)
  /\ k \in running' <=> k \in running
  /\ k \in freeing' <=> k \in freeing
  /\ k \in waiting' <=> k \in waiting
  /\ k \in withdrawing' <=> k \in withdrawing
  /\ k \in owed' <=> k \in owed
  /\ InQueue(k)' <=> InQueue(k)
  /\ PastKept(k)

LEMMA ReportStartsDoes ==
  ASSUME Typed, NEW r \in reports, ReportStarts(r), NEW k \in Kids, k = r.k
  PROVE  StartsReport(k, r)
<1>1. reports' = (reports \ {r}) \cup {[r EXCEPT !.pc = "decide"]} /\ r.pc = "start"
  BY DEF ReportStarts
<1>2. [r EXCEPT !.pc = "decide"].k = k
  BY DEF Typed, IsReport
<1>3. Adds(k, ReportsOf(k) \ {r}, r.trigger, "decide", r.key)
  <2> DEFINE x == [r EXCEPT !.pc = "decide"]
  <2>1. reports' = (reports \ {r}) \cup {x} /\ x.k = k
    BY <1>1, <1>2
  <2>2. x.trigger = r.trigger /\ x.pc = "decide" /\ x.key = r.key
    BY DEF Typed, IsReport
  <2> HIDE DEF x
  <2>3. ReportsOf(k)' = (ReportsOf(k) \ {r}) \cup {x}
    BY <2>1, Replaced
  <2> QED BY <2>1, <2>2, <2>3 DEF Adds
<1>4. \/ UNCHANGED <<file, past>>
      \/ /\ StatusDone(file[k])
         /\ file' = [file EXCEPT ![k] = Append(file[k], "cancelled")]
         /\ past' = [past EXCEPT !.waitEnded = past.waitEnded \cup {k}]
  <2>1. CASE k \in waitStops /\ StatusDone(file[k])
    BY <2>1 DEF ReportStarts
  <2>2. CASE ~(k \in waitStops /\ StatusDone(file[k]))
    BY <2>2 DEF ReportStarts
  <2> QED BY <2>1, <2>2
<1>5. /\ \/ file'[k] = file[k]
         \/ /\ StatusDone(file[k]) /\ file'[k] = Append(file[k], "cancelled")
            /\ k \in past'.waitEnded
      /\ PastKept(k)
  <2>1. past \in PastT /\ file \in [Kids -> Seq(EntryT)]
    BY DEF Typed
  <2>2. CASE UNCHANGED <<file, past>>
    BY <2>2 DEF PastKept, Born
  <2>3. CASE /\ StatusDone(file[k])
             /\ file' = [file EXCEPT ![k] = Append(file[k], "cancelled")]
             /\ past' = [past EXCEPT !.waitEnded = past.waitEnded \cup {k}]
    <3>1. PastKept(k) /\ k \in past'.waitEnded
      BY <2>1, <2>3 DEF PastKept, Born, PastT
    <3> QED BY <2>1, <2>3, <3>1
  <2> QED BY <1>4, <2>2, <2>3
<1>6. r \in ReportsOf(k)
  BY DEF ReportsOf
<1>7. Up /\ k \notin waitStops'
      /\ UNCHANGED <<serve, queue, running, kids, freeing, waiting, sending,
                     withdrawing, owed, meta, told, proc, stray, out>>
  BY DEF ReportStarts, process
<1> QED BY <1>1, <1>3, <1>5, <1>6, <1>7 DEF StartsReport, InQueue, ProcessKept

LEMMA ReportStartsOthers ==
  ASSUME Typed, NEW r \in reports, ReportStarts(r), NEW j \in Kids, j # r.k
  PROVE  Same(j)
<1>1. reports' = (reports \ {r}) \cup {[r EXCEPT !.pc = "decide"]} /\ r.k \in Kids
  BY DEF ReportStarts, Typed, IsReport
<1>2. [r EXCEPT !.pc = "decide"].k = r.k
  BY DEF Typed, IsReport
<1>3. ReportsOf(j)' = ReportsOf(j)
  BY <1>1, <1>2, Replaced
<1>4. file'[j] = file[j] /\ PastKept(j)
  BY DEF ReportStarts, Typed, PastT, PastKept, Born
<1> QED BY <1>3, <1>4 DEF ReportStarts, process, InQueue, Same, DiskKept, ProcessKept, MindKept

DecidesReport(k, r) ==
  /\ Up /\ r \in ReportsOf(k) /\ r.pc = "decide"
  /\ \/ /\ lastTurn(file[k]).hasEntry
        /\ Adds(k, ReportsOf(k) \ {r}, r.trigger, "mark", TurnKey(file[k]))
        /\ meta'[k] = meta[k]
     \/ /\ ~lastTurn(file[k]).hasEntry /\ r.trigger = "exit"
        /\ \E how \in {"stopped", "error"} : Unstarts(k, how, ReportsOf(k) \ {r})
     \/ /\ ~lastTurn(file[k]).hasEntry /\ r.trigger # "exit"
        /\ ReportsOf(k)' = ReportsOf(k) \ {r}
        /\ meta'[k] = meta[k]
  /\ serve' = serve /\ kids'[k] = kids[k] /\ sending'[k] = sending[k]
  /\ file'[k] = file[k] /\ told'[k] = told[k] /\ ProcessKept(k)
  /\ k \in running' <=> k \in running
  /\ k \in freeing' <=> k \in freeing
  /\ k \in waiting' <=> k \in waiting
  /\ k \in waitStops' <=> k \in waitStops
  /\ k \in withdrawing' <=> k \in withdrawing
  /\ k \in owed' <=> k \in owed
  /\ InQueue(k)' <=> InQueue(k)
  /\ past' = past

LEMMA ReportDecidesBoth ==
  ASSUME Typed, NEW r \in reports, ReportDecides(r), NEW k \in Kids, k = r.k
  PROVE  /\ DecidesReport(k, r)
         /\ \A j \in Kids : j # k => ReportsOf(j)' = ReportsOf(j) /\ meta'[j] = meta[j]
<1>1. r \in ReportsOf(k) /\ r.pc = "decide" /\ Up /\ past' = past
      /\ UNCHANGED <<serve, queue, running, kids, freeing, waiting, sending,
                     waitStops, withdrawing, owed, file, told, proc, stray, out>>
  BY DEF ReportDecides, process, ReportsOf
<1>2. CASE lastTurn(file[k]).hasEntry
  <2> DEFINE x == [r EXCEPT !.pc = "mark", !.n = 0, !.key = TurnKey(file[k])]
  <2>1. reports' = (reports \ {r}) \cup {x} /\ meta' = meta
    BY <1>2 DEF ReportDecides
  <2>2. x.k = k /\ x.trigger = r.trigger /\ x.pc = "mark" /\ x.key = TurnKey(file[k])
    BY DEF Typed, IsReport
  <2> HIDE DEF x
  <2>3. /\ ReportsOf(k)' = (ReportsOf(k) \ {r}) \cup {x}
        /\ \A j \in Kids : j # k => ReportsOf(j)' = ReportsOf(j)
    BY <2>1, <2>2, Replaced
  <2>4. Adds(k, ReportsOf(k) \ {r}, r.trigger, "mark", TurnKey(file[k]))
    BY <2>2, <2>3 DEF Adds
  <2> QED BY <1>1, <1>2, <2>1, <2>3, <2>4 DEF DecidesReport, InQueue, ProcessKept
<1>3. CASE ~lastTurn(file[k]).hasEntry /\ r.trigger = "exit"
  <2>0. PICK gone : gone = {r}
    OBVIOUS
  <2>1. PICK how \in {"error", "stopped"} : EndUnstarted(k, how, reports \ gone)
    BY <1>3, <2>0 DEF ReportDecides
  <2>2. /\ Unstarts(k, how, ReportsOf(k) \ gone)
        /\ \A j \in Kids : j # k =>
             ReportsOf(j)' = ReportsOf(j) \ gone /\ meta'[j] = meta[j]
    <3>1. CASE how = "error"
      <4>1. EndUnstarted(k, "error", reports \ gone)
        BY <2>1, <3>1
      <4>2. /\ Unstarts(k, "error", ReportsOf(k) \ gone)
            /\ \A j \in Kids : j # k =>
                 ReportsOf(j)' = ReportsOf(j) \ gone /\ meta'[j] = meta[j]
        BY <4>1, EndsUnstarted
      <4> QED BY <3>1, <4>2
    <3>2. CASE how = "stopped"
      <4>1. EndUnstarted(k, "stopped", reports \ gone)
        BY <2>1, <3>2
      <4>2. /\ Unstarts(k, "stopped", ReportsOf(k) \ gone)
            /\ \A j \in Kids : j # k =>
                 ReportsOf(j)' = ReportsOf(j) \ gone /\ meta'[j] = meta[j]
        BY <4>1, EndsUnstarted
      <4> QED BY <3>2, <4>2
    <3> QED BY <3>1, <3>2
  <2>3. \A j : j # k => ReportsOf(j) \ {r} = ReportsOf(j)
    BY DEF ReportsOf
  <2>4. \A j \in Kids : j # k => ReportsOf(j)' = ReportsOf(j) /\ meta'[j] = meta[j]
    BY <2>0, <2>2, <2>3
  <2> QED BY <1>1, <1>3, <2>0, <2>2, <2>4 DEF DecidesReport, InQueue, ProcessKept
<1>4. CASE ~lastTurn(file[k]).hasEntry /\ r.trigger # "exit"
  <2>1. reports' = reports \ {r} /\ meta' = meta
    BY <1>4 DEF ReportDecides
  <2>2. /\ ReportsOf(k)' = ReportsOf(k) \ {r}
        /\ \A j \in Kids : j # k => ReportsOf(j)' = ReportsOf(j)
    BY <2>1, TakenAway
  <2> QED BY <1>1, <1>4, <2>1, <2>2 DEF DecidesReport, InQueue, ProcessKept
<1> QED BY <1>2, <1>3, <1>4

LEMMA ReportDecidesOthers ==
  ASSUME Typed, NEW r \in reports, ReportDecides(r), NEW j \in Kids, j # r.k
  PROVE  Same(j)
<1>1. r.k \in Kids
  BY DEF Typed, IsReport
<1>2. ReportsOf(j)' = ReportsOf(j) /\ meta'[j] = meta[j]
  BY <1>1, ReportDecidesBoth
<1> QED BY <1>2 DEF ReportDecides, process, InQueue, Same, DiskKept, ProcessKept, MindKept, PastKept, Born

MarksReport(k, r) ==
  /\ Up /\ r \in ReportsOf(k) /\ r.pc = "mark"
  /\ \/ /\ meta[k].here /\ r.key > meta[k].reported
        /\ MetaIs(k, TRUE, meta[k].task, meta[k].prompt, meta[k].queued,
                  meta[k].ended, r.key)
        /\ Adds(k, ReportsOf(k) \ {r}, r.trigger, "tell", r.key)
     \/ /\ ~(meta[k].here /\ r.key > meta[k].reported)
        /\ meta'[k] = meta[k]
        /\ ReportsOf(k)' = ReportsOf(k) \ {r}
  /\ serve' = serve /\ kids'[k] = kids[k] /\ sending'[k] = sending[k]
  /\ file'[k] = file[k] /\ told'[k] = told[k] /\ ProcessKept(k)
  /\ k \in running' <=> k \in running
  /\ k \in freeing' <=> k \in freeing
  /\ k \in waiting' <=> k \in waiting
  /\ k \in waitStops' <=> k \in waitStops
  /\ k \in withdrawing' <=> k \in withdrawing
  /\ k \in owed' <=> k \in owed
  /\ InQueue(k)' <=> InQueue(k)
  /\ past' = past

LEMMA ReportMarksBoth ==
  ASSUME Typed, NEW r \in reports, ReportMarks(r), NEW k \in Kids, k = r.k
  PROVE  /\ MarksReport(k, r)
         /\ \A j \in Kids : j # k => ReportsOf(j)' = ReportsOf(j) /\ meta'[j] = meta[j]
<1>1. r \in ReportsOf(k) /\ r.pc = "mark" /\ Up /\ past' = past
      /\ UNCHANGED <<serve, queue, running, kids, freeing, waiting, sending,
                     waitStops, withdrawing, owed, file, told, proc, stray, out>>
  BY DEF ReportMarks, process, ReportsOf
<1>2. CASE meta[k].here /\ r.key > meta[k].reported
  <2> DEFINE x == [r EXCEPT !.pc = "tell"]
  <2>1. reports' = (reports \ {r}) \cup {x}
        /\ meta' = [meta EXCEPT ![k].reported = r.key]
    BY <1>2 DEF ReportMarks, Unreported
  <2>2. x.k = k /\ x.trigger = r.trigger /\ x.pc = "tell" /\ x.key = r.key
    BY DEF Typed, IsReport
  <2> HIDE DEF x
  <2>3. /\ ReportsOf(k)' = (ReportsOf(k) \ {r}) \cup {x}
        /\ \A j \in Kids : j # k => ReportsOf(j)' = ReportsOf(j)
    BY <2>1, <2>2, Replaced
  <2>4. meta[k] \in MetaT /\ meta \in [Kids -> MetaT]
    BY DEF Typed
  <2>5. /\ meta'[k] = [meta[k] EXCEPT !.reported = r.key]
        /\ \A j \in Kids : j # k => meta'[j] = meta[j]
    BY <2>1, <2>4
  <2>6. MetaIs(k, TRUE, meta[k].task, meta[k].prompt, meta[k].queued, meta[k].ended,
               r.key)
    BY <1>2, <2>4, <2>5 DEF MetaIs, MetaT
  <2>7. Adds(k, ReportsOf(k) \ {r}, r.trigger, "tell", r.key)
    BY <2>2, <2>3 DEF Adds
  <2> QED BY <1>1, <1>2, <2>3, <2>5, <2>6, <2>7 DEF MarksReport, InQueue, ProcessKept
<1>3. CASE ~(meta[k].here /\ r.key > meta[k].reported)
  <2>1. reports' = reports \ {r} /\ meta' = meta
    BY <1>3 DEF ReportMarks, Unreported
  <2>2. /\ ReportsOf(k)' = ReportsOf(k) \ {r}
        /\ \A j \in Kids : j # k => ReportsOf(j)' = ReportsOf(j)
    BY <2>1, TakenAway
  <2> QED BY <1>1, <1>3, <2>1, <2>2 DEF MarksReport, InQueue, ProcessKept
<1> QED BY <1>2, <1>3

LEMMA ReportMarksOthers ==
  ASSUME Typed, NEW r \in reports, ReportMarks(r), NEW j \in Kids, j # r.k
  PROVE  Same(j)
<1>1. r.k \in Kids
  BY DEF Typed, IsReport
<1>2. ReportsOf(j)' = ReportsOf(j) /\ meta'[j] = meta[j]
  BY <1>1, ReportMarksBoth
<1> QED BY <1>2 DEF ReportMarks, process, InQueue, Same, DiskKept, ProcessKept, MindKept, PastKept, Born

TellsReport(k, r) ==
  /\ Up /\ r \in ReportsOf(k) /\ r.pc = "tell"
  /\ told'[k] = Append(told[k], r.key)
  /\ ReportsOf(k)' = ReportsOf(k) \ {r}
  /\ serve' = serve /\ kids'[k] = kids[k] /\ sending'[k] = sending[k]
  /\ file'[k] = file[k] /\ meta'[k] = meta[k] /\ ProcessKept(k)
  /\ k \in running' <=> k \in running
  /\ k \in freeing' <=> k \in freeing
  /\ k \in waiting' <=> k \in waiting
  /\ k \in waitStops' <=> k \in waitStops
  /\ k \in withdrawing' <=> k \in withdrawing
  /\ k \in owed' <=> k \in owed
  /\ InQueue(k)' <=> InQueue(k)
  /\ past' = past

LEMMA ReportTellsDoes ==
  ASSUME Typed, NEW r \in reports, ReportTells(r), NEW k \in Kids, k = r.k
  PROVE  TellsReport(k, r)
<1>1. reports' = reports \ {r} /\ told'[k] = Append(told[k], r.key)
  BY DEF ReportTells, Typed
<1>2. ReportsOf(k)' = ReportsOf(k) \ {r}
  BY <1>1, TakenAway
<1> QED BY <1>1, <1>2 DEF ReportTells, process, TellsReport, ReportsOf, InQueue, ProcessKept

LEMMA ReportTellsOthers ==
  ASSUME Typed, NEW r \in reports, ReportTells(r), NEW j \in Kids, j # r.k
  PROVE  Same(j)
<1>1. reports' = reports \ {r} /\ told'[j] = told[j] /\ r.k \in Kids
  BY DEF ReportTells, Typed, IsReport
<1>2. ReportsOf(j)' = ReportsOf(j)
  BY <1>1, TakenAway
<1> QED BY <1>1, <1>2 DEF ReportTells, process, InQueue, Same, DiskKept, ProcessKept, MindKept, PastKept, Born

(* reportOwed looks at the oldest child, or at none once serve closes.     *)
LooksOwed(k) ==
  /\ serve \notin {"down", "closing"} /\ k \in owed /\ k \notin owed'
  /\ LET due == serve = "up" /\ file[k] # <<>> /\ ~Live(k)
                  /\ TurnKey(file[k]) > meta[k].reported
     IN \/ due /\ Adds(k, ReportsOf(k), "exit", "start", 0)
        \/ ~due /\ ReportsOf(k)' = ReportsOf(k)
  /\ serve' = serve /\ kids'[k] = kids[k] /\ sending'[k] = sending[k]
  /\ DiskKept(k) /\ ProcessKept(k)
  /\ k \in running' <=> k \in running
  /\ k \in freeing' <=> k \in freeing
  /\ k \in waiting' <=> k \in waiting
  /\ k \in waitStops' <=> k \in waitStops
  /\ k \in withdrawing' <=> k \in withdrawing
  /\ InQueue(k)' <=> InQueue(k)
  /\ past' = past

GivesUpOwed(j) ==
  /\ serve = "closing" /\ serve' = serve
  /\ DiskKept(j) /\ ProcessKept(j) /\ MindKept(j) /\ PastKept(j)
  /\ InQueue(j)' <=> InQueue(j)
  /\ j \notin owed'

LEMMA OldestOwed ==
  ASSUME NEW S \in SUBSET Kids, S # {}
  PROVE  (CHOOSE i \in S : \A j \in S : i <= j) \in S
<1> DEFINE R == OpToRel(<, Nat)
<1>1. IsWellFoundedOn(R, Nat)
  BY NatLessThanWellFounded
<1>2. S \subseteq Nat
  BY DEF Kids
<1>3. PICK x \in S : \A y \in S : <<y, x>> \notin R
  <2> HIDE DEF R
  <2> QED BY <1>1, <1>2, WFMin
<1>4. ASSUME NEW y \in S PROVE x <= y
  <2>1. x \in Nat /\ y \in Nat /\ <<y, x>> \in Nat \X Nat
    BY <1>2
  <2>2. ~(y < x)
    BY <1>3, <2>1 DEF OpToRel
  <2> QED BY <2>1, <2>2
<1> QED BY <1>4

LEMMA ReportOwedDoes ==
  ASSUME Typed, ReportOwed
  PROVE  \/ \A j \in Kids : GivesUpOwed(j)
         \/ \E k \in Kids : LooksOwed(k) /\ \A j \in Kids : j # k => Same(j)
<1>0. PICK k \in Kids : k = (CHOOSE i \in owed : \A j \in owed : i <= j)
  BY OldestOwed DEF Typed, ReportOwed
<1>1. /\ k \in owed /\ serve # "down"
      /\ owed' = IF serve = "closing" THEN {} ELSE owed \ {k}
      /\ UNCHANGED <<serve, queue, running, kids, freeing, waiting, sending,
                     waitStops, withdrawing, meta, file, told, proc, stray, out, past>>
  BY <1>0, OldestOwed DEF Typed, ReportOwed, disk, process, Up
<1> DEFINE x == [Report(k, "exit", "start") EXCEPT !.stopped = FALSE]
           due == serve = "up" /\ file[k] # <<>> /\ ~Live(k)
                    /\ TurnKey(file[k]) > meta[k].reported
<1>2. reports' = IF due THEN reports \cup {x} ELSE reports
  BY <1>0 DEF ReportOwed, historyExists
<1>3. x.k = k /\ x.trigger = "exit" /\ x.pc = "start" /\ x.key = 0
  BY DEF Report
<1>4. CASE serve = "closing"
  <2>1. reports' = reports
    BY <1>2, <1>4
  <2> QED BY <1>1, <1>4, <2>1 DEF GivesUpOwed, ReportsOf, InQueue, Same, DiskKept, ProcessKept, MindKept, PastKept, Born
<1>5. CASE serve # "closing"
  <2> HIDE DEF x
  <2>1. /\ ReportsOf(k)' = IF due THEN ReportsOf(k) \cup {x} ELSE ReportsOf(k)
        /\ \A j \in Kids : j # k => ReportsOf(j)' = ReportsOf(j)
    <3> HIDE DEF due
    <3> QED BY <1>2, <1>3 DEF ReportsOf
  <2>2. due => Adds(k, ReportsOf(k), "exit", "start", 0)
    <3> HIDE DEF due
    <3> QED BY <1>3, <2>1 DEF Adds
  <2>3. LooksOwed(k)
    BY <1>1, <1>5, <2>1, <2>2 DEF LooksOwed, InQueue, DiskKept, ProcessKept
  <2>4. ASSUME NEW j \in Kids, j # k PROVE Same(j)
    BY <1>1, <1>5, <2>1, <2>4 DEF InQueue, Same, DiskKept, ProcessKept, MindKept, PastKept, Born
  <2> QED BY <2>3, <2>4
<1> QED BY <1>4, <1>5

(* Close, the end of serve, and the next serve.                            *)
Closes(j) ==
  /\ serve = "up" /\ serve' = "closing" /\ ~InQueue(j)'
  /\ DiskKept(j) /\ ProcessKept(j) /\ MindKept(j) /\ PastKept(j)
  /\ j \in owed' <=> j \in owed

LEMMA CloseDoes ==
  ASSUME Close, NEW j \in Kids
  PROVE  Closes(j)
BY DEF Close, disk, process, Closes, ReportsOf, InQueue, DiskKept, ProcessKept,
       MindKept, PastKept, Born

Forgets(j) ==
  /\ Up /\ serve' = "down" /\ ~InQueue(j)'
  /\ Released(j) /\ sending'[j] = "no" /\ ReportsOf(j)' = {}
  /\ j \notin running' /\ j \notin freeing' /\ j \notin waiting'
  /\ j \notin waitStops' /\ j \notin withdrawing' /\ j \notin owed'
  /\ DiskKept(j)
  /\ Born(j)' <=> Born(j)
  /\ j \in past'.messaged <=> j \in past.messaged
  /\ j \in past'.overtaken <=> j \in past.overtaken
  /\ j \in past'.bootStopped <=> j \in past.bootStopped /\ ~meta[j].task
  /\ j \in past'.withdrawn <=> j \in past.withdrawn
  /\ j \in past'.cut <=> \/ j \in past.cut \/ j \in withdrawing
                         \/ \E r \in ReportsOf(j) : r.pc = "tell"
  /\ past'.restarted
  /\ \/ /\ ~Live(j) /\ ProcessKept(j)
        /\ j \in past'.orphans <=> j \in past.orphans
     \/ /\ NoProcess(proc'[j]) /\ out'[j] = <<>>
        /\ \/ Alive(proc[j]) /\ stray'[j] = proc[j] /\ j \in past'.orphans
           \/ /\ ~Alive(proc[j]) /\ stray'[j] = stray[j]
              /\ j \in past'.orphans <=> j \in past.orphans

LEMMA ForgetDoes ==
  ASSUME Typed, CloseEnds \/ ServeCrashes, NEW j \in Kids
  PROVE  Forgets(j)
<1>1. Forget /\ Up /\ UNCHANGED <<meta, file, told>>
  BY DEF CloseEnds, ServeCrashes, disk, Up
<1>2. /\ Released(j) /\ sending'[j] = "no" /\ serve' = "down"
      /\ j \notin running' /\ j \notin freeing' /\ j \notin waiting'
      /\ j \notin waitStops' /\ j \notin withdrawing' /\ j \notin owed'
      /\ ~InQueue(j)' /\ ReportsOf(j)' = {}
  BY <1>1 DEF Forget, InQueue, ReportsOf, Released, KidIs, NoChild
<1>3. j \in Untold <=> j \in withdrawing \/ \E r \in ReportsOf(j) : r.pc = "tell"
  BY DEF Untold, ReportsOf
<1>4. CASE CloseEnds
  <2>1. /\ past' = PastServe
        /\ UNCHANGED <<proc, stray, out>> /\ ~Live(j)
    BY <1>4 DEF CloseEnds, process
  <2> QED BY <1>1, <1>2, <1>3, <2>1 DEF Forgets, DiskKept, ProcessKept, Born, Typed, PastT, PastServe
<1>5. CASE ServeCrashes
  <2>1. /\ past' = [PastServe EXCEPT
                     !.orphans = PastServe.orphans \cup {k \in Kids : Alive(proc[k])}]
        /\ NoProcess(proc'[j]) /\ out'[j] = <<>>
        /\ stray'[j] = IF Alive(proc[j]) THEN proc[j] ELSE stray[j]
    BY <1>5 DEF ServeCrashes, NoProcess, NoProc
  <2> QED BY <1>1, <1>2, <1>3, <2>1 DEF Forgets, DiskKept, Born, Typed, PastT, PastServe
<1> QED BY <1>4, <1>5

Requeues(j) ==
  /\ serve = "down" /\ serve' = "up"
  /\ \/ /\ meta[j].task /\ ~Spent(j) /\ InQueue(j)'
        /\ MetaIs(j, meta[j].here, TRUE, meta[j].prompt, TRUE, meta[j].ended,
                  meta[j].reported)
        /\ j \notin owed'
     \/ /\ meta[j].task /\ Spent(j) /\ ~InQueue(j)'
        /\ MetaIs(j, meta[j].here, FALSE, meta[j].prompt, FALSE, meta[j].ended,
                  meta[j].reported)
        /\ j \in owed' <=> meta'[j].here
     \/ /\ ~meta[j].task /\ ~InQueue(j)'
        /\ meta'[j] = meta[j]
        /\ j \in owed' <=> meta'[j].here
  /\ file'[j] = file[j] /\ told'[j] = told[j]
  /\ ProcessKept(j) /\ MindKept(j) /\ PastKept(j)

LEMMA NewSupervisorDoes ==
  ASSUME Typed, NewSupervisor
  PROVE  /\ queue' \in Seq(Kids) /\ Ordered(queue')
         /\ queue' # <<>> => drains' > 0
         /\ drains' \in {0, 1} /\ past' = past
         /\ \A j \in Kids : Requeues(j)
<1> DEFINE tasks == {k \in Kids : meta[k].task}
           again == {k \in tasks : ~Spent(k)}
<1>1. /\ meta' = [k \in Kids |-> IF k \in tasks
                    THEN [meta[k] EXCEPT !.task = k \in again, !.queued = k \in again]
                    ELSE meta[k]]
      /\ owed' = {k \in Kids : meta'[k].here /\ ~meta'[k].task}
      /\ drains' = IF queue' = <<>> THEN 0 ELSE 1
      /\ serve = "down" /\ serve' = "up"
      /\ UNCHANGED <<running, kids, reports, freeing, waiting, sending, waitStops,
                     withdrawing, file, told, proc, stray, out, past>>
  BY DEF NewSupervisor, process
<1>2. PICK q \in [1 .. Cardinality(again) -> again] : OldestFirst(q, again) /\ queue' = q
  BY DEF NewSupervisor
<1>3. Cardinality(again) \in Nat
  <2>1. IsFiniteSet(Kids)
    BY SomeKids, FS_Interval DEF Kids
  <2>2. IsFiniteSet(again)
    <3>1. again \subseteq Kids
      OBVIOUS
    <3> QED BY <2>1, <3>1, FS_Subset
  <2> QED BY <2>2, FS_CardinalityType
<1>4. q \in Seq(again) /\ DOMAIN q = 1 .. Cardinality(again)
  <2> HIDE DEF again
  <2> QED BY <1>3
<1>5. \A j : In(q, j) <=> j \in again
  BY <1>2 DEF OldestFirst, In
<1>6. Ordered(q) /\ q \in Seq(Kids)
  BY <1>2, <1>4 DEF OldestFirst, Ordered
<1>7. ASSUME NEW j \in Kids PROVE Requeues(j)
  <2>1. InQueue(j)' <=> j \in again
    BY <1>2, <1>5 DEF In, InQueue
  <2>2. ProcessKept(j) /\ MindKept(j) /\ PastKept(j)
    BY <1>1 DEF ProcessKept, MindKept, PastKept, Born, ReportsOf
  <2>3. j \in owed' <=> meta'[j].here /\ ~meta'[j].task
    BY <1>1
  <2>4. meta[j] \in MetaT
    BY DEF Typed
  <2>5. CASE meta[j].task /\ ~Spent(j)
    <3>1. meta'[j] = [meta[j] EXCEPT !.task = TRUE, !.queued = TRUE]
      BY <1>1, <2>5
    <3> QED BY <1>1, <2>1, <2>2, <2>3, <2>4, <2>5, <3>1 DEF Requeues, MetaIs, MetaT
  <2>6. CASE meta[j].task /\ Spent(j)
    <3>0. (j \in again) = FALSE /\ j \in tasks
      BY <2>6
    <3>1. meta'[j] = [meta[j] EXCEPT !.task = FALSE, !.queued = FALSE]
      <4> HIDE DEF again, tasks
      <4> QED BY <1>1, <3>0
    <3> QED BY <1>1, <2>1, <2>2, <2>3, <2>4, <2>6, <3>1 DEF Requeues, MetaIs, MetaT
  <2>7. CASE ~meta[j].task
    <3>1. meta'[j] = meta[j]
      BY <1>1, <2>7
    <3>2. ~InQueue(j)'
      BY <2>1, <2>7
    <3>3. j \in owed' <=> meta'[j].here
      BY <2>3, <2>7, <3>1
    <3>4. /\ serve = "down" /\ serve' = "up"
          /\ file'[j] = file[j] /\ told'[j] = told[j]
      BY <1>1
    <3> HIDE DEF again, tasks
    <3> QED BY <2>2, <2>7, <3>1, <3>2, <3>3, <3>4 DEF Requeues
  <2> QED BY <2>5, <2>6, <2>7
<1>8. /\ queue' # <<>> => drains' > 0
      /\ drains' \in {0, 1}
  <2>1. drains' = IF queue' = <<>> THEN 0 ELSE 1
    BY <1>1
  <2> QED BY <2>1
<1>9. past' = past
  BY <1>1
<1> HIDE DEF again, tasks
<1> QED BY <1>2, <1>6, <1>7, <1>8, <1>9

(* The report an event starts.                                             *)
EventReport(k, kind) ==
  IF kind = "exit" THEN Report(k, "exit", "start") ELSE Report(k, "close", "decide")

LEMMA EventTypes ==
  ASSUME Typed, NEW k \in Kids, NEW kind \in EventT \cup {"exit"}, childEvent(k, kind)
  PROVE  /\ meta' \in [Kids -> MetaT]
         /\ running' \in SUBSET Kids
         /\ drains' \in 0 .. MaxRunning
         /\ \A r \in reports' : IsReport(r)
<1>1. meta' \in [Kids -> MetaT]
  <2>1. (meta[k].task /\ ~TaskTaken(k, kind)) \in BOOLEAN
    OBVIOUS
  <2>2. meta' = meta \/ meta' = [meta EXCEPT ![k].task = meta[k].task /\ ~TaskTaken(k, kind)]
    BY DEF childEvent
  <2>t. meta[k] \in MetaT
    BY DEF Typed
  <2>3. [meta[k] EXCEPT !.task = meta[k].task /\ ~TaskTaken(k, kind)] \in MetaT
    BY <2>1, <2>t DEF MetaT
  <2> QED BY <2>1, <2>2, <2>3 DEF Typed
<1>2. running' \in {running, running \ {k}} /\ drains' \in {drains, Another(drains)}
  BY DEF childEvent, GoDrain
<1>3. \/ reports' = reports
      \/ \E m : reports' = reports \cup {[EventReport(k, kind) EXCEPT !.n = m]}
  BY DEF childEvent, EventReport, More
<1>4. ASSUME NEW m PROVE IsReport([EventReport(k, kind) EXCEPT !.n = m])
  <2>1. IsReport(EventReport(k, kind))
    BY ReportTyped DEF EventReport, Typed
  <2> QED BY <2>1, ReportSets
<1> QED BY <1>1, <1>2, <1>3, <1>4, AnotherTyped DEF Typed

LEMMA FailedTypes ==
  ASSUME Typed, NEW k \in Kids, LaunchFailed(k)
  PROVE  meta' \in [Kids -> MetaT] /\ \A r \in reports' : IsReport(r)
<1>1. IsReport(Report(k, "unstarted", "tell"))
  BY ReportTyped DEF Typed
<1>2. \/ meta' = [meta EXCEPT ![k] = NoMeta] /\ reports' = reports
      \/ /\ meta' = [meta EXCEPT ![k] = [meta[k] EXCEPT !.ended = "error", !.task = FALSE]]
         /\ reports' = reports \cup {Report(k, "unstarted", "tell")}
      \/ meta' = meta /\ reports' = reports
  BY DEF LaunchFailed, EndUnstarted
<1>3. meta[k] \in MetaT /\ [meta[k] EXCEPT !.ended = "error", !.task = FALSE] \in MetaT
  BY DEF MetaT, Typed
<1> QED BY <1>1, <1>2, <1>3, NothingTyped DEF Typed

LEMMA LaunchStartsTyped ==
  ASSUME Typed, NEW k \in Kids, LaunchStarts(k)
  PROVE  Typed'
<1>u. UNCHANGED <<serve, meta, queue, running, stray, out, file, drains, reports,
                freeing, waiting, sending, waitStops, withdrawing, owed,
                told, past, budget>>
  BY DEF LaunchStarts, disk
<1>1. (kids \in [Kids -> KidT])'
  <2>1. kids \in [Kids -> KidT] /\ kids[k] \in KidT
    BY DEF Typed
  <2>2. [kids[k] EXCEPT !.pc = "check"] \in KidT
    BY <2>1 DEF KidT
  <2>3. kids' \in {[kids EXCEPT ![k] = [kids[k] EXCEPT !.pc = "check"]]}
    BY <2>1 DEF LaunchStarts
  <2> QED BY <2>2, <2>1, <2>3
<1>2. (proc \in [Kids -> ProcT])'
  BY NothingTyped DEF LaunchStarts, Typed
<1> QED BY <1>u, <1>1, <1>2 DEF Typed

LEMMA LaunchAbandonsTyped ==
  ASSUME Typed, NEW k \in Kids, LaunchAbandons(k)
  PROVE  Typed'
<1>u. UNCHANGED <<serve, queue, proc, stray, out, file, freeing, waiting,
                sending, waitStops, withdrawing, owed, told, past>>
  BY DEF LaunchAbandons, process
<1>1. (kids \in [Kids -> KidT])'
  BY NothingTyped DEF LaunchAbandons, Typed
<1>2. (running \in SUBSET Kids)'
  BY DEF LaunchAbandons, Typed, GiveSlot
<1>3. (drains \in 0 .. MaxRunning)'
  BY AnotherTyped DEF LaunchAbandons, Typed, GiveSlot, GoDrain
<1>4. (meta \in [Kids -> MetaT])'
  BY FailedTypes DEF LaunchAbandons
<1>5. (\A q \in reports : IsReport(q))'
  BY FailedTypes DEF LaunchAbandons
<1>6. (budget \in [Whats -> Nat])'
  BY Spending DEF LaunchAbandons, Typed, Whats
<1> QED BY <1>u, <1>1, <1>2, <1>3, <1>4, <1>5, <1>6 DEF Typed

LEMMA LaunchChecksTyped ==
  ASSUME Typed, NEW k \in Kids, LaunchChecks(k)
  PROVE  Typed'
<1>u. UNCHANGED <<serve, queue, running, stray, out, file, reports, freeing,
                sending, waitStops, withdrawing, owed, told, past, budget>>
  BY DEF LaunchChecks
<1>1. (meta \in [Kids -> MetaT])'
  <2>1. meta \in [Kids -> MetaT] /\ meta[k] \in MetaT
    BY DEF Typed
  <2>2. [meta[k] EXCEPT !.task = FALSE] \in MetaT
    BY <2>1 DEF MetaT
  <2>3. meta' \in {[meta EXCEPT ![k] = [meta[k] EXCEPT !.task = FALSE]],
                 meta}
    BY <2>1 DEF LaunchChecks
  <2> QED BY <2>2, <2>1, <2>3
<1>2. (kids \in [Kids -> KidT])'
  <2>1. kids \in [Kids -> KidT] /\ kids[k] \in KidT
    BY DEF Typed
  <2>2. [kids[k] EXCEPT !.pc = "wait", !.dying = TRUE] \in KidT
    BY <2>1 DEF KidT
  <2>3. [kids[k] EXCEPT !.pc = "prompt"] \in KidT
    BY <2>1 DEF KidT
  <2>4. [kids[k] EXCEPT !.pc = "up"] \in KidT
    BY <2>1 DEF KidT
  <2>5. kids' \in {[kids EXCEPT ![k] = [kids[k] EXCEPT !.pc = "wait", !.dying = TRUE]],
                 [kids EXCEPT ![k] = [kids[k] EXCEPT !.pc = "prompt"]],
                 [kids EXCEPT ![k] = [kids[k] EXCEPT !.pc = "up"]]}
    BY <2>1 DEF LaunchChecks
  <2> QED BY <2>2, <2>3, <2>4, <2>1, <2>5
<1>3. (proc \in [Kids -> ProcT])'
  <2>1. Killed(proc[k]) \in ProcT
    BY KilledTyped DEF Typed
  <2>2. proc' \in {proc, [proc EXCEPT ![k] = Killed(proc[k])]}
    BY DEF LaunchChecks
  <2> QED BY <2>1, <2>2 DEF Typed
<1>4. (waiting \in SUBSET Kids)'
  BY DEF LaunchChecks, Typed
<1>5. (drains \in 0 .. MaxRunning)'
  <2>1. drains' \in {Another(drains), drains}
    BY DEF LaunchChecks
  <2> QED BY <2>1, AnotherTyped DEF Typed
<1> QED BY <1>u, <1>1, <1>2, <1>3, <1>4, <1>5 DEF Typed

LEMMA LaunchPromptsTyped ==
  ASSUME Typed, NEW k \in Kids, LaunchPrompts(k)
  PROVE  Typed'
<1>u. UNCHANGED <<serve, meta, queue, stray, out, file, reports, freeing,
                waiting, sending, waitStops, withdrawing, owed, told, past,
                budget>>
  BY DEF LaunchPrompts, disk
<1>1. (kids \in [Kids -> KidT])'
  <2>1. kids \in [Kids -> KidT] /\ kids[k] \in KidT
    BY DEF Typed
  <2>2. [kids[k] EXCEPT !.pc = "up", !.unread = TRUE] \in KidT
    BY <2>1 DEF KidT
  <2>3. [kids[k] EXCEPT !.pc = "wait", !.startFailed = TRUE, !.dying = TRUE] \in KidT
    BY <2>1 DEF KidT
  <2>4. kids' \in {[kids EXCEPT ![k] = [kids[k] EXCEPT !.pc = "up", !.unread = TRUE]],
                 [kids EXCEPT ![k] = [kids[k] EXCEPT !.pc = "wait", !.startFailed = TRUE, !.dying = TRUE]]}
    BY <2>1 DEF LaunchPrompts
  <2> QED BY <2>2, <2>3, <2>1, <2>4
<1>2. (proc \in [Kids -> ProcT])'
  <2>1. "task" \in LineT /\ "msg" \in LineT
    BY DEF LineT
  <2>2. proc[k] \in ProcT /\ proc[k].pipe \in Seq(LineT)
    BY DEF Typed, ProcT
  <2>3. ASSUME NEW x \in LineT
        PROVE  [proc[k] EXCEPT !.pipe = Append(proc[k].pipe, x)] \in ProcT
    BY <2>2 DEF ProcT
  <2>4. \/ proc' = proc
        \/ \E x \in LineT :
             proc' = [proc EXCEPT ![k] = [proc[k] EXCEPT !.pipe = Append(proc[k].pipe, x)]]
    BY <2>1 DEF LaunchPrompts
  <2> QED BY <2>3, <2>4 DEF Typed
<1>3. (running \in SUBSET Kids)'
  BY DEF LaunchPrompts, Typed
<1>4. (drains \in 0 .. MaxRunning)'
  BY AnotherTyped DEF LaunchPrompts, Typed, GoDrain
<1> QED BY <1>u, <1>1, <1>2, <1>3, <1>4 DEF Typed

LEMMA FreeLooksTyped ==
  ASSUME Typed, NEW k \in Kids, FreeLooks(k)
  PROVE  Typed'
<1>u. UNCHANGED <<serve, meta, queue, running, kids, proc, stray, out, file,
                drains, reports, sending, waitStops, withdrawing, owed,
                told, past, budget>>
  BY DEF FreeLooks, disk, process
<1>1. (waiting \in SUBSET Kids)'
  BY DEF FreeLooks, Typed
<1>2. (freeing \in SUBSET Kids)'
  BY DEF FreeLooks, Typed
<1> QED BY <1>u, <1>1, <1>2 DEF Typed

LEMMA FreeGivesTyped ==
  ASSUME Typed, NEW k \in Kids, FreeGives(k)
  PROVE  Typed'
<1>u. UNCHANGED <<serve, queue, kids, proc, stray, out, file, reports, waiting,
                sending, waitStops, withdrawing, owed, told, past, budget>>
  BY DEF FreeGives, process
<1>1. (freeing \in SUBSET Kids)'
  BY DEF FreeGives, Typed
<1>2. (running \in SUBSET Kids)'
  BY DEF FreeGives, Typed, GiveSlot
<1>3. (drains \in 0 .. MaxRunning)'
  BY AnotherTyped DEF FreeGives, Typed, GiveSlot, GoDrain
<1>4. (meta \in [Kids -> MetaT])'
  <2>1. (meta[k].task /\ ~historyExists(k)) \in BOOLEAN
    OBVIOUS
  <2>2. meta \in [Kids -> MetaT] /\ meta[k] \in MetaT
    BY DEF Typed
  <2>3. [meta[k] EXCEPT !.task = meta[k].task /\ ~historyExists(k)] \in MetaT
    BY <2>1, <2>2 DEF MetaT
  <2>4. meta' \in {[meta EXCEPT ![k] = [meta[k] EXCEPT !.task = meta[k].task /\ ~historyExists(k)]]}
    BY <2>2 DEF FreeGives
  <2> QED BY <2>1, <2>3, <2>2, <2>4
<1> QED BY <1>u, <1>1, <1>2, <1>3, <1>4 DEF Typed

LEMMA ReadEventTyped ==
  ASSUME Typed, NEW k \in Kids, ReadEvent(k)
  PROVE  Typed'
<1>u. UNCHANGED <<serve, queue, stray, file, freeing, waiting, sending,
                waitStops, withdrawing, owed, told, past, budget>>
  BY DEF ReadEvent
<1>1. (kids \in [Kids -> KidT])'
  <2>1. (kids[k].signalled \/ kids[k].held) \in BOOLEAN
    OBVIOUS
  <2>2. kids \in [Kids -> KidT] /\ kids[k] \in KidT
    BY DEF Typed
  <2>3. [kids[k] EXCEPT !.unread = FALSE, !.inTurn = TRUE, !.held = FALSE,
                    !.signalled = kids[k].signalled \/ kids[k].held] \in KidT
    BY <2>1, <2>2 DEF KidT
  <2>4. [kids[k] EXCEPT !.inTurn = FALSE] \in KidT
    BY <2>1, <2>2 DEF KidT
  <2>5. kids' \in {[kids EXCEPT ![k] = [kids[k] EXCEPT !.unread = FALSE, !.inTurn = TRUE, !.held = FALSE,
                    !.signalled = kids[k].signalled \/ kids[k].held]],
                 [kids EXCEPT ![k] = [kids[k] EXCEPT !.inTurn = FALSE]]}
    BY <2>2 DEF ReadEvent, Release
  <2> QED BY <2>1, <2>3, <2>4, <2>2, <2>5
<1>2. (proc \in [Kids -> ProcT])'
  <2>1. (proc[k].int \/ (kids[k].held /\ Alive(proc[k]))) \in BOOLEAN
    OBVIOUS
  <2>2. proc \in [Kids -> ProcT] /\ proc[k] \in ProcT
    BY DEF Typed
  <2>3. [proc[k] EXCEPT !.int = proc[k].int \/ (kids[k].held /\ Alive(proc[k]))] \in ProcT
    BY <2>1, <2>2 DEF ProcT
  <2>4. proc' \in {[proc EXCEPT ![k] = [proc[k] EXCEPT !.int = proc[k].int \/ (kids[k].held /\ Alive(proc[k]))]],
                 proc}
    BY <2>2 DEF ReadEvent, Release
  <2> QED BY <2>1, <2>3, <2>2, <2>4
<1>3. (meta \in [Kids -> MetaT])'
  <2>1. Head(out[k]) \in EventT \cup {"exit"}
    BY DEF ReadEvent, Typed
  <2> QED BY <2>1, EventTypes DEF ReadEvent
<1>4. (running \in SUBSET Kids)'
  <2>1. Head(out[k]) \in EventT \cup {"exit"}
    BY DEF ReadEvent, Typed
  <2> QED BY <2>1, EventTypes DEF ReadEvent
<1>5. (drains \in 0 .. MaxRunning)'
  <2>1. Head(out[k]) \in EventT \cup {"exit"}
    BY DEF ReadEvent, Typed
  <2> QED BY <2>1, EventTypes DEF ReadEvent
<1>6. (\A q \in reports : IsReport(q))'
  <2>1. Head(out[k]) \in EventT \cup {"exit"}
    BY DEF ReadEvent, Typed
  <2> QED BY <2>1, EventTypes DEF ReadEvent
<1>7. (out \in [Kids -> Seq(EventT)])'
  BY DEF ReadEvent, Typed
<1> QED BY <1>u, <1>1, <1>2, <1>3, <1>4, <1>5, <1>6, <1>7 DEF Typed

LEMMA ReapTyped ==
  ASSUME Typed, NEW k \in Kids, Reap(k)
  PROVE  Typed'
<1>u. UNCHANGED <<serve, queue, proc, stray, out, file, freeing, waiting,
                sending, waitStops, withdrawing, owed, told, past, budget>>
  BY DEF Reap, process
<1>1. (kids \in [Kids -> KidT])'
  <2>1. kids \in [Kids -> KidT] /\ kids[k] \in KidT
    BY DEF Typed
  <2>2. [kids[k] EXCEPT !.inTurn = FALSE, !.exited = TRUE] \in KidT
    BY <2>1 DEF KidT
  <2>3. kids' \in {[kids EXCEPT ![k] = [kids[k] EXCEPT !.inTurn = FALSE, !.exited = TRUE]]}
    BY <2>1 DEF Reap
  <2> QED BY <2>2, <2>1, <2>3
<1>2. (meta \in [Kids -> MetaT])'
  BY EventTypes DEF Reap
<1>3. (running \in SUBSET Kids)'
  BY EventTypes DEF Reap
<1>4. (drains \in 0 .. MaxRunning)'
  BY EventTypes DEF Reap
<1>5. (\A q \in reports : IsReport(q))'
  BY EventTypes DEF Reap
<1> QED BY <1>u, <1>1, <1>2, <1>3, <1>4, <1>5 DEF Typed

LEMMA DropTyped ==
  ASSUME Typed, NEW k \in Kids, Drop(k)
  PROVE  Typed'
<1>u. UNCHANGED <<serve, queue, stray, out, file, freeing, waiting, sending,
                waitStops, withdrawing, owed, told, past, budget>>
  BY DEF Drop
<1>1. (kids \in [Kids -> KidT])'
  BY NothingTyped DEF Drop, Typed
<1>2. (proc \in [Kids -> ProcT])'
  BY NothingTyped DEF Drop, Typed
<1>3. (meta \in [Kids -> MetaT])'
  <2>1. CASE kids[k].startFailed
    BY <2>1, FailedTypes DEF Drop
  <2>2. CASE ~kids[k].startFailed
    BY <2>2 DEF Drop, Typed
  <2> QED BY <2>1, <2>2
<1>4. (\A q \in reports : IsReport(q))'
  <2>1. CASE kids[k].startFailed
    BY <2>1, FailedTypes DEF Drop
  <2>2. CASE ~kids[k].startFailed
    BY <2>2 DEF Drop, Typed
  <2> QED BY <2>1, <2>2
<1>5. (running \in SUBSET Kids)'
  BY DEF Drop, Typed
<1>6. (drains \in 0 .. MaxRunning)'
  BY AnotherTyped DEF Drop, Typed, GoDrain
<1> QED BY <1>u, <1>1, <1>2, <1>3, <1>4, <1>5, <1>6 DEF Typed

LEMMA HoldExpiresTyped ==
  ASSUME Typed, NEW k \in Kids, HoldExpires(k)
  PROVE  Typed'
<1>u. UNCHANGED <<serve, meta, queue, running, stray, out, file, drains, reports,
                freeing, waiting, sending, waitStops, withdrawing, owed,
                told, past, budget>>
  BY DEF HoldExpires, disk
<1>1. (kids \in [Kids -> KidT])'
  <2>1. kids \in [Kids -> KidT] /\ kids[k] \in KidT
    BY DEF Typed
  <2>2. [kids[k] EXCEPT !.held = FALSE, !.signalled = TRUE] \in KidT
    BY <2>1 DEF KidT
  <2>3. kids' \in {[kids EXCEPT ![k] = [kids[k] EXCEPT !.held = FALSE, !.signalled = TRUE]]}
    BY <2>1 DEF HoldExpires
  <2> QED BY <2>2, <2>1, <2>3
<1>2. (proc \in [Kids -> ProcT])'
  <2>1. (proc[k].int \/ Alive(proc[k])) \in BOOLEAN
    OBVIOUS
  <2>2. proc \in [Kids -> ProcT] /\ proc[k] \in ProcT
    BY DEF Typed
  <2>3. [proc[k] EXCEPT !.int = proc[k].int \/ Alive(proc[k])] \in ProcT
    BY <2>1, <2>2 DEF ProcT
  <2>4. proc' \in {[proc EXCEPT ![k] = [proc[k] EXCEPT !.int = proc[k].int \/ Alive(proc[k])]]}
    BY <2>2 DEF HoldExpires
  <2> QED BY <2>1, <2>3, <2>2, <2>4
<1> QED BY <1>u, <1>1, <1>2 DEF Typed

LEMMA CreateChildTyped ==
  ASSUME Typed, NEW k \in Kids, NEW prompt \in BOOLEAN, CreateChild(k, prompt)
  PROVE  Typed'
<1>u. UNCHANGED <<serve, proc, stray, out, file, reports, freeing, waiting,
                sending, waitStops, withdrawing, owed, told>>
  BY DEF CreateChild, process
<1>1. (past \in PastT)'
  <2>1. k \in 0 .. NKids
    BY SomeKids DEF Kids
  <2>2. ASSUME NEW c \in PastT PROVE [c EXCEPT !.spawned = k] \in PastT
    BY <2>1 DEF PastT
  <2> QED BY <2>2 DEF CreateChild, Typed
<1>2. (meta \in [Kids -> MetaT])'
  <2>1. Waits \in BOOLEAN
    BY DEF Waits
  <2>2. [NoMeta EXCEPT !.here = TRUE, !.task = TRUE, !.prompt = prompt,
                       !.queued = Waits] \in MetaT
    <3> HIDE DEF Waits
    <3> QED BY <2>1, NothingTyped DEF MetaT
  <2> QED BY <2>2 DEF CreateChild, Typed
<1>3. (queue \in Seq(Kids))'
  <2>1. queue' \in {queue, Append(queue, k)}
    BY DEF CreateChild
  <2>2. Append(queue, k) \in Seq(Kids)
    BY Appended DEF Typed
  <2> QED BY <2>1, <2>2 DEF Typed
<1>4. (drains \in 0 .. MaxRunning)'
  BY AnotherTyped DEF CreateChild, Typed, GoDrain
<1>5. (running \in SUBSET Kids)'
  BY DEF CreateChild, Typed
<1>6. (kids \in [Kids -> KidT])'
  <2>1. newChild("exec", "create", prompt) \in KidT
    BY NewTyped
  <2> QED BY <2>1 DEF CreateChild, Typed
<1>7. (budget \in [Whats -> Nat])'
  <2>1. Spend("kids") \/ Spend("rooms")
    BY DEF CreateChild
  <2> QED BY <2>1, Spending DEF Typed, Whats
<1> QED BY <1>u, <1>1, <1>2, <1>3, <1>4, <1>5, <1>6, <1>7 DEF Typed

LEMMA SendStartsTyped ==
  ASSUME Typed, NEW k \in Kids, SendStarts(k)
  PROVE  Typed'
<1>u. UNCHANGED <<serve, meta, queue, running, stray, out, file, drains, reports,
                freeing, waiting, waitStops, withdrawing, owed, told>>
  BY DEF SendStarts, disk
<1>1. (kids \in [Kids -> KidT])'
  <2>1. newChild("up", "ensure", FALSE) \in KidT
    BY NewTyped
  <2> QED BY <2>1 DEF SendStarts, Typed
<1>2. (proc \in [Kids -> ProcT])'
  BY NothingTyped DEF SendStarts, Typed
<1>3. (sending \in [Kids -> {"no", "take", "took", "write"}])'
  BY DEF SendStarts, Typed
<1>4. (past \in PastT)'
  BY DEF SendStarts, Typed, PastT
<1>5. (budget \in [Whats -> Nat])'
  BY Spending DEF SendStarts, Typed, Whats
<1> QED BY <1>u, <1>1, <1>2, <1>3, <1>4, <1>5 DEF Typed

LEMMA SendTakesTyped ==
  ASSUME Typed, NEW k \in Kids, SendTakes(k)
  PROVE  Typed'
<1>u. UNCHANGED <<serve, meta, queue, kids, proc, stray, out, file, drains,
                reports, freeing, waiting, waitStops, withdrawing, owed,
                told, past, budget>>
  BY DEF SendTakes, disk, process
<1>1. (running \in SUBSET Kids)'
  BY DEF SendTakes, Typed
<1>2. (sending \in [Kids -> {"no", "take", "took", "write"}])'
  BY DEF SendTakes, Typed
<1> QED BY <1>u, <1>1, <1>2 DEF Typed

LEMMA SendWritesTyped ==
  ASSUME Typed, NEW k \in Kids, SendWrites(k)
  PROVE  Typed'
<1>u. UNCHANGED <<serve, meta, queue, stray, out, file, reports, freeing,
                waiting, waitStops, withdrawing, owed, told, budget>>
  BY DEF SendWrites, disk
<1>1. (sending \in [Kids -> {"no", "take", "took", "write"}])'
  BY DEF SendWrites, Typed
<1>2. (past \in PastT)'
  BY DEF SendWrites, Typed, PastT
<1>3. (kids \in [Kids -> KidT])'
  <2>1. kids \in [Kids -> KidT] /\ kids[k] \in KidT
    BY DEF Typed
  <2>2. [kids[k] EXCEPT !.unread = TRUE] \in KidT
    BY <2>1 DEF KidT
  <2>3. kids' \in {[kids EXCEPT ![k] = [kids[k] EXCEPT !.unread = TRUE]],
                 kids}
    BY <2>1 DEF SendWrites
  <2> QED BY <2>2, <2>1, <2>3
<1>4. (proc \in [Kids -> ProcT])'
  <2>1. "task" \in LineT /\ "msg" \in LineT
    BY DEF LineT
  <2>2. proc[k] \in ProcT /\ proc[k].pipe \in Seq(LineT)
    BY DEF Typed, ProcT
  <2>3. ASSUME NEW x \in LineT
        PROVE  [proc[k] EXCEPT !.pipe = Append(proc[k].pipe, x)] \in ProcT
    BY <2>2 DEF ProcT
  <2>4. \/ proc' = proc
        \/ \E x \in LineT :
             proc' = [proc EXCEPT ![k] = [proc[k] EXCEPT !.pipe = Append(proc[k].pipe, x)]]
    BY <2>1 DEF SendWrites
  <2> QED BY <2>3, <2>4 DEF Typed
<1>5. (running \in SUBSET Kids)'
  BY DEF SendWrites, Typed, GiveSlot
<1>6. (drains \in 0 .. MaxRunning)'
  BY AnotherTyped DEF SendWrites, Typed, GiveSlot, GoDrain
<1> QED BY <1>u, <1>1, <1>2, <1>3, <1>4, <1>5, <1>6 DEF Typed

LEMMA stopChildTyped ==
  ASSUME Typed, NEW k \in Kids, stopChild(k)
  PROVE  Typed'
<1>u. UNCHANGED <<serve, running, stray, out, file, drains, reports, freeing,
                waiting, sending, withdrawing, owed, told>>
  BY DEF stopChild
<1>1. (queue \in Seq(Kids))'
  <2>1. CASE StopDrops(k)
    BY <2>1, NothingTyped, Removed DEF StopDrops, Typed
  <2>2. CASE StopBooting(k)
    BY <2>2 DEF StopBooting, Typed
  <2>3. CASE StopPending(k)
    BY <2>3, KilledTyped DEF StopPending, Typed
  <2>4. CASE StopTurn(k)
    BY <2>4 DEF StopTurn, Interrupt, Typed
  <2> QED BY <2>1, <2>2, <2>3, <2>4 DEF stopChild
<1>2. (meta \in [Kids -> MetaT])'
  <2>1. CASE StopDrops(k)
    BY <2>1, NothingTyped, Removed DEF StopDrops, Typed
  <2>2. CASE StopBooting(k)
    BY <2>2 DEF StopBooting, Typed
  <2>3. CASE StopPending(k)
    BY <2>3, KilledTyped DEF StopPending, Typed
  <2>4. CASE StopTurn(k)
    BY <2>4 DEF StopTurn, Interrupt, Typed
  <2> QED BY <2>1, <2>2, <2>3, <2>4 DEF stopChild
<1>3. (kids \in [Kids -> KidT])'
  <2>1. kids \in [Kids -> KidT] /\ kids[k] \in KidT
    BY DEF Typed
  <2>2. [kids[k] EXCEPT !.stopReq = TRUE] \in KidT
    BY <2>1 DEF KidT
  <2>3. [kids[k] EXCEPT !.stopReq = TRUE, !.dying = TRUE] \in KidT
    BY <2>1 DEF KidT
  <2>4. [kids[k] EXCEPT !.held = TRUE] \in KidT
    BY <2>1 DEF KidT
  <2>5. [kids[k] EXCEPT !.signalled = TRUE] \in KidT
    BY <2>1 DEF KidT
  <2>6. kids' \in {[kids EXCEPT ![k] = [kids[k] EXCEPT !.stopReq = TRUE]],
                 [kids EXCEPT ![k] = [kids[k] EXCEPT !.stopReq = TRUE, !.dying = TRUE]],
                 [kids EXCEPT ![k] = [kids[k] EXCEPT !.held = TRUE]],
                 [kids EXCEPT ![k] = [kids[k] EXCEPT !.signalled = TRUE]],
                 kids}
    BY <2>1 DEF stopChild, StopDrops, StopBooting, StopPending,
        StopTurn, Interrupt
  <2> QED BY <2>2, <2>3, <2>4, <2>5, <2>1, <2>6
<1>4. (proc \in [Kids -> ProcT])'
  <2>1. Killed(proc[k]) \in ProcT
    BY KilledTyped DEF Typed
  <2>2. (proc[k].int \/ Alive(proc[k])) \in BOOLEAN
    OBVIOUS
  <2>t. proc[k] \in ProcT
    BY DEF Typed
  <2>3. [proc[k] EXCEPT !.int = proc[k].int \/ Alive(proc[k])] \in ProcT
    BY <2>2, <2>t DEF ProcT
  <2>4. proc' \in {proc, [proc EXCEPT ![k] = Killed(proc[k])],
            [proc EXCEPT ![k] = [proc[k] EXCEPT !.int = proc[k].int \/ Alive(proc[k])]]}
    BY DEF stopChild, StopDrops, StopBooting, StopPending, StopTurn, Interrupt
  <2> QED BY <2>1, <2>3, <2>4 DEF Typed
<1>5. (waitStops \in SUBSET Kids)'
  <2>1. CASE StopDrops(k)
    BY <2>1, NothingTyped, Removed DEF StopDrops, Typed
  <2>2. CASE StopBooting(k)
    BY <2>2 DEF StopBooting, Typed
  <2>3. CASE StopPending(k)
    BY <2>3, KilledTyped DEF StopPending, Typed
  <2>4. CASE StopTurn(k)
    BY <2>4 DEF StopTurn, Interrupt, Typed
  <2> QED BY <2>1, <2>2, <2>3, <2>4 DEF stopChild
<1>6. (past \in PastT)'
  <2>1. CASE StopDrops(k)
    BY <2>1, NothingTyped, Removed DEF StopDrops, Typed
  <2>2. CASE StopBooting(k)
    BY <2>2 DEF StopBooting, Typed, PastT
  <2>3. CASE StopPending(k)
    BY <2>3, KilledTyped DEF StopPending, Typed, PastT
  <2>4. CASE StopTurn(k)
    BY <2>4 DEF StopTurn, Interrupt, Typed
  <2> QED BY <2>1, <2>2, <2>3, <2>4 DEF stopChild
<1>7. (budget \in [Whats -> Nat])'
  BY Spending DEF stopChild, Typed, Whats
<1> QED BY <1>u, <1>1, <1>2, <1>3, <1>4, <1>5, <1>6, <1>7 DEF Typed

LEMMA WithdrawChildTyped ==
  ASSUME Typed, NEW k \in Kids, WithdrawChild(k)
  PROVE  Typed'
<1>u. UNCHANGED <<serve, kids, proc, stray, out, file, drains, reports, freeing,
                waiting, sending, waitStops, owed, told>>
  BY DEF WithdrawChild, process
<1>1. (queue \in Seq(Kids))'
  BY Unqueuing DEF WithdrawChild, Typed
<1>2. (meta \in [Kids -> MetaT])'
  BY NothingTyped DEF WithdrawChild, Typed
<1>3. (running \in SUBSET Kids)'
  BY DEF WithdrawChild, Typed
<1>4. (withdrawing \in SUBSET Kids)'
  BY DEF WithdrawChild, Typed
<1>5. (past \in PastT)'
  <2>1. OnTheWay(k) \in SUBSET Nat
    BY DEF OnTheWay, Typed, IsReport
  <2> QED BY <2>1 DEF WithdrawChild, Typed, PastT
<1>6. (budget \in [Whats -> Nat])'
  BY Spending DEF WithdrawChild, Typed, Whats
<1> QED BY <1>u, <1>1, <1>2, <1>3, <1>4, <1>5, <1>6 DEF Typed

LEMMA WithdrawKillsTyped ==
  ASSUME Typed, NEW k \in Kids, WithdrawKills(k)
  PROVE  Typed'
<1>u. UNCHANGED <<serve, meta, queue, running, stray, out, file, drains, reports,
                freeing, waiting, sending, waitStops, withdrawing, owed,
                told, past, budget>>
  BY DEF WithdrawKills, disk
<1>1. (kids \in [Kids -> KidT])'
  <2>1. kids \in [Kids -> KidT] /\ kids[k] \in KidT
    BY DEF Typed
  <2>2. [kids[k] EXCEPT !.dying = TRUE] \in KidT
    BY <2>1 DEF KidT
  <2>3. kids' \in {[kids EXCEPT ![k] = [kids[k] EXCEPT !.dying = TRUE]]}
    BY <2>1 DEF WithdrawKills, Kill
  <2> QED BY <2>2, <2>1, <2>3
<1>2. (proc \in [Kids -> ProcT])'
  <2>1. Killed(proc[k]) \in ProcT
    BY KilledTyped DEF Typed
  <2>2. proc' \in {proc, [proc EXCEPT ![k] = Killed(proc[k])]}
    BY DEF WithdrawKills, Kill
  <2> QED BY <2>1, <2>2 DEF Typed
<1> QED BY <1>u, <1>1, <1>2 DEF Typed

LEMMA WithdrawEndsTyped ==
  ASSUME Typed, NEW k \in Kids, WithdrawEnds(k)
  PROVE  Typed'
<1>u. UNCHANGED <<serve, meta, queue, running, kids, proc, stray, out, reports,
                freeing, waiting, sending, waitStops, owed, told, past,
                budget>>
  BY DEF WithdrawEnds, process
<1>1. (withdrawing \in SUBSET Kids)'
  BY DEF WithdrawEnds, Typed
<1>2. (file \in [Kids -> Seq(EntryT)])'
  BY DEF WithdrawEnds, Typed
<1>3. (drains \in 0 .. MaxRunning)'
  BY AnotherTyped DEF WithdrawEnds, Typed, GoDrain
<1> QED BY <1>u, <1>1, <1>2, <1>3 DEF Typed

LEMMA CloseKillsTyped ==
  ASSUME Typed, NEW k \in Kids, CloseKills(k)
  PROVE  Typed'
<1>u. UNCHANGED <<serve, meta, queue, running, stray, out, file, drains, reports,
                freeing, waiting, sending, waitStops, withdrawing, owed,
                told, past, budget>>
  BY DEF CloseKills, disk
<1>1. (kids \in [Kids -> KidT])'
  <2>1. kids \in [Kids -> KidT] /\ kids[k] \in KidT
    BY DEF Typed
  <2>2. [kids[k] EXCEPT !.dying = TRUE] \in KidT
    BY <2>1 DEF KidT
  <2>3. kids' \in {[kids EXCEPT ![k] = [kids[k] EXCEPT !.dying = TRUE]]}
    BY <2>1 DEF CloseKills, Kill
  <2> QED BY <2>2, <2>1, <2>3
<1>2. (proc \in [Kids -> ProcT])'
  <2>1. Killed(proc[k]) \in ProcT
    BY KilledTyped DEF Typed
  <2>2. proc' \in {proc, [proc EXCEPT ![k] = Killed(proc[k])]}
    BY DEF CloseKills, Kill
  <2> QED BY <2>1, <2>2 DEF Typed
<1> QED BY <1>u, <1>1, <1>2 DEF Typed

LEMMA ProcMovesTyped ==
  ASSUME Typed, NEW k \in Kids, ProcMoves(k)
  PROVE  Typed'
<1>u. UNCHANGED <<serve, meta, queue, running, kids, stray, drains, reports,
                freeing, waiting, sending, waitStops, withdrawing, owed,
                told, past, budget>>
  BY DEF ProcMoves, memory
<1>1. (proc \in [Kids -> ProcT])'
  <2>1. PICK o \in ProcSteps(proc[k], file[k], FALSE) :
            proc' = [proc EXCEPT ![k] = o.proc]
    BY DEF ProcMoves
  <2>2. o.proc \in ProcT
    BY <2>1, Outcomes DEF Typed
  <2> QED BY <2>1, <2>2 DEF Typed
<1>2. (file \in [Kids -> Seq(EntryT)])'
  <2>1. PICK o \in ProcSteps(proc[k], file[k], FALSE) :
            file' = [file EXCEPT ![k] = o.file]
    BY DEF ProcMoves
  <2>2. o.file \in Seq(EntryT)
    BY <2>1, Outcomes DEF Typed
  <2> QED BY <2>1, <2>2 DEF Typed
<1>3. (out \in [Kids -> Seq(EventT)])'
  <2>1. PICK o \in ProcSteps(proc[k], file[k], FALSE) :
            out' = [out EXCEPT ![k] = out[k] \o o.say]
    BY DEF ProcMoves
  <2>2. o.say \in Seq(EventT)
    BY <2>1, Outcomes DEF Typed
  <2> QED BY <2>1, <2>2 DEF Typed
<1> QED BY <1>u, <1>1, <1>2, <1>3 DEF Typed

LEMMA StrayMovesTyped ==
  ASSUME Typed, NEW k \in Kids, StrayMoves(k)
  PROVE  Typed'
<1>u. UNCHANGED <<serve, meta, queue, running, kids, proc, out, drains, reports,
                freeing, waiting, sending, waitStops, withdrawing, owed,
                told, past, budget>>
  BY DEF StrayMoves, memory
<1>1. (stray \in [Kids -> ProcT])'
  <2>1. PICK o \in ProcSteps(stray[k], file[k], TRUE) :
          /\ stray' = [stray EXCEPT ![k] = IF o.proc.st = "dead" THEN NoProc ELSE o.proc]
          /\ file' = [file EXCEPT ![k] = IF file[k] = <<>> /\ stray[k].st # "boot"
                                          THEN file[k] ELSE o.file]
    BY DEF StrayMoves
  <2>2. o.proc \in ProcT /\ o.file \in Seq(EntryT)
    BY <2>1, Outcomes DEF Typed
  <2> QED BY <2>1, <2>2, NothingTyped DEF Typed
<1>2. (file \in [Kids -> Seq(EntryT)])'
  <2>1. PICK o \in ProcSteps(stray[k], file[k], TRUE) :
          /\ stray' = [stray EXCEPT ![k] = IF o.proc.st = "dead" THEN NoProc ELSE o.proc]
          /\ file' = [file EXCEPT ![k] = IF file[k] = <<>> /\ stray[k].st # "boot"
                                          THEN file[k] ELSE o.file]
    BY DEF StrayMoves
  <2>2. o.proc \in ProcT /\ o.file \in Seq(EntryT)
    BY <2>1, Outcomes DEF Typed
  <2> QED BY <2>1, <2>2, NothingTyped DEF Typed
<1> QED BY <1>u, <1>1, <1>2 DEF Typed

LEMMA ProcDiesTyped ==
  ASSUME Typed, NEW k \in Kids, ProcDies(k)
  PROVE  Typed'
<1>u. UNCHANGED <<serve, meta, queue, running, kids, stray, out, file, drains,
                reports, freeing, waiting, sending, waitStops, withdrawing,
                owed, told, past>>
  BY DEF ProcDies, memory, disk
<1>1. (proc \in [Kids -> ProcT])'
  <2>1. Killed(proc[k]) \in ProcT
    BY KilledTyped DEF Typed
  <2>2. proc' \in {proc, [proc EXCEPT ![k] = Killed(proc[k])]}
    BY DEF ProcDies
  <2> QED BY <2>1, <2>2 DEF Typed
<1>2. (budget \in [Whats -> Nat])'
  BY Spending DEF ProcDies, Typed, Whats
<1> QED BY <1>u, <1>1, <1>2 DEF Typed

LEMMA DrainQueueTyped ==
  ASSUME Typed, DrainQueue
  PROVE  Typed'
<1>u. UNCHANGED <<serve, proc, stray, out, file, reports, freeing, waiting,
                sending, waitStops, withdrawing, owed, told, past, budget>>
  BY DEF DrainQueue, process
<1>1. (drains \in 0 .. MaxRunning)'
  BY SomeSlot DEF DrainQueue, Typed
<1>2. (queue \in Seq(Kids))'
  BY Headed DEF DrainQueue, Typed
<1>3. (meta \in [Kids -> MetaT])'
  <2>1. \/ meta' = meta
        \/ \E k \in Kids : meta' = [meta EXCEPT ![k] = [meta[k] EXCEPT !.queued = FALSE]]
    BY Headed DEF DrainQueue, Typed
  <2>2. ASSUME NEW k \in Kids PROVE [meta[k] EXCEPT !.queued = FALSE] \in MetaT
    <3>1. meta[k] \in MetaT
      BY DEF Typed
    <3> QED BY <3>1 DEF MetaT
  <2> QED BY <2>1, <2>2 DEF Typed
<1>4. (running \in SUBSET Kids)'
  BY Headed DEF DrainQueue, Typed
<1>5. (kids \in [Kids -> KidT])'
  <2>1. kids' = kids \/ \E k \in Kids :
          kids' = [kids EXCEPT ![k] = newChild("exec", "drain", meta[k].prompt)]
    BY Headed DEF DrainQueue, Typed
  <2>2. \A k \in Kids : newChild("exec", "drain", meta[k].prompt) \in KidT
    BY NewTyped DEF Typed, MetaT
  <2> QED BY <2>1, <2>2 DEF Typed
<1> QED BY <1>u, <1>1, <1>2, <1>3, <1>4, <1>5 DEF Typed

LEMMA ReportStartsTyped ==
  ASSUME Typed, NEW r \in reports, ReportStarts(r)
  PROVE  Typed'
<1>u. UNCHANGED <<serve, meta, queue, running, kids, proc, stray, out, drains,
                freeing, waiting, sending, withdrawing, owed, told, budget>>
  BY DEF ReportStarts, process
<1>1. (\A q \in reports : IsReport(q))'
  <2> DEFINE x == [r EXCEPT !.pc = "decide"]
  <2>1. reports' = (reports \ {r}) \cup {x}
    BY DEF ReportStarts
  <2>2. IsReport(x)
    BY ReportSets DEF Typed
  <2> HIDE DEF x
  <2> QED BY <2>1, <2>2 DEF Typed
<1>2. (waitStops \in SUBSET Kids)'
  BY DEF ReportStarts, Typed
<1>3. (file \in [Kids -> Seq(EntryT)] /\ past \in PastT)'
  <2>1. \A f \in Seq(EntryT) : Append(f, "cancelled") \in Seq(EntryT)
    BY DEF EntryT
  <2>2. r.k \in Kids /\ file \in [Kids -> Seq(EntryT)] /\ past \in PastT
    BY DEF Typed, IsReport
  <2>3. CASE UNCHANGED <<file, past>>
    BY <2>2, <2>3
  <2>4. CASE /\ file' = [file EXCEPT ![r.k] = Append(file[r.k], "cancelled")]
             /\ past' = [past EXCEPT !.waitEnded = past.waitEnded \cup {r.k}]
    BY <2>1, <2>2, <2>4 DEF PastT
  <2>5. CASE r.k \in waitStops /\ StatusDone(file[r.k])
    BY <2>4, <2>5 DEF ReportStarts
  <2>6. CASE ~(r.k \in waitStops /\ StatusDone(file[r.k]))
    BY <2>3, <2>6 DEF ReportStarts
  <2> QED BY <2>5, <2>6
<1> QED BY <1>u, <1>1, <1>2, <1>3 DEF Typed

LEMMA ReportDecidesTyped ==
  ASSUME Typed, NEW r \in reports, ReportDecides(r)
  PROVE  Typed'
<1>u. UNCHANGED <<serve, queue, running, kids, proc, stray, out, file, drains,
                freeing, waiting, sending, waitStops, withdrawing, owed,
                told, past, budget>>
  BY DEF ReportDecides, process
<1>1. (\A q \in reports : IsReport(q))'
  <2>1. CASE lastTurn(file[r.k]).hasEntry
    <3> DEFINE x == [r EXCEPT !.pc = "mark", !.n = 0, !.key = TurnKey(file[r.k])]
    <3>1. reports' = (reports \ {r}) \cup {x} /\ meta' = meta
      BY <2>1 DEF ReportDecides
    <3>2. TurnKey(file[r.k]) \in Nat
      <4>1. file[r.k] \in Seq(EntryT)
        BY DEF Typed, IsReport
      <4> QED BY <2>1, <4>1, TurnKeyIs, HasEntry
    <3>3. IsReport(x)
      <4> DEFINE a == [r EXCEPT !.pc = "mark"]
                 b == [a EXCEPT !.n = 0]
                 c == [b EXCEPT !.key = TurnKey(file[r.k])]
      <4>1. IsReport(a)
        BY ReportSets DEF Typed
      <4>2. IsReport(b)
        <5> HIDE DEF a
        <5> QED BY <4>1, ReportSets
      <4>3. IsReport(c)
        <5> HIDE DEF b
        <5> QED BY <4>2, <3>2, ReportSets
      <4>4. x = c
        OBVIOUS
      <4> QED BY <4>3, <4>4
    <3> HIDE DEF x
    <3> QED BY <3>1, <3>3 DEF Typed
  <2>2. CASE ~lastTurn(file[r.k]).hasEntry /\ r.trigger = "exit"
    <3> DEFINE how == IF r.stopped THEN "stopped" ELSE "error"
    <3>1. EndUnstarted(r.k, how, reports \ {r}) /\ how \in {"error", "stopped"} /\ r.k \in Kids
      BY <2>2 DEF ReportDecides, Typed, IsReport
    <3> HIDE DEF how
    <3>2. meta[r.k] \in MetaT
      BY <3>1 DEF Typed
    <3>3. [meta[r.k] EXCEPT !.ended = how, !.task = FALSE] \in MetaT
      BY <3>1, <3>2 DEF MetaT
    <3>4. IsReport(Report(r.k, "unstarted", "tell"))
      BY <3>1, ReportTyped DEF Typed
    <3>5. /\ meta' \in {meta, [meta EXCEPT ![r.k] =
                            [meta[r.k] EXCEPT !.ended = how, !.task = FALSE]]}
          /\ reports' \in {reports \ {r}, (reports \ {r}) \cup
                            {Report(r.k, "unstarted", "tell")}}
      BY <3>1, <3>2 DEF EndUnstarted
    <3> QED BY <3>1, <3>3, <3>4, <3>5 DEF Typed
  <2>3. CASE ~lastTurn(file[r.k]).hasEntry /\ r.trigger # "exit"
    BY <2>3 DEF ReportDecides, Typed
  <2> QED BY <2>1, <2>2, <2>3
<1>2. (meta \in [Kids -> MetaT])'
  <2>1. CASE lastTurn(file[r.k]).hasEntry
    <3> DEFINE x == [r EXCEPT !.pc = "mark", !.n = 0, !.key = TurnKey(file[r.k])]
    <3>1. reports' = (reports \ {r}) \cup {x} /\ meta' = meta
      BY <2>1 DEF ReportDecides
    <3>2. TurnKey(file[r.k]) \in Nat
      <4>1. file[r.k] \in Seq(EntryT)
        BY DEF Typed, IsReport
      <4> QED BY <2>1, <4>1, TurnKeyIs, HasEntry
    <3>3. IsReport(x)
      <4> DEFINE a == [r EXCEPT !.pc = "mark"]
                 b == [a EXCEPT !.n = 0]
                 c == [b EXCEPT !.key = TurnKey(file[r.k])]
      <4>1. IsReport(a)
        BY ReportSets DEF Typed
      <4>2. IsReport(b)
        <5> HIDE DEF a
        <5> QED BY <4>1, ReportSets
      <4>3. IsReport(c)
        <5> HIDE DEF b
        <5> QED BY <4>2, <3>2, ReportSets
      <4>4. x = c
        OBVIOUS
      <4> QED BY <4>3, <4>4
    <3> HIDE DEF x
    <3> QED BY <3>1, <3>3 DEF Typed
  <2>2. CASE ~lastTurn(file[r.k]).hasEntry /\ r.trigger = "exit"
    <3> DEFINE how == IF r.stopped THEN "stopped" ELSE "error"
    <3>1. EndUnstarted(r.k, how, reports \ {r}) /\ how \in {"error", "stopped"} /\ r.k \in Kids
      BY <2>2 DEF ReportDecides, Typed, IsReport
    <3> HIDE DEF how
    <3>2. meta[r.k] \in MetaT
      BY <3>1 DEF Typed
    <3>3. [meta[r.k] EXCEPT !.ended = how, !.task = FALSE] \in MetaT
      BY <3>1, <3>2 DEF MetaT
    <3>4. IsReport(Report(r.k, "unstarted", "tell"))
      BY <3>1, ReportTyped DEF Typed
    <3>5. /\ meta' \in {meta, [meta EXCEPT ![r.k] =
                            [meta[r.k] EXCEPT !.ended = how, !.task = FALSE]]}
          /\ reports' \in {reports \ {r}, (reports \ {r}) \cup
                            {Report(r.k, "unstarted", "tell")}}
      BY <3>1, <3>2 DEF EndUnstarted
    <3> QED BY <3>1, <3>3, <3>4, <3>5 DEF Typed
  <2>3. CASE ~lastTurn(file[r.k]).hasEntry /\ r.trigger # "exit"
    BY <2>3 DEF ReportDecides, Typed
  <2> QED BY <2>1, <2>2, <2>3
<1> QED BY <1>u, <1>1, <1>2 DEF Typed

LEMMA ReportMarksTyped ==
  ASSUME Typed, NEW r \in reports, ReportMarks(r)
  PROVE  Typed'
<1>u. UNCHANGED <<serve, queue, running, kids, proc, stray, out, file, drains,
                freeing, waiting, sending, waitStops, withdrawing, owed,
                told, past, budget>>
  BY DEF ReportMarks, process
<1>1. (meta \in [Kids -> MetaT])'
  <2>1. meta' = meta \/ meta' = [meta EXCEPT ![r.k].reported = r.key]
    BY DEF ReportMarks
  <2>2. r.k \in Kids /\ r.key \in Nat
    BY DEF Typed, IsReport
  <2>t. meta[r.k] \in MetaT
    BY <2>2 DEF Typed
  <2>3. [meta[r.k] EXCEPT !.reported = r.key] \in MetaT
    BY <2>2, <2>t DEF MetaT
  <2> QED BY <2>1, <2>2, <2>3 DEF Typed
<1>2. (\A q \in reports : IsReport(q))'
  <2> DEFINE x == [r EXCEPT !.pc = "tell"]
  <2>1. reports' = (reports \ {r}) \cup {x} \/ reports' = reports \ {r}
    BY DEF ReportMarks
  <2>2. IsReport(x)
    BY ReportSets DEF Typed
  <2> HIDE DEF x
  <2> QED BY <2>1, <2>2 DEF Typed
<1> QED BY <1>u, <1>1, <1>2 DEF Typed

LEMMA ReportTellsTyped ==
  ASSUME Typed, NEW r \in reports, ReportTells(r)
  PROVE  Typed'
<1>u. UNCHANGED <<serve, meta, queue, running, kids, proc, stray, out, file,
                drains, freeing, waiting, sending, waitStops, withdrawing,
                owed, past, budget>>
  BY DEF ReportTells, process
<1>1. (told \in [Kids -> Seq(Nat)])'
  BY DEF ReportTells, Typed, IsReport
<1>2. (\A q \in reports : IsReport(q))'
  BY DEF ReportTells, Typed
<1> QED BY <1>u, <1>1, <1>2 DEF Typed

LEMMA ReportOwedTyped ==
  ASSUME Typed, ReportOwed
  PROVE  Typed'
<1>u. UNCHANGED <<serve, meta, queue, running, kids, proc, stray, out, file,
                drains, freeing, waiting, sending, waitStops, withdrawing,
                told, past, budget>>
  BY DEF ReportOwed, disk, process
<1>1. (owed \in SUBSET Kids)'
  BY DEF ReportOwed, Typed
<1>2. (\A q \in reports : IsReport(q))'
  <2>1. PICK k \in Kids : k = (CHOOSE i \in owed : \A j \in owed : i <= j)
    BY OldestOwed DEF Typed, ReportOwed
  <2> DEFINE x == [Report(k, "exit", "start") EXCEPT !.stopped = FALSE]
  <2>2. reports' = reports \/ reports' = reports \cup {x}
    BY <2>1 DEF ReportOwed
  <2>3. IsReport(x)
    BY ReportTyped, ReportSets DEF Typed
  <2> HIDE DEF x
  <2> QED BY <2>2, <2>3 DEF Typed
<1> QED BY <1>u, <1>1, <1>2 DEF Typed

LEMMA CloseTyped ==
  ASSUME Typed, Close
  PROVE  Typed'
<1>u. UNCHANGED <<meta, running, kids, proc, stray, out, file, drains, reports,
                freeing, waiting, sending, waitStops, withdrawing, owed,
                told, past>>
  BY DEF Close, disk, process
<1>1. (serve \in {"up", "closing", "down"})'
  BY DEF Close, Typed
<1>2. (queue \in Seq(Kids))'
  BY DEF Close, Typed
<1>3. (budget \in [Whats -> Nat])'
  BY Spending DEF Close, Typed, Whats
<1> QED BY <1>u, <1>1, <1>2, <1>3 DEF Typed

LEMMA CloseEndsTyped ==
  ASSUME Typed, CloseEnds
  PROVE  Typed'
<1>u. UNCHANGED <<meta, proc, stray, out, file, told, budget>>
  BY DEF CloseEnds, disk, process, Forget
<1>1. (serve \in {"up", "closing", "down"})'
  BY DEF CloseEnds, Typed, Forget
<1>2. (queue \in Seq(Kids))'
  BY DEF CloseEnds, Typed, Forget
<1>3. (running \in SUBSET Kids)'
  BY DEF CloseEnds, Typed, Forget
<1>4. (drains \in 0 .. MaxRunning)'
  BY SomeSlot DEF CloseEnds, Typed, Forget
<1>5. (\A q \in reports : IsReport(q))'
  BY DEF CloseEnds, Typed, Forget
<1>6. (freeing \in SUBSET Kids)'
  BY DEF CloseEnds, Typed, Forget
<1>7. (waiting \in SUBSET Kids)'
  BY DEF CloseEnds, Typed, Forget
<1>8. (waitStops \in SUBSET Kids)'
  BY DEF CloseEnds, Typed, Forget
<1>9. (withdrawing \in SUBSET Kids)'
  BY DEF CloseEnds, Typed, Forget
<1>10. (sending \in [Kids -> {"no", "take", "took", "write"}])'
  BY DEF CloseEnds, Typed, Forget
<1>11. (owed \in SUBSET Kids)'
  BY DEF CloseEnds, Typed, Forget
<1>12. (kids \in [Kids -> KidT])'
  BY NothingTyped DEF CloseEnds, Typed, Forget
<1>13. (past \in PastT)'
  <2>1. Untold \in SUBSET Kids
    BY DEF Untold, Typed, IsReport
  <2>2. {k \in past.bootStopped : ~meta[k].task} \in SUBSET Kids
    BY DEF Typed, PastT
  <2>3. past \in PastT
    BY DEF Typed
  <2>4. PastServe \in PastT
    <3> DEFINE kept == {k \in past.bootStopped : ~meta[k].task}
    <3>1. PastServe = [past EXCEPT !.cut = past.cut \cup Untold, !.restarted = TRUE,
                                   !.bootStopped = kept]
      BY DEF PastServe
    <3>2. kept \in SUBSET Kids
      BY <2>2
    <3> HIDE DEF kept
    <3> QED BY <2>1, <2>3, <3>1, <3>2 DEF PastT
  <2> QED BY <2>4 DEF CloseEnds
<1> QED BY <1>u, <1>1, <1>2, <1>3, <1>4, <1>5, <1>6, <1>7, <1>8, <1>9, <1>10, <1>11, <1>12, <1>13 DEF Typed

LEMMA ServeCrashesTyped ==
  ASSUME Typed, ServeCrashes
  PROVE  Typed'
<1>u. UNCHANGED <<meta, file, told>>
  BY DEF ServeCrashes, disk, Forget
<1>1. (serve \in {"up", "closing", "down"})'
  BY DEF ServeCrashes, Typed, Forget
<1>2. (queue \in Seq(Kids))'
  BY DEF ServeCrashes, Typed, Forget
<1>3. (running \in SUBSET Kids)'
  BY DEF ServeCrashes, Typed, Forget
<1>4. (drains \in 0 .. MaxRunning)'
  BY SomeSlot DEF ServeCrashes, Typed, Forget
<1>5. (\A q \in reports : IsReport(q))'
  BY DEF ServeCrashes, Typed, Forget
<1>6. (freeing \in SUBSET Kids)'
  BY DEF ServeCrashes, Typed, Forget
<1>7. (waiting \in SUBSET Kids)'
  BY DEF ServeCrashes, Typed, Forget
<1>8. (waitStops \in SUBSET Kids)'
  BY DEF ServeCrashes, Typed, Forget
<1>9. (withdrawing \in SUBSET Kids)'
  BY DEF ServeCrashes, Typed, Forget
<1>10. (sending \in [Kids -> {"no", "take", "took", "write"}])'
  BY DEF ServeCrashes, Typed, Forget
<1>11. (owed \in SUBSET Kids)'
  BY DEF ServeCrashes, Typed, Forget
<1>12. (kids \in [Kids -> KidT])'
  BY NothingTyped DEF ServeCrashes, Typed, Forget
<1>13. (past \in PastT)'
  <2>1. Untold \in SUBSET Kids
    BY DEF Untold, Typed, IsReport
  <2>2. {k \in past.bootStopped : ~meta[k].task} \in SUBSET Kids
    BY DEF Typed, PastT
  <2>3. past \in PastT
    BY DEF Typed
  <2>4. PastServe \in PastT
    <3> DEFINE kept == {k \in past.bootStopped : ~meta[k].task}
    <3>1. PastServe = [past EXCEPT !.cut = past.cut \cup Untold, !.restarted = TRUE,
                                   !.bootStopped = kept]
      BY DEF PastServe
    <3>2. kept \in SUBSET Kids
      BY <2>2
    <3> HIDE DEF kept
    <3> QED BY <2>1, <2>3, <3>1, <3>2 DEF PastT
  <2>5. past' = [PastServe EXCEPT
                   !.orphans = PastServe.orphans \cup {k \in Kids : Alive(proc[k])}]
    BY DEF ServeCrashes
  <2> HIDE DEF PastServe
  <2> QED BY <2>4, <2>5 DEF PastT
<1>14. (stray \in [Kids -> ProcT])'
  BY DEF ServeCrashes, Typed
<1>15. (proc \in [Kids -> ProcT])'
  BY NothingTyped DEF ServeCrashes, Typed
<1>16. (out \in [Kids -> Seq(EventT)])'
  BY DEF ServeCrashes, Typed
<1>17. (budget \in [Whats -> Nat])'
  BY Spending DEF ServeCrashes, Typed, Whats
<1> QED BY <1>u, <1>1, <1>2, <1>3, <1>4, <1>5, <1>6, <1>7, <1>8, <1>9, <1>10, <1>11, <1>12, <1>13, <1>14, <1>15, <1>16, <1>17 DEF Typed

LEMMA NewSupervisorTyped ==
  ASSUME Typed, NewSupervisor
  PROVE  Typed'
<1>u. UNCHANGED <<running, kids, proc, stray, out, file, reports, freeing,
                waiting, sending, waitStops, withdrawing, told, past,
                budget>>
  BY DEF NewSupervisor, process
<1>1. (serve \in {"up", "closing", "down"})'
  BY DEF NewSupervisor, Typed
<1>2. (meta \in [Kids -> MetaT])'
  <2>1. \A k \in Kids : meta'[k] \in MetaT
    <3>1. ASSUME NEW k \in Kids PROVE meta'[k] \in MetaT
      <4>1. PICK b \in BOOLEAN :
              meta'[k] \in {meta[k], [meta[k] EXCEPT !.task = b, !.queued = b]}
        <5> DEFINE again == {j \in {i \in Kids : meta[i].task} : ~Spent(j)}
        <5>1. (k \in again) \in BOOLEAN
          OBVIOUS
        <5>2. meta'[k] \in {meta[k], [meta[k] EXCEPT !.task = k \in again,
                                                 !.queued = k \in again]}
          BY DEF NewSupervisor
        <5> HIDE DEF again
        <5> QED BY <5>1, <5>2
      <4>2. meta[k] \in MetaT
        BY DEF Typed
      <4>3. [meta[k] EXCEPT !.task = b, !.queued = b] \in MetaT
        BY <4>2 DEF MetaT
      <4> QED BY <4>1, <4>2, <4>3
    <3> QED BY <3>1
  <2>2. DOMAIN meta' = Kids /\ meta' = [k \in DOMAIN meta' |-> meta'[k]]
    BY DEF NewSupervisor
  <2> QED BY <2>1, <2>2
<1>3. (queue \in Seq(Kids))'
  BY NewSupervisorDoes
<1>4. (drains \in 0 .. MaxRunning)'
  BY NewSupervisorDoes, SomeSlot
<1>5. (owed \in SUBSET Kids)'
  BY DEF NewSupervisor, Typed
<1> QED BY <1>u, <1>1, <1>2, <1>3, <1>4, <1>5 DEF Typed

----------------------------------------------------------------------------
(* Every step, seen by one child.                                          *)

TypesOf(k) ==
  /\ serve \in {"up", "closing", "down"}
  /\ meta[k] \in MetaT /\ kids[k] \in KidT
  /\ proc[k] \in ProcT /\ stray[k] \in ProcT
  /\ out[k] \in Seq(EventT) /\ file[k] \in Seq(EntryT) /\ told[k] \in Seq(Nat)
  /\ sending[k] \in {"no", "take", "took", "write"}
  /\ \A r \in ReportsOf(k) : IsReport(r)
  /\ past \in PastT

LEMMA TypesOfKid ==
  ASSUME Typed, NEW k \in Kids
  PROVE  TypesOf(k)
BY DEF Typed, TypesOf, ReportsOf

LEMMA TypesOfNext ==
  ASSUME Typed', NEW k \in Kids
  PROVE  TypesOf(k)'
BY DEF Typed, TypesOf, ReportsOf

CallStep(k) ==
  \/ OnLaunchStarts(k) \/ OnLaunchAbandons(k) \/ OnLaunchChecks(k)
  \/ OnLaunchPrompts(k) \/ OnFreeLooks(k) \/ OnFreeGives(k)
  \/ OnReadEvent(k) \/ OnReap(k) \/ OnDrop(k) \/ OnHoldExpires(k)
  \/ \E prompt \in BOOLEAN : OnCreateChild(k, prompt)
  \/ OnSendStarts(k) \/ OnSendTakes(k) \/ OnSendWrites(k) \/ OnstopChild(k)
  \/ OnWithdrawChild(k) \/ OnWithdrawKills(k) \/ OnWithdrawEnds(k)
  \/ OnCloseKills(k) \/ OnProcMoves(k) \/ OnStrayMoves(k) \/ OnProcDies(k)

ReportStep(k) ==
  \E r \in ReportsOf(k) :
    StartsReport(k, r) \/ DecidesReport(k, r) \/ MarksReport(k, r) \/ TellsReport(k, r)

Step(k) ==
  \/ Same(k)
  \/ CallStep(k) \/ ReportStep(k)
  \/ StartsNext(k) \/ LooksOwed(k) \/ GivesUpOwed(k)
  \/ Closes(k) \/ Forgets(k) \/ Requeues(k)

LEMMA StepCases ==
  ASSUME Typed, InOrder, [Next]_vars, NEW j \in Kids
  PROVE  Step(j)
<1>1. CASE UNCHANGED vars
  BY <1>1 DEF vars, memory, disk, process, Step, Same, DiskKept, ProcessKept,
              MindKept, PastKept, Born, ReportsOf, InQueue
<1>2. ASSUME NEW k \in Kids, Launch(k) PROVE Step(j)
  <2>1. CASE LaunchStarts(k)
    <3>1. CASE j = k
      BY <2>1, <3>1, LaunchStartsDoes DEF Step, CallStep
    <3>2. CASE j # k
      BY <2>1, <3>2, LaunchStartsOthers DEF Step
    <3> QED BY <3>1, <3>2
  <2>2. CASE LaunchAbandons(k)
    <3>1. CASE j = k
      BY <2>2, <3>1, LaunchAbandonsDoes DEF Step, CallStep
    <3>2. CASE j # k
      BY <2>2, <3>2, LaunchAbandonsOthers DEF Step
    <3> QED BY <3>1, <3>2
  <2>3. CASE LaunchChecks(k)
    <3>1. CASE j = k
      BY <2>3, <3>1, LaunchChecksDoes DEF Step, CallStep
    <3>2. CASE j # k
      BY <2>3, <3>2, LaunchChecksOthers DEF Step
    <3> QED BY <3>1, <3>2
  <2>4. CASE LaunchPrompts(k)
    <3>1. CASE j = k
      BY <2>4, <3>1, LaunchPromptsDoes DEF Step, CallStep
    <3>2. CASE j # k
      BY <2>4, <3>2, LaunchPromptsOthers DEF Step
    <3> QED BY <3>1, <3>2
  <2>5. CASE FreeLooks(k)
    <3>1. CASE j = k
      BY <2>5, <3>1, FreeLooksDoes DEF Step, CallStep
    <3>2. CASE j # k
      BY <2>5, <3>2, FreeLooksOthers DEF Step
    <3> QED BY <3>1, <3>2
  <2>6. CASE FreeGives(k)
    <3>1. CASE j = k
      BY <2>6, <3>1, FreeGivesDoes DEF Step, CallStep
    <3>2. CASE j # k
      BY <2>6, <3>2, FreeGivesOthers DEF Step
    <3> QED BY <3>1, <3>2
  <2> QED BY <1>2, <2>1, <2>2, <2>3, <2>4, <2>5, <2>6 DEF Launch
<1>3. ASSUME NEW k \in Kids, Serve(k) PROVE Step(j)
  <2>1. CASE ReadEvent(k)
    <3>1. CASE j = k
      BY <2>1, <3>1, ReadEventDoes DEF Step, CallStep
    <3>2. CASE j # k
      BY <2>1, <3>2, ReadEventOthers DEF Step
    <3> QED BY <3>1, <3>2
  <2>2. CASE Reap(k)
    <3>1. CASE j = k
      BY <2>2, <3>1, ReapDoes DEF Step, CallStep
    <3>2. CASE j # k
      BY <2>2, <3>2, ReapOthers DEF Step
    <3> QED BY <3>1, <3>2
  <2>3. CASE Drop(k)
    <3>1. CASE j = k
      BY <2>3, <3>1, DropDoes DEF Step, CallStep
    <3>2. CASE j # k
      BY <2>3, <3>2, DropOthers DEF Step
    <3> QED BY <3>1, <3>2
  <2>4. CASE HoldExpires(k)
    <3>1. CASE j = k
      BY <2>4, <3>1, HoldExpiresDoes DEF Step, CallStep
    <3>2. CASE j # k
      BY <2>4, <3>2, HoldExpiresOthers DEF Step
    <3> QED BY <3>1, <3>2
  <2> QED BY <1>3, <2>1, <2>2, <2>3, <2>4 DEF Serve
<1>4. ASSUME NEW k \in Kids, Ask(k) PROVE Step(j)
  <2>1. ASSUME NEW prompt \in BOOLEAN, CreateChild(k, prompt) PROVE Step(j)
    <3>1. CASE j = k
      BY <2>1, <3>1, CreateChildDoes DEF Step, CallStep
    <3>2. CASE j # k
      BY <2>1, <3>2, CreateChildOthers DEF Step
    <3> QED BY <3>1, <3>2
  <2>2. CASE SendStarts(k)
    <3>1. CASE j = k
      BY <2>2, <3>1, SendStartsDoes DEF Step, CallStep
    <3>2. CASE j # k
      BY <2>2, <3>2, SendStartsOthers DEF Step
    <3> QED BY <3>1, <3>2
  <2>3. CASE SendTakes(k)
    <3>1. CASE j = k
      BY <2>3, <3>1, SendTakesDoes DEF Step, CallStep
    <3>2. CASE j # k
      BY <2>3, <3>2, SendTakesOthers DEF Step
    <3> QED BY <3>1, <3>2
  <2>4. CASE SendWrites(k)
    <3>1. CASE j = k
      BY <2>4, <3>1, SendWritesDoes DEF Step, CallStep
    <3>2. CASE j # k
      BY <2>4, <3>2, SendWritesOthers DEF Step
    <3> QED BY <3>1, <3>2
  <2>5. CASE stopChild(k)
    <3>1. CASE j = k
      BY <2>5, <3>1, stopChildDoes DEF Step, CallStep
    <3>2. CASE j # k
      BY <2>5, <3>2, stopChildOthers DEF Step
    <3> QED BY <3>1, <3>2
  <2>6. CASE WithdrawChild(k)
    <3>1. CASE j = k
      BY <2>6, <3>1, WithdrawChildDoes DEF Step, CallStep
    <3>2. CASE j # k
      BY <2>6, <3>2, WithdrawChildOthers DEF Step
    <3> QED BY <3>1, <3>2
  <2>7. CASE WithdrawKills(k)
    <3>1. CASE j = k
      BY <2>7, <3>1, WithdrawKillsDoes DEF Step, CallStep
    <3>2. CASE j # k
      BY <2>7, <3>2, WithdrawKillsOthers DEF Step
    <3> QED BY <3>1, <3>2
  <2>8. CASE WithdrawEnds(k)
    <3>1. CASE j = k
      BY <2>8, <3>1, WithdrawEndsDoes DEF Step, CallStep
    <3>2. CASE j # k
      BY <2>8, <3>2, WithdrawEndsOthers DEF Step
    <3> QED BY <3>1, <3>2
  <2> QED BY <1>4, <2>1, <2>2, <2>3, <2>4, <2>5, <2>6, <2>7, <2>8 DEF Ask
<1>5. ASSUME NEW k \in Kids, CloseKills(k) \/ ProcMoves(k) \/ StrayMoves(k) \/ ProcDies(k)
      PROVE  Step(j)
  <2>1. CASE CloseKills(k)
    <3>1. CASE j = k
      BY <2>1, <3>1, CloseKillsDoes DEF Step, CallStep
    <3>2. CASE j # k
      BY <2>1, <3>2, CloseKillsOthers DEF Step
    <3> QED BY <3>1, <3>2
  <2>2. CASE ProcMoves(k)
    <3>1. CASE j = k
      BY <2>2, <3>1, ProcMovesDoes DEF Step, CallStep
    <3>2. CASE j # k
      BY <2>2, <3>2, ProcMovesOthers DEF Step
    <3> QED BY <3>1, <3>2
  <2>3. CASE StrayMoves(k)
    <3>1. CASE j = k
      BY <2>3, <3>1, StrayMovesDoes DEF Step, CallStep
    <3>2. CASE j # k
      BY <2>3, <3>2, StrayMovesOthers DEF Step
    <3> QED BY <3>1, <3>2
  <2>4. CASE ProcDies(k)
    <3>1. CASE j = k
      BY <2>4, <3>1, ProcDiesDoes DEF Step, CallStep
    <3>2. CASE j # k
      BY <2>4, <3>2, ProcDiesOthers DEF Step
    <3> QED BY <3>1, <3>2
  <2> QED BY <1>5, <2>1, <2>2, <2>3, <2>4 DEF Up
<1>6. ASSUME NEW r \in reports,
             ReportStarts(r) \/ ReportDecides(r) \/ ReportMarks(r) \/ ReportTells(r)
      PROVE  Step(j)
  <2>0. r.k \in Kids /\ (r.k = j => r \in ReportsOf(j))
    BY DEF Typed, IsReport, ReportsOf
  <2>1. CASE ReportStarts(r)
    <3>1. CASE j = r.k
      <4>1. StartsReport(j, r)
        BY <2>1, <3>1, ReportStartsDoes
      <4> QED BY <2>0, <3>1, <4>1 DEF Step, ReportStep
    <3>2. CASE j # r.k
      BY <2>1, <3>2, ReportStartsOthers DEF Step
    <3> QED BY <3>1, <3>2
  <2>2. CASE ReportDecides(r)
    <3>1. CASE j = r.k
      <4>1. DecidesReport(j, r)
        BY <2>2, <3>1, ReportDecidesBoth
      <4> QED BY <2>0, <3>1, <4>1 DEF Step, ReportStep
    <3>2. CASE j # r.k
      BY <2>2, <3>2, ReportDecidesOthers DEF Step
    <3> QED BY <3>1, <3>2
  <2>3. CASE ReportMarks(r)
    <3>1. CASE j = r.k
      <4>1. MarksReport(j, r)
        BY <2>3, <3>1, ReportMarksBoth
      <4> QED BY <2>0, <3>1, <4>1 DEF Step, ReportStep
    <3>2. CASE j # r.k
      BY <2>3, <3>2, ReportMarksOthers DEF Step
    <3> QED BY <3>1, <3>2
  <2>4. CASE ReportTells(r)
    <3>1. CASE j = r.k
      <4>1. TellsReport(j, r)
        BY <2>4, <3>1, ReportTellsDoes
      <4> QED BY <2>0, <3>1, <4>1 DEF Step, ReportStep
    <3>2. CASE j # r.k
      BY <2>4, <3>2, ReportTellsOthers DEF Step
    <3> QED BY <3>1, <3>2
  <2> QED BY <1>6, <2>1, <2>2, <2>3, <2>4
<1>7. CASE DrainQueue
  BY <1>7, DrainDoes DEF Step
<1>8. CASE ReportOwed
  BY <1>8, ReportOwedDoes DEF Step
<1>9. CASE Close
  BY <1>9, CloseDoes DEF Step
<1>10. CASE CloseEnds \/ ServeCrashes
  BY <1>10, ForgetDoes DEF Step
<1>11. CASE NewSupervisor
  BY <1>11, NewSupervisorDoes DEF Step
<1> QED BY <1>1, <1>2, <1>3, <1>4, <1>5, <1>6, <1>7, <1>8, <1>9, <1>10, <1>11
     DEF Next, Reports

----------------------------------------------------------------------------
(* Each part of the invariant stays.                                       *)

(* What serve remembers of the waits it ended and of what was on its way   *)
(* when a child was withdrawn.                                             *)
PastStep(k) ==
  /\ k \in past.waitEnded => k \in past'.waitEnded
  /\ k \in past.orphans => k \in past'.orphans
  /\ k \in past.withdrawn => k \in past'.withdrawn
  /\ \/ OnWithdrawChild(k)
     \/ /\ past'.heard[k] = past.heard[k]
        /\ k \in past'.withdrawn <=> k \in past.withdrawn

LEMMA PastSteps ==
  ASSUME Typed, InOrder, [Next]_vars, NEW j \in Kids
  PROVE  PastStep(j)
<1>a. past \in PastT
  BY DEF Typed
<1>1. CASE past' = past
  BY <1>1 DEF PastStep
<1>2. ASSUME NEW k \in Kids, Ask(k) PROVE PastStep(j)
  <2>1. CASE \E prompt \in BOOLEAN : CreateChild(k, prompt)
    BY <1>a, <2>1 DEF CreateChild, PastStep, PastT
  <2>2. CASE SendStarts(k)
    BY <1>a, <2>2 DEF SendStarts, PastStep, PastT
  <2>3. CASE SendWrites(k)
    BY <1>a, <2>3 DEF SendWrites, PastStep, PastT
  <2>4. CASE stopChild(k)
    <3>1. past' = past \/ past' = [past EXCEPT !.bootStopped = past.bootStopped \cup {k}]
      BY <2>4 DEF stopChild, StopDrops, StopBooting, StopPending, StopTurn
    <3> QED BY <1>a, <3>1 DEF PastStep, PastT
  <2>5. CASE WithdrawChild(k)
    <3>1. CASE k = j
      <4>1. OnWithdrawChild(j)
        BY <2>5, <3>1, WithdrawChildDoes
      <4>2. past'.waitEnded = past.waitEnded /\ past'.orphans = past.orphans
        BY <1>a, <2>5 DEF WithdrawChild, PastT
      <4> QED BY <4>1, <4>2 DEF PastStep, OnWithdrawChild
    <3>2. CASE k # j
      BY <1>a, <2>5, <3>2 DEF WithdrawChild, PastStep, PastT
    <3> QED BY <3>1, <3>2
  <2>6. CASE SendTakes(k) \/ WithdrawKills(k) \/ WithdrawEnds(k)
    BY <1>1, <2>6 DEF SendTakes, WithdrawKills, WithdrawEnds
  <2> QED BY <1>2, <2>1, <2>2, <2>3, <2>4, <2>5, <2>6 DEF Ask
<1>3. ASSUME NEW r \in reports, ReportStarts(r) PROVE PastStep(j)
  <2>1. past' = past \/ past' = [past EXCEPT !.waitEnded = past.waitEnded \cup {r.k}]
    <3>1. CASE r.k \in waitStops /\ StatusDone(file[r.k])
      BY <1>3, <3>1 DEF ReportStarts
    <3>2. CASE ~(r.k \in waitStops /\ StatusDone(file[r.k]))
      BY <1>3, <3>2 DEF ReportStarts
    <3> QED BY <3>1, <3>2
  <2> QED BY <1>a, <2>1 DEF PastStep, PastT
<1>4. CASE CloseEnds \/ ServeCrashes
  <2>0. /\ PastServe.heard = past.heard /\ PastServe.withdrawn = past.withdrawn
        /\ PastServe.waitEnded = past.waitEnded /\ PastServe.orphans = past.orphans
    BY <1>a DEF PastServe, PastT
  <2>1. CASE CloseEnds
    BY <2>0, <2>1 DEF CloseEnds, PastStep
  <2>2. CASE ServeCrashes
    <3>1. past' = [PastServe EXCEPT
                     !.orphans = @ \cup {k \in Kids : Alive(proc[k])}]
      BY <2>2 DEF ServeCrashes
    <3>2. /\ past'.heard = past.heard /\ past'.withdrawn = past.withdrawn
          /\ past'.waitEnded = past.waitEnded /\ past.orphans \subseteq past'.orphans
      BY <1>a, <2>0, <3>1 DEF PastServe, PastT
    <3> QED BY <3>2 DEF PastStep
  <2> QED BY <1>4, <2>1, <2>2
<1>5. ASSUME NEW k \in Kids, Launch(k) PROVE past' = past
  BY <1>5 DEF Launch, LaunchStarts, LaunchAbandons, LaunchChecks, LaunchPrompts,
     FreeLooks, FreeGives
<1>6. ASSUME NEW k \in Kids,
             Serve(k) \/ CloseKills(k) \/ ProcMoves(k) \/ StrayMoves(k) \/ ProcDies(k)
      PROVE  past' = past
  BY <1>6 DEF Serve, ReadEvent, Reap, Drop, HoldExpires, CloseKills, ProcMoves,
     StrayMoves, ProcDies
<1>7. ASSUME NEW r \in reports, ReportDecides(r) \/ ReportMarks(r) \/ ReportTells(r)
      PROVE  past' = past
  BY <1>7 DEF ReportDecides, ReportMarks, ReportTells
<1>8. CASE DrainQueue \/ ReportOwed \/ Close \/ NewSupervisor
  <2>1. DrainQueue => past' = past
    BY DEF DrainQueue
  <2>2. ReportOwed => past' = past
    BY DEF ReportOwed
  <2>3. Close => past' = past
    BY DEF Close
  <2>4. NewSupervisor => past' = past
    BY NewSupervisorDoes
  <2> QED BY <1>1, <1>8, <2>1, <2>2, <2>3, <2>4
<1>10. CASE UNCHANGED vars
  BY <1>1, <1>10 DEF vars
<1>9. CASE Reports
  BY <1>1, <1>3, <1>7, <1>9 DEF Reports
<1> QED BY <1>1, <1>2, <1>4, <1>5, <1>6, <1>8, <1>9, <1>10 DEF Next

LEMMA DoneIsThere ==
  ASSUME NEW f \in Seq(EntryT), StatusDone(f)
  PROVE  f # <<>> /\ ~NoEntries(f)
<1>1. lastTurn(f).closing > 0 /\ lastTurn(f).closing \in Closings(f) \cup {0}
  BY LastTurnIs DEF StatusDone
<1>2. lastTurn(f).closing \in Closings(f)
  BY <1>1
<1>3. lastTurn(f).input \in Nat /\ Len(f) \in Nat
  <2>1. Inputs(f) \subseteq 1 .. Len(f) /\ Len(f) \in Nat
    BY DEF Inputs
  <2> QED BY <2>1, LastTurnIs
<1>4. \E i \in 1 .. Len(f) : IsClose(f[i])
  BY <1>2, <1>3 DEF Closings
<1> QED BY <1>4 DEF NoEntries, IsClose

LEMMA UnbornStays ==
  ASSUME NEW k \in Kids, Step(k), TypesOf(k), Unborn(k), Queued(k), Leased(k)
  PROVE  Unborn(k)'
<1> USE DEF Unborn, Born, TypesOf, PastT, NoProcess, Alive, Live, Queued, Blank,
     Leased
<1>1. CASE Same(k)
  BY <1>1 DEF Same, DiskKept, ProcessKept, MindKept, PastKept
<1>2. CASE OnLaunchStarts(k)
  BY <1>2 DEF OnLaunchStarts, KidIs, ProcIs, Up
<1>3. CASE OnLaunchAbandons(k)
  BY <1>3 DEF OnLaunchAbandons, Released, KidIs, LaunchFails, Erased, Unstarts,
     MetaIs, Adds, Up
<1>4. CASE OnLaunchChecks(k)
  BY <1>4 DEF OnLaunchChecks, KidIs, MetaIs, Dies, Up
<1>5. CASE OnLaunchPrompts(k)
  BY <1>5 DEF OnLaunchPrompts, KidIs, ProcIs, Up
<1>6. CASE OnFreeLooks(k)
  BY <1>6 DEF OnFreeLooks, Up
<1>7. CASE OnFreeGives(k)
  BY <1>7 DEF OnFreeGives, MetaIs, Up
<1>8. CASE OnReadEvent(k)
  BY <1>8 DEF OnReadEvent, KidIs, ProcIs, ChildEvents, MetaIs, Adds, Up
<1>9. CASE OnReap(k)
  BY <1>9 DEF OnReap, KidIs, ChildEvents, MetaIs, Adds, Up
<1>10. CASE OnDrop(k)
  BY <1>10 DEF OnDrop, ProcIs, Released, KidIs, LaunchFails, Erased, Unstarts,
     MetaIs, Adds, Up
<1>11. CASE OnHoldExpires(k)
  BY <1>11 DEF OnHoldExpires, KidIs, ProcIs, Up
<1>12. ASSUME NEW prompt \in BOOLEAN, OnCreateChild(k, prompt) PROVE Unborn(k)'
  BY <1>12 DEF OnCreateChild, KidIs, MetaIs, Kids
<1>13. CASE OnSendStarts(k)
  BY <1>13 DEF OnSendStarts, KidIs, ProcIs
<1>14. CASE OnSendTakes(k)
  BY <1>14 DEF OnSendTakes, Up
<1>15. CASE OnSendWrites(k)
  BY <1>15 DEF OnSendWrites, KidIs, ProcIs, Up
<1>16. CASE OnstopChild(k)
  BY <1>16 DEF OnstopChild, KidIs, ProcIs, Dies, Erased, MetaIs, Booting
<1>17. CASE OnWithdrawChild(k)
  BY <1>17 DEF OnWithdrawChild, Erased, MetaIs
<1>18. CASE OnWithdrawKills(k)
  BY <1>18 DEF OnWithdrawKills, KidIs, Dies, Up
<1>19. CASE OnWithdrawEnds(k)
  BY <1>19 DEF OnWithdrawEnds, Up
<1>20. CASE OnCloseKills(k)
  BY <1>20 DEF OnCloseKills, KidIs, Dies
<1>21. CASE OnProcMoves(k)
  BY <1>21 DEF OnProcMoves, Outcome
<1>22. CASE OnStrayMoves(k)
  BY <1>22 DEF OnStrayMoves, Outcome
<1>23. CASE OnProcDies(k)
  BY <1>23 DEF OnProcDies, Dies
<1>24. ASSUME NEW r \in ReportsOf(k), StartsReport(k, r) PROVE Unborn(k)'
  BY <1>24 DEF StartsReport, PastKept, Adds, ProcessKept, Up
<1>25. ASSUME NEW r \in ReportsOf(k), DecidesReport(k, r) PROVE Unborn(k)'
  BY <1>25 DEF DecidesReport, Adds, Unstarts, MetaIs, ProcessKept, Up
<1>26. ASSUME NEW r \in ReportsOf(k), MarksReport(k, r) PROVE Unborn(k)'
  BY <1>26 DEF MarksReport, MetaIs, Adds, ProcessKept, Up
<1>27. ASSUME NEW r \in ReportsOf(k), TellsReport(k, r) PROVE Unborn(k)'
  BY <1>27 DEF TellsReport, ProcessKept, Up
<1>28. CASE StartsNext(k)
  BY <1>28 DEF StartsNext, KidIs, MetaIs
<1>29. CASE LooksOwed(k)
  BY <1>29 DEF LooksOwed, Adds, DiskKept, ProcessKept
<1>30. CASE GivesUpOwed(k)
  BY <1>30 DEF GivesUpOwed, DiskKept, ProcessKept, MindKept, PastKept
<1>31. CASE Closes(k)
  BY <1>31 DEF Closes, DiskKept, ProcessKept, MindKept, PastKept
<1>32. CASE Forgets(k)
  BY <1>32 DEF Forgets, Released, KidIs, DiskKept, ProcessKept, Up
<1>33. CASE Requeues(k)
  BY <1>33 DEF Requeues, MetaIs, ProcessKept, MindKept, PastKept
<1> QED
  BY <1>1, <1>2, <1>3, <1>4, <1>5, <1>6, <1>7, <1>8, <1>9, <1>10, <1>11, <1>12,
     <1>13, <1>14, <1>15, <1>16, <1>17, <1>18, <1>19, <1>20, <1>21, <1>22,
     <1>23, <1>24, <1>25, <1>26, <1>27, <1>28, <1>29, <1>30, <1>31, <1>32,
     <1>33 DEF Step, CallStep, ReportStep

LEMMA ForgottenStays ==
  ASSUME NEW k \in Kids, Step(k), TypesOf(k), Forgotten(k)
  PROVE  Forgotten(k)'
<1> USE DEF Forgotten, Up, Live
<1>1. CASE Same(k)
  BY <1>1 DEF Same, DiskKept, ProcessKept, MindKept, PastKept
<1>2. CASE OnLaunchStarts(k)
  BY <1>2 DEF OnLaunchStarts, KidIs, ProcIs
<1>3. CASE OnLaunchAbandons(k)
  BY <1>3 DEF OnLaunchAbandons, Released, KidIs, LaunchFails, Erased, Unstarts,
     MetaIs, Adds
<1>4. CASE OnLaunchChecks(k)
  BY <1>4 DEF OnLaunchChecks, KidIs, MetaIs, Dies
<1>5. CASE OnLaunchPrompts(k)
  BY <1>5 DEF OnLaunchPrompts, KidIs, ProcIs, Alive
<1>6. CASE OnFreeLooks(k)
  BY <1>6 DEF OnFreeLooks
<1>7. CASE OnFreeGives(k)
  BY <1>7 DEF OnFreeGives, MetaIs
<1>8. CASE OnReadEvent(k)
  BY <1>8 DEF OnReadEvent, KidIs, ProcIs, ChildEvents, MetaIs, Adds, Alive
<1>9. CASE OnReap(k)
  BY <1>9 DEF OnReap, KidIs, ChildEvents, MetaIs, Adds
<1>10. CASE OnDrop(k)
  BY <1>10 DEF OnDrop, ProcIs, Released, KidIs, LaunchFails, Erased, Unstarts,
     MetaIs, Adds
<1>11. CASE OnHoldExpires(k)
  BY <1>11 DEF OnHoldExpires, KidIs, ProcIs, Alive
<1>12. ASSUME NEW prompt \in BOOLEAN, OnCreateChild(k, prompt) PROVE Forgotten(k)'
  BY <1>12 DEF OnCreateChild, KidIs, MetaIs
<1>13. CASE OnSendStarts(k)
  BY <1>13 DEF OnSendStarts, KidIs, ProcIs, Alive
<1>14. CASE OnSendTakes(k)
  BY <1>14 DEF OnSendTakes
<1>15. CASE OnSendWrites(k)
  BY <1>15 DEF OnSendWrites, KidIs, ProcIs, Alive
<1>16. CASE OnstopChild(k)
  BY <1>16 DEF OnstopChild, KidIs, ProcIs, Dies, Erased, MetaIs, Booting, Alive
<1>17. CASE OnWithdrawChild(k)
  BY <1>17 DEF OnWithdrawChild, Erased, MetaIs
<1>18. CASE OnWithdrawKills(k)
  BY <1>18 DEF OnWithdrawKills, KidIs, Dies, Alive
<1>19. CASE OnWithdrawEnds(k)
  BY <1>19 DEF OnWithdrawEnds
<1>20. CASE OnCloseKills(k)
  BY <1>20 DEF OnCloseKills, KidIs, Dies, Alive
<1>21. CASE OnProcMoves(k)
  BY <1>21 DEF OnProcMoves
<1>22. CASE OnStrayMoves(k)
  BY <1>22 DEF OnStrayMoves, NoProcess
<1>23. CASE OnProcDies(k)
  BY <1>23 DEF OnProcDies, Dies, Alive
<1>24. ASSUME NEW r \in ReportsOf(k), StartsReport(k, r) PROVE Forgotten(k)'
  BY <1>24 DEF StartsReport, PastKept, Adds, ProcessKept
<1>25. ASSUME NEW r \in ReportsOf(k), DecidesReport(k, r) PROVE Forgotten(k)'
  BY <1>25 DEF DecidesReport, Adds, Unstarts, MetaIs, ProcessKept
<1>26. ASSUME NEW r \in ReportsOf(k), MarksReport(k, r) PROVE Forgotten(k)'
  BY <1>26 DEF MarksReport, MetaIs, Adds, ProcessKept
<1>27. ASSUME NEW r \in ReportsOf(k), TellsReport(k, r) PROVE Forgotten(k)'
  BY <1>27 DEF TellsReport, ProcessKept
<1>28. CASE StartsNext(k)
  BY <1>28 DEF StartsNext, KidIs, MetaIs
<1>29. CASE LooksOwed(k)
  BY <1>29 DEF LooksOwed, Adds, DiskKept, ProcessKept
<1>30. CASE GivesUpOwed(k)
  BY <1>30 DEF GivesUpOwed, DiskKept, ProcessKept, MindKept, PastKept
<1>31. CASE Closes(k)
  BY <1>31 DEF Closes, DiskKept, ProcessKept, MindKept, PastKept
<1>32. CASE Forgets(k)
  BY <1>32 DEF Forgets, Released, KidIs, NoProcess, DiskKept, ProcessKept, Alive
<1>33. CASE Requeues(k)
  BY <1>33 DEF Requeues, MetaIs, ProcessKept, MindKept, PastKept
<1> QED
  BY <1>1, <1>2, <1>3, <1>4, <1>5, <1>6, <1>7, <1>8, <1>9, <1>10, <1>11, <1>12,
     <1>13, <1>14, <1>15, <1>16, <1>17, <1>18, <1>19, <1>20, <1>21, <1>22,
     <1>23, <1>24, <1>25, <1>26, <1>27, <1>28, <1>29, <1>30, <1>31, <1>32,
     <1>33 DEF Step, CallStep, ReportStep

LEMMA GivenUpStays ==
  ASSUME NEW k \in Kids, Step(k), TypesOf(k), GivenUp(k), Unborn(k),
         Leased(k), Queued(k)
  PROVE  GivenUp(k)'
<1> USE DEF GivenUp, Live, TypesOf, PastT
<1>1. CASE Same(k)
  BY <1>1 DEF Same, DiskKept, ProcessKept, MindKept, PastKept
<1>2. CASE OnLaunchStarts(k)
  BY <1>2 DEF OnLaunchStarts, KidIs, ProcIs, Up
<1>3. CASE OnLaunchAbandons(k)
  BY <1>3 DEF OnLaunchAbandons, Released, KidIs, LaunchFails, Erased, Unstarts,
     MetaIs, Adds, Up
<1>4. CASE OnLaunchChecks(k)
  BY <1>4 DEF OnLaunchChecks, KidIs, MetaIs, Dies, Up
<1>5. CASE OnLaunchPrompts(k)
  BY <1>5 DEF OnLaunchPrompts, KidIs, ProcIs, Alive, Up
<1>6. CASE OnFreeLooks(k)
  BY <1>6 DEF OnFreeLooks, Up
<1>7. CASE OnFreeGives(k)
  BY <1>7 DEF OnFreeGives, MetaIs, Up
<1>8. CASE OnReadEvent(k)
  BY <1>8 DEF OnReadEvent, KidIs, ProcIs, ChildEvents, MetaIs, Adds, Alive, Up
<1>9. CASE OnReap(k)
  BY <1>9 DEF OnReap, KidIs, ChildEvents, MetaIs, Adds, Up
<1>10. CASE OnDrop(k)
  BY <1>10 DEF OnDrop, ProcIs, Released, KidIs, LaunchFails, Erased, Unstarts,
     MetaIs, Adds, Up
<1>11. CASE OnHoldExpires(k)
  BY <1>11 DEF OnHoldExpires, KidIs, ProcIs, Alive, Up
<1>12. ASSUME NEW prompt \in BOOLEAN, OnCreateChild(k, prompt) PROVE GivenUp(k)'
  BY <1>12 DEF OnCreateChild, KidIs, MetaIs, Unborn, Born
<1>13. CASE OnSendStarts(k)
  BY <1>13 DEF OnSendStarts, KidIs, ProcIs, Alive
<1>14. CASE OnSendTakes(k)
  BY <1>14 DEF OnSendTakes, Up
<1>15. CASE OnSendWrites(k)
  BY <1>15 DEF OnSendWrites, KidIs, ProcIs, Alive, Up
<1>16. CASE OnstopChild(k)
  BY <1>16 DEF OnstopChild, KidIs, ProcIs, Dies, Erased, MetaIs, Booting, Alive
<1>17. CASE OnWithdrawChild(k)
  BY <1>17 DEF OnWithdrawChild, Erased, MetaIs
<1>18. CASE OnWithdrawKills(k)
  BY <1>18 DEF OnWithdrawKills, KidIs, Dies, Alive, Up
<1>19. CASE OnWithdrawEnds(k)
  BY <1>19 DEF OnWithdrawEnds, Up
<1>20. CASE OnCloseKills(k)
  BY <1>20 DEF OnCloseKills, KidIs, Dies, Alive
<1>21. CASE OnProcMoves(k)
  BY <1>21 DEF OnProcMoves, Leased, NoProcess, Outcome
<1>22. CASE OnStrayMoves(k)
  BY <1>22 DEF OnStrayMoves, NoProcess, Leased, Outcome
<1>23. CASE OnProcDies(k)
  BY <1>23 DEF OnProcDies, Dies, Alive
<1>24. ASSUME NEW r \in ReportsOf(k), StartsReport(k, r) PROVE GivenUp(k)'
  BY <1>24, DoneIsThere DEF StartsReport, PastKept, Adds, ProcessKept, Up
<1>25. ASSUME NEW r \in ReportsOf(k), DecidesReport(k, r) PROVE GivenUp(k)'
  BY <1>25 DEF DecidesReport, Adds, Unstarts, MetaIs, ProcessKept, Up
<1>26. ASSUME NEW r \in ReportsOf(k), MarksReport(k, r) PROVE GivenUp(k)'
  BY <1>26 DEF MarksReport, MetaIs, Adds, ProcessKept, Up
<1>27. ASSUME NEW r \in ReportsOf(k), TellsReport(k, r) PROVE GivenUp(k)'
  BY <1>27 DEF TellsReport, ProcessKept, Up
<1>28. CASE StartsNext(k)
  BY <1>28 DEF StartsNext, KidIs, MetaIs, Queued, Blank
<1>29. CASE LooksOwed(k)
  BY <1>29 DEF LooksOwed, Adds, DiskKept, ProcessKept
<1>30. CASE GivesUpOwed(k)
  BY <1>30 DEF GivesUpOwed, DiskKept, ProcessKept, MindKept, PastKept
<1>31. CASE Closes(k)
  BY <1>31 DEF Closes, DiskKept, ProcessKept, MindKept, PastKept
<1>32. CASE Forgets(k)
  BY <1>32 DEF Forgets, Released, KidIs, NoProcess, DiskKept, ProcessKept, Alive, Up
<1>33. CASE Requeues(k)
  BY <1>33 DEF Requeues, MetaIs, ProcessKept, MindKept, PastKept
<1> QED
  BY <1>1, <1>2, <1>3, <1>4, <1>5, <1>6, <1>7, <1>8, <1>9, <1>10, <1>11, <1>12,
     <1>13, <1>14, <1>15, <1>16, <1>17, <1>18, <1>19, <1>20, <1>21, <1>22,
     <1>23, <1>24, <1>25, <1>26, <1>27, <1>28, <1>29, <1>30, <1>31, <1>32,
     <1>33 DEF Step, CallStep, ReportStep

LEMMA LeasedStays ==
  ASSUME NEW k \in Kids, Step(k), TypesOf(k), Leased(k), Unborn(k), Queued(k)
  PROVE  Leased(k)'
<1> USE DEF Leased, Live, Launching, TypesOf, PastT, NoProcess, Alive
<1>1. CASE Same(k)
  BY <1>1 DEF Same, DiskKept, ProcessKept, MindKept, PastKept
<1>2. CASE OnLaunchStarts(k)
  BY <1>2 DEF OnLaunchStarts, KidIs, ProcIs, Up
<1>3. CASE OnLaunchAbandons(k)
  BY <1>3 DEF OnLaunchAbandons, Released, KidIs, LaunchFails, Erased, Unstarts,
     MetaIs, Adds, Up
<1>4. CASE OnLaunchChecks(k)
  BY <1>4 DEF OnLaunchChecks, KidIs, MetaIs, Dies, Up
<1>5. CASE OnLaunchPrompts(k)
  BY <1>5 DEF OnLaunchPrompts, KidIs, ProcIs, Up
<1>6. CASE OnFreeLooks(k)
  BY <1>6 DEF OnFreeLooks, Up
<1>7. CASE OnFreeGives(k)
  BY <1>7 DEF OnFreeGives, MetaIs, Up
<1>8. CASE OnReadEvent(k)
  BY <1>8 DEF OnReadEvent, KidIs, ProcIs, ChildEvents, MetaIs, Adds, Up
<1>9. CASE OnReap(k)
  BY <1>9 DEF OnReap, KidIs, ChildEvents, MetaIs, Adds, Up
<1>10. CASE OnDrop(k)
  BY <1>10 DEF OnDrop, ProcIs, Released, KidIs, LaunchFails, Erased, Unstarts,
     MetaIs, Adds, Up
<1>11. CASE OnHoldExpires(k)
  BY <1>11 DEF OnHoldExpires, KidIs, ProcIs, Up
<1>12. ASSUME NEW prompt \in BOOLEAN, OnCreateChild(k, prompt) PROVE Leased(k)'
  BY <1>12 DEF OnCreateChild, KidIs, MetaIs, Unborn, Born
<1>13. CASE OnSendStarts(k)
  BY <1>13 DEF OnSendStarts, KidIs, ProcIs
<1>14. CASE OnSendTakes(k)
  BY <1>14 DEF OnSendTakes, Up
<1>15. CASE OnSendWrites(k)
  BY <1>15 DEF OnSendWrites, KidIs, ProcIs, Up
<1>16. CASE OnstopChild(k)
  BY <1>16 DEF OnstopChild, KidIs, ProcIs, Dies, Erased, MetaIs, Booting
<1>17. CASE OnWithdrawChild(k)
  BY <1>17 DEF OnWithdrawChild, Erased, MetaIs
<1>18. CASE OnWithdrawKills(k)
  BY <1>18 DEF OnWithdrawKills, KidIs, Dies, Up
<1>19. CASE OnWithdrawEnds(k)
  BY <1>19 DEF OnWithdrawEnds, Up
<1>20. CASE OnCloseKills(k)
  BY <1>20 DEF OnCloseKills, KidIs, Dies
<1>21. CASE OnProcMoves(k)
  BY <1>21 DEF OnProcMoves, Outcome
<1>22. CASE OnStrayMoves(k)
  BY <1>22 DEF OnStrayMoves, Outcome
<1>23. CASE OnProcDies(k)
  BY <1>23 DEF OnProcDies, Dies
<1>24. ASSUME NEW r \in ReportsOf(k), StartsReport(k, r) PROVE Leased(k)'
  BY <1>24 DEF StartsReport, PastKept, Adds, ProcessKept, Up
<1>25. ASSUME NEW r \in ReportsOf(k), DecidesReport(k, r) PROVE Leased(k)'
  BY <1>25 DEF DecidesReport, Adds, Unstarts, MetaIs, ProcessKept, Up
<1>26. ASSUME NEW r \in ReportsOf(k), MarksReport(k, r) PROVE Leased(k)'
  BY <1>26 DEF MarksReport, MetaIs, Adds, ProcessKept, Up
<1>27. ASSUME NEW r \in ReportsOf(k), TellsReport(k, r) PROVE Leased(k)'
  BY <1>27 DEF TellsReport, ProcessKept, Up
<1>28. CASE StartsNext(k)
  BY <1>28 DEF StartsNext, KidIs, MetaIs, Queued
<1>29. CASE LooksOwed(k)
  BY <1>29 DEF LooksOwed, Adds, DiskKept, ProcessKept
<1>30. CASE GivesUpOwed(k)
  BY <1>30 DEF GivesUpOwed, DiskKept, ProcessKept, MindKept, PastKept
<1>31. CASE Closes(k)
  BY <1>31 DEF Closes, DiskKept, ProcessKept, MindKept, PastKept
<1>32. CASE Forgets(k)
  BY <1>32 DEF Forgets, Released, KidIs, DiskKept, ProcessKept, Up
<1>33. CASE Requeues(k)
  BY <1>33 DEF Requeues, MetaIs, ProcessKept, MindKept, PastKept
<1> QED
  BY <1>1, <1>2, <1>3, <1>4, <1>5, <1>6, <1>7, <1>8, <1>9, <1>10, <1>11, <1>12,
     <1>13, <1>14, <1>15, <1>16, <1>17, <1>18, <1>19, <1>20, <1>21, <1>22,
     <1>23, <1>24, <1>25, <1>26, <1>27, <1>28, <1>29, <1>30, <1>31, <1>32,
     <1>33 DEF Step, CallStep, ReportStep

LEMMA QueuedStays ==
  ASSUME NEW k \in Kids, Step(k), TypesOf(k), Queued(k), Unborn(k),
         Leased(k), Forgotten(k)
  PROVE  Queued(k)'
<1> USE DEF Queued, Live, Blank
<1>1. CASE Same(k)
  BY <1>1 DEF Same, DiskKept, ProcessKept, MindKept, PastKept
<1>2. CASE OnLaunchStarts(k)
  BY <1>2 DEF OnLaunchStarts, KidIs, ProcIs, Up
<1>3. CASE OnLaunchAbandons(k)
  BY <1>3 DEF OnLaunchAbandons, Released, KidIs, LaunchFails, Erased, Unstarts,
     MetaIs, Adds, Up
<1>4. CASE OnLaunchChecks(k)
  BY <1>4 DEF OnLaunchChecks, KidIs, MetaIs, Dies, Up
<1>5. CASE OnLaunchPrompts(k)
  BY <1>5 DEF OnLaunchPrompts, KidIs, ProcIs, Alive, Up
<1>6. CASE OnFreeLooks(k)
  BY <1>6 DEF OnFreeLooks, Up
<1>7. CASE OnFreeGives(k)
  BY <1>7 DEF OnFreeGives, MetaIs, Up
<1>8. CASE OnReadEvent(k)
  BY <1>8 DEF OnReadEvent, KidIs, ProcIs, ChildEvents, MetaIs, Adds, Alive, Up
<1>9. CASE OnReap(k)
  BY <1>9 DEF OnReap, KidIs, ChildEvents, MetaIs, Adds, Up
<1>10. CASE OnDrop(k)
  BY <1>10 DEF OnDrop, ProcIs, Released, KidIs, LaunchFails, Erased, Unstarts,
     MetaIs, Adds, Up
<1>11. CASE OnHoldExpires(k)
  BY <1>11 DEF OnHoldExpires, KidIs, ProcIs, Alive, Up
<1>12. ASSUME NEW prompt \in BOOLEAN, OnCreateChild(k, prompt) PROVE Queued(k)'
  BY <1>12 DEF OnCreateChild, KidIs, MetaIs, Unborn, Born
<1>13. CASE OnSendStarts(k)
  BY <1>13 DEF OnSendStarts, KidIs, ProcIs, Alive
<1>14. CASE OnSendTakes(k)
  BY <1>14 DEF OnSendTakes, Up
<1>15. CASE OnSendWrites(k)
  BY <1>15 DEF OnSendWrites, KidIs, ProcIs, Alive, Up
<1>16. CASE OnstopChild(k)
  BY <1>16 DEF OnstopChild, KidIs, ProcIs, Dies, Erased, MetaIs, Booting, Alive
<1>17. CASE OnWithdrawChild(k)
  BY <1>17 DEF OnWithdrawChild, Erased, MetaIs
<1>18. CASE OnWithdrawKills(k)
  BY <1>18 DEF OnWithdrawKills, KidIs, Dies, Alive, Up
<1>19. CASE OnWithdrawEnds(k)
  BY <1>19 DEF OnWithdrawEnds, Up
<1>20. CASE OnCloseKills(k)
  BY <1>20 DEF OnCloseKills, KidIs, Dies, Alive
<1>21. CASE OnProcMoves(k)
  BY <1>21 DEF OnProcMoves
<1>22. CASE OnStrayMoves(k)
  BY <1>22 DEF OnStrayMoves, NoProcess
<1>23. CASE OnProcDies(k)
  BY <1>23 DEF OnProcDies, Dies, Alive
<1>24. ASSUME NEW r \in ReportsOf(k), StartsReport(k, r) PROVE Queued(k)'
  BY <1>24 DEF StartsReport, PastKept, Adds, ProcessKept, Up
<1>25. ASSUME NEW r \in ReportsOf(k), DecidesReport(k, r) PROVE Queued(k)'
  BY <1>25 DEF DecidesReport, Adds, Unstarts, MetaIs, ProcessKept, Up
<1>26. ASSUME NEW r \in ReportsOf(k), MarksReport(k, r) PROVE Queued(k)'
  BY <1>26 DEF MarksReport, MetaIs, Adds, ProcessKept, Up
<1>27. ASSUME NEW r \in ReportsOf(k), TellsReport(k, r) PROVE Queued(k)'
  BY <1>27 DEF TellsReport, ProcessKept, Up
<1>28. CASE StartsNext(k)
  BY <1>28 DEF StartsNext, KidIs, MetaIs
<1>29. CASE LooksOwed(k)
  BY <1>29 DEF LooksOwed, Adds, DiskKept, ProcessKept
<1>30. CASE GivesUpOwed(k)
  BY <1>30 DEF GivesUpOwed, DiskKept, ProcessKept, MindKept, PastKept
<1>31. CASE Closes(k)
  BY <1>31 DEF Closes, DiskKept, ProcessKept, MindKept, PastKept
<1>32. CASE Forgets(k)
  BY <1>32 DEF Forgets, Released, KidIs, NoProcess, DiskKept, ProcessKept, Alive, Up
<1>33. CASE Requeues(k)
  BY <1>33 DEF Requeues, MetaIs, ProcessKept, MindKept, PastKept, Forgotten
<1> QED
  BY <1>1, <1>2, <1>3, <1>4, <1>5, <1>6, <1>7, <1>8, <1>9, <1>10, <1>11, <1>12,
     <1>13, <1>14, <1>15, <1>16, <1>17, <1>18, <1>19, <1>20, <1>21, <1>22,
     <1>23, <1>24, <1>25, <1>26, <1>27, <1>28, <1>29, <1>30, <1>31, <1>32,
     <1>33 DEF Step, CallStep, ReportStep

----------------------------------------------------------------------------
(* Session files, pipes and printed events as they grow and are read.      *)

LEMMA Appending ==
  ASSUME NEW f \in Seq(EntryT), NEW e \in EntryT
  PROVE  /\ Append(f, e) \in Seq(EntryT) /\ Append(f, e) # <<>>
         /\ NoEntries(Append(f, e)) <=> NoEntries(f) /\ e = "meta"
         /\ \A i : IsEntry(f, i) => IsEntry(Append(f, e), i)
         /\ HasTask(Append(f, e)) <=> HasTask(f) \/ e = "task"
         /\ OneTask(f) /\ ~(HasTask(f) /\ e = "task") => OneTask(Append(f, e))
         /\ ~IsInput(e) => LastInput(Append(f, e)) = LastInput(f)
<1> DEFINE g == Append(f, e)
<1>1. /\ Len(f) \in Nat /\ DOMAIN f = 1 .. Len(f) /\ DOMAIN g = 1 .. Len(f) + 1
      /\ \A i \in 1 .. Len(f) : g[i] = f[i]
      /\ g[Len(f) + 1] = e /\ g \in Seq(EntryT) /\ g # <<>>
  OBVIOUS
<1> HIDE DEF g
<1>2. NoEntries(g) <=> NoEntries(f) /\ e = "meta"
  BY <1>1 DEF NoEntries
<1>3. ASSUME NEW i, IsEntry(f, i) PROVE IsEntry(g, i)
  BY <1>1, <1>3 DEF IsEntry
<1>4. HasTask(g) <=> HasTask(f) \/ e = "task"
  BY <1>1 DEF HasTask
<1>5. ASSUME OneTask(f), ~(HasTask(f) /\ e = "task") PROVE OneTask(g)
  BY <1>1, <1>5 DEF OneTask, HasTask
<1>6. ASSUME ~IsInput(e) PROVE LastInput(g) = LastInput(f)
  <2>1. Inputs(g) = Inputs(f)
    BY <1>1, <1>6 DEF Inputs
  <2>2. LastInput(g) = LastOf(Inputs(g)) /\ LastInput(f) = LastOf(Inputs(f))
    BY DEF LastInput, lastTurn, Inputs
  <2> QED BY <2>1, <2>2
<1> QED BY <1>1, <1>2, <1>3, <1>4, <1>5, <1>6 DEF g

LEMMA NewFile ==
  /\ <<>> \in Seq(EntryT) /\ <<"meta">> \in Seq(EntryT) /\ <<"meta">> # <<>>
  /\ NoEntries(<<>>) /\ NoEntries(<<"meta">>)
  /\ ~HasTask(<<>>) /\ ~HasTask(<<"meta">>)
  /\ OneTask(<<>>) /\ OneTask(<<"meta">>)
  /\ LastInput(<<>>) = 0 /\ LastInput(<<"meta">>) = 0
<1>1. <<>> \in Seq(EntryT) /\ <<"meta">> \in Seq(EntryT) /\ <<"meta">> # <<>>
  BY DEF EntryT
<1>2. Inputs(<<>>) = {} /\ Inputs(<<"meta">>) = {}
  BY DEF Inputs, IsInput
<1>3. LastOf({}) = 0
  BY DEF LastOf
<1>4. LastInput(<<>>) = 0
  BY <1>2, <1>3 DEF LastInput, lastTurn, Inputs
<1>5. LastInput(<<"meta">>) = 0
  BY <1>2, <1>3 DEF LastInput, lastTurn, Inputs
<1>6. NoEntries(<<>>) /\ ~HasTask(<<>>) /\ OneTask(<<>>)
  BY DEF NoEntries, HasTask, OneTask
<1>7. NoEntries(<<"meta">>) /\ ~HasTask(<<"meta">>) /\ OneTask(<<"meta">>)
  BY DEF NoEntries, HasTask, OneTask
<1> QED BY <1>1, <1>4, <1>5, <1>6, <1>7

(* Without a turn's entry, no turn is open.                                *)
LEMMA NothingOpen ==
  ASSUME NEW f \in Seq(EntryT), NoEntries(f)
  PROVE  ~openTurn(f) /\ LastInput(f) = 0
<1>1. Inputs(f) = {}
  BY DEF Inputs, NoEntries, IsInput
<1>2. lastTurn(f).input = 0
  BY <1>1, LastTurnIs
<1> QED BY <1>2 DEF openTurn, LastInput

LEMMA Cancelling ==
  ASSUME NEW f \in Seq(EntryT)
  PROVE  LET g == f \o <<"cancelled", "done">> IN
         /\ g # <<>> /\ ~NoEntries(g)
         /\ \A i : IsEntry(f, i) => IsEntry(g, i)
         /\ HasTask(g) <=> HasTask(f)
         /\ OneTask(f) => OneTask(g)
         /\ LastInput(g) = LastInput(f)
<1>1. f \o <<"cancelled", "done">> = Append(Append(f, "cancelled"), "done")
  OBVIOUS
<1>2. "cancelled" \in EntryT /\ "done" \in EntryT /\ ~IsInput("cancelled") /\ ~IsInput("done")
  BY DEF EntryT, IsInput
<1> DEFINE c == Append(f, "cancelled")
           g == Append(c, "done")
<1>3. /\ c \in Seq(EntryT) /\ \A i : IsEntry(f, i) => IsEntry(c, i)
      /\ HasTask(c) <=> HasTask(f)
      /\ OneTask(f) => OneTask(c)
      /\ LastInput(c) = LastInput(f)
  BY <1>2, Appending
<1> HIDE DEF c
<1>4. /\ g # <<>> /\ ~NoEntries(g) /\ \A i : IsEntry(c, i) => IsEntry(g, i)
      /\ HasTask(g) <=> HasTask(c)
      /\ OneTask(c) => OneTask(g)
      /\ LastInput(g) = LastInput(c)
  BY <1>2, <1>3, Appending
<1>5. f \o <<"cancelled", "done">> = g
  BY <1>1 DEF c
<1> HIDE DEF g
<1> QED BY <1>3, <1>4, <1>5

LEMMA Reading ==
  ASSUME NEW q \in Seq(LineT), q # <<>>
  PROVE  /\ Head(q) \in LineT /\ Head(q) \in EntryT
         /\ Len(q) \in Nat /\ Len(Tail(q)) = Len(q) - 1
         /\ HasTask(q) <=> Head(q) = "task" \/ HasTask(Tail(q))
         /\ OneTask(q) => OneTask(Tail(q)) /\ (Head(q) = "task" => ~HasTask(Tail(q)))
<1> DEFINE t == Tail(q)
<1>1. /\ Len(q) \in Nat \ {0} /\ DOMAIN q = 1 .. Len(q) /\ DOMAIN t = 1 .. Len(q) - 1
      /\ Len(t) = Len(q) - 1 /\ Head(q) = q[1] /\ q[1] \in LineT
      /\ \A i \in 1 .. Len(q) - 1 : t[i] = q[i + 1]
  OBVIOUS
<1>2. q[1] \in EntryT
  BY <1>1 DEF LineT, EntryT
<1> HIDE DEF t
<1>3. HasTask(t) => HasTask(q)
  BY <1>1 DEF HasTask
<1>4. ASSUME HasTask(q), q[1] # "task" PROVE HasTask(t)
  <2>1. PICK i \in 1 .. Len(q) : q[i] = "task"
    BY <1>1, <1>4 DEF HasTask
  <2>2. i - 1 \in 1 .. Len(q) - 1 /\ t[i - 1] = "task"
    BY <1>1, <1>4, <2>1
  <2> QED BY <1>1, <2>2 DEF HasTask
<1>5. q[1] = "task" => HasTask(q)
  BY <1>1 DEF HasTask
<1>6. ASSUME OneTask(q) PROVE OneTask(t) /\ (q[1] = "task" => ~HasTask(t))
  <2>1. ASSUME NEW i \in 1 .. Len(q) - 1, NEW j \in 1 .. Len(q) - 1,
               t[i] = "task", t[j] = "task"
        PROVE  i = j
    <3>1. i + 1 \in DOMAIN q /\ j + 1 \in DOMAIN q
      BY <1>1
    <3>2. q[i + 1] = "task" /\ q[j + 1] = "task"
      BY <1>1, <2>1
    <3>3. i + 1 = j + 1
      BY <1>6, <3>1, <3>2 DEF OneTask
    <3> QED BY <1>1, <3>3
  <2>2. ASSUME NEW i \in 1 .. Len(q) - 1, t[i] = "task", q[1] = "task" PROVE FALSE
    <3>1. 1 \in DOMAIN q /\ i + 1 \in DOMAIN q /\ i + 1 # 1
      BY <1>1
    <3>2. q[i + 1] = "task"
      BY <1>1, <2>2
    <3> QED BY <1>6, <2>2, <3>1, <3>2 DEF OneTask
  <2> QED BY <1>1, <2>1, <2>2 DEF OneTask, HasTask
<1> QED BY <1>1, <1>2, <1>3, <1>4, <1>5, <1>6 DEF t

LEMMA PipeGets ==
  ASSUME NEW q \in Seq(LineT), NEW e \in LineT
  PROVE  /\ Append(q, e) \in Seq(LineT) /\ Append(q, e) # <<>>
         /\ Len(Append(q, e)) = Len(q) + 1 /\ Len(q) \in Nat
         /\ HasTask(Append(q, e)) <=> HasTask(q) \/ e = "task"
         /\ OneTask(q) /\ ~(HasTask(q) /\ e = "task") => OneTask(Append(q, e))
<1>1. q \in Seq(EntryT) /\ e \in EntryT
  BY DEF LineT, EntryT
<1> QED BY <1>1, Appending

LEMMA Saying ==
  ASSUME NEW o \in Seq(EventT), NEW s \in Seq(EventT)
  PROVE  /\ o \o s = <<>> <=> o = <<>> /\ s = <<>>
         /\ s = <<>> => o \o s = o
         /\ NoClose(o \o s) <=> NoClose(o) /\ NoClose(s)
         /\ s # <<>> => (o \o s)[Len(o \o s)] = s[Len(s)]
<1> DEFINE r == o \o s
<1>1. /\ Len(o) \in Nat /\ Len(s) \in Nat /\ DOMAIN o = 1 .. Len(o)
      /\ DOMAIN s = 1 .. Len(s) /\ DOMAIN r = 1 .. Len(o) + Len(s)
      /\ Len(r) = Len(o) + Len(s)
      /\ \A i \in 1 .. Len(o) : r[i] = o[i]
      /\ \A i \in Len(o) + 1 .. Len(o) + Len(s) : r[i] = s[i - Len(o)]
  OBVIOUS
<1>2. /\ r = <<>> <=> o = <<>> /\ s = <<>>
      /\ s = <<>> => r = o
  OBVIOUS
<1> HIDE DEF r
<1>3. ASSUME NEW i \in 1 .. Len(s) PROVE i + Len(o) \in DOMAIN r /\ r[i + Len(o)] = s[i]
  <2>1. i + Len(o) \in Len(o) + 1 .. Len(o) + Len(s) /\ (i + Len(o)) - Len(o) = i
    BY <1>1
  <2> QED BY <1>1, <2>1
<1>4. NoClose(r) => NoClose(o) /\ NoClose(s)
  BY <1>1, <1>3 DEF NoClose
<1>5. ASSUME NoClose(o), NoClose(s) PROVE NoClose(r)
  <2>1. ASSUME NEW i \in DOMAIN r PROVE r[i] = "work"
    <3>1. CASE i \in 1 .. Len(o)
      BY <1>1, <1>5, <3>1 DEF NoClose
    <3>2. CASE i \in Len(o) + 1 .. Len(o) + Len(s)
      <4>1. i - Len(o) \in 1 .. Len(s)
        BY <1>1, <3>2
      <4> QED BY <1>1, <1>5, <3>2, <4>1 DEF NoClose
    <3> QED BY <1>1, <3>1, <3>2
  <2> QED BY <2>1 DEF NoClose
<1>6. ASSUME s # <<>> PROVE r[Len(r)] = s[Len(s)]
  <2>1. Len(s) \in 1 .. Len(s) /\ Len(s) + Len(o) = Len(r)
    BY <1>1, <1>6
  <2> QED BY <1>3, <2>1
<1> QED BY <1>2, <1>4, <1>5, <1>6 DEF r

LEMMA Hearing ==
  ASSUME NEW o \in Seq(EventT), o # <<>>
  PROVE  /\ Head(o) \in EventT
         /\ NoClose(o) <=> Head(o) = "work" /\ NoClose(Tail(o))
         /\ Tail(o) # <<>> => Tail(o)[Len(Tail(o))] = o[Len(o)]
<1> DEFINE t == Tail(o)
<1>1. /\ Len(o) \in Nat \ {0} /\ DOMAIN o = 1 .. Len(o) /\ DOMAIN t = 1 .. Len(o) - 1
      /\ Len(t) = Len(o) - 1 /\ Head(o) = o[1] /\ o[1] \in EventT
      /\ \A i \in 1 .. Len(o) - 1 : t[i] = o[i + 1]
  OBVIOUS
<1>s. t \in Seq(EventT)
  OBVIOUS
<1> HIDE DEF t
<1>t. t # <<>> => Len(t) # 0
  BY <1>s
<1>2. ASSUME NoClose(o) PROVE o[1] = "work" /\ NoClose(t)
  <2>1. ASSUME NEW i \in 1 .. Len(o) - 1 PROVE t[i] = "work"
    <3>1. i + 1 \in DOMAIN o
      BY <1>1
    <3> QED BY <1>1, <1>2, <3>1 DEF NoClose
  <2> QED BY <1>1, <1>2, <2>1 DEF NoClose
<1>3. ASSUME o[1] = "work", NoClose(t) PROVE NoClose(o)
  <2>1. ASSUME NEW i \in 1 .. Len(o), i # 1 PROVE o[i] = "work"
    <3>1. i - 1 \in 1 .. Len(o) - 1 /\ (i - 1) + 1 = i
      BY <1>1, <2>1
    <3> QED BY <1>1, <1>3, <3>1 DEF NoClose
  <2> QED BY <1>1, <1>3, <2>1 DEF NoClose
<1>4. ASSUME t # <<>> PROVE t[Len(t)] = o[Len(o)]
  <2>1. Len(o) - 1 \in 1 .. Len(o) - 1 /\ (Len(o) - 1) + 1 = Len(o)
    BY <1>1, <1>t, <1>4
  <2> QED BY <1>1, <2>1
<1> QED BY <1>1, <1>2, <1>3, <1>4 DEF t

LEMMA Sayings ==
  /\ NoClose(<<>>) /\ NoClose(<<"work">>) /\ ~NoClose(<<"done">>)
  /\ ~NoClose(<<"cancelled", "done">>)
  /\ <<"work">>[Len(<<"work">>)] = "work" /\ <<"done">>[Len(<<"done">>)] = "done"
  /\ <<"cancelled", "done">>[Len(<<"cancelled", "done">>)] = "done"
BY DEF NoClose

(* What a step of a process does to its session file.                      *)
Opens(p, o) == p.st = "idle" /\ p.pipe # <<>> /\ ~p.int /\ o.proc.st = "open"

LEMMA MovedFile ==
  ASSUME NEW p \in ProcT, NEW f \in Seq(EntryT), NEW o, Outcome(p, f, o)
  PROVE  /\ ~NoEntries(f) => ~NoEntries(o.file)
         /\ \A i : IsEntry(f, i) => IsEntry(o.file, i)
         /\ (InTurn(p) => ~NoEntries(f)) =>
              /\ InTurn(o.proc) \/ o.say # <<>> => ~NoEntries(o.file)
              /\ o.file = <<>> => o.proc.st = "dead"
         /\ NoEntries(f) /\ ~InTurn(p) /\ ~Opens(p, o) => NoEntries(o.file)
         /\ LastInput(o.file) = LastInput(f) \/ Opens(p, o)
         /\ ~HasTask(f) /\ ~HasTask(p.pipe) =>
              ~HasTask(o.file) /\ ~HasTask(o.proc.pipe)
         /\ OneTask(f) /\ OneTask(p.pipe) /\ (HasTask(p.pipe) => ~HasTask(f)) =>
              /\ OneTask(o.file) /\ OneTask(o.proc.pipe)
              /\ HasTask(o.proc.pipe) => ~HasTask(o.file)
<1>0. /\ p.pipe \in Seq(LineT)
      /\ "cancelled" \in EntryT /\ "done" \in EntryT
      /\ ~IsInput("cancelled") /\ ~IsInput("done")
      /\ \A i : ~IsEntry(<<>>, i) /\ ~IsEntry(<<"meta">>, i)
  BY DEF ProcT, EntryT, IsInput, IsEntry
<1> DEFINE Stands == /\ o.file = f /\ o.proc.pipe = p.pipe
                     /\ o.say # <<>> \/ InTurn(o.proc) => InTurn(p)
                     /\ f = <<>> => InTurn(p) \/ o.proc.st = "dead"
           Steered == /\ p.st = "turn" /\ p.pipe # <<>> /\ o.proc.st = "turn"
                      /\ o.file = f /\ o.proc.pipe = Tail(p.pipe)
           Made == /\ f = <<>> /\ o.file = <<"meta">> /\ o.proc.pipe = p.pipe
                   /\ o.say = <<>> /\ o.proc.st = "idle"
           Closed == /\ openTurn(f) /\ o.file = Append(f, "cancelled")
                     /\ o.proc.pipe = p.pipe
           Opened == /\ p.pipe # <<>> /\ o.proc.pipe = Tail(p.pipe)
                     /\ o.file = Append(f, Head(p.pipe)) /\ Opens(p, o)
           Flushed == /\ p.st = "flush" /\ o.file = Append(f, "done")
                      /\ o.proc.pipe = p.pipe
           Cut == /\ p.st \in {"open", "turn"} /\ o.file = f \o <<"cancelled", "done">>
                  /\ o.proc.pipe = p.pipe
           Gone == /\ f = <<"meta">> /\ o.file = <<>> /\ o.say = <<>>
                   /\ o.proc.st = "dead" /\ o.proc.pipe = p.pipe
<1>b. \/ Stands \/ Steered \/ Made \/ Closed \/ Opened \/ Flushed \/ Cut \/ Gone
  BY DEF Outcome, InTurn, Opens
<1>1. CASE Stands
  BY <1>1, NewFile
<1>2. CASE Steered
  <2>1. /\ HasTask(p.pipe) <=> Head(p.pipe) = "task" \/ HasTask(Tail(p.pipe))
        /\ OneTask(p.pipe) => OneTask(Tail(p.pipe))
    BY <1>0, <1>2, Reading
  <2>2. InTurn(p) /\ (f = <<>> => NoEntries(f))
    BY <1>2, NewFile DEF InTurn
  <2> QED BY <1>2, <2>1, <2>2
<1>3. CASE Made
  BY <1>0, <1>3, NewFile DEF InTurn
<1>4. CASE Closed
  <2>1. ~NoEntries(f)
    BY <1>4, NothingOpen
  <2>2. /\ Append(f, "cancelled") # <<>> /\ ~NoEntries(Append(f, "cancelled"))
        /\ \A i : IsEntry(f, i) => IsEntry(Append(f, "cancelled"), i)
        /\ HasTask(Append(f, "cancelled")) <=> HasTask(f)
        /\ OneTask(f) => OneTask(Append(f, "cancelled"))
        /\ LastInput(Append(f, "cancelled")) = LastInput(f)
    BY <1>0, Appending
  <2> QED BY <1>4, <2>1, <2>2
<1>5. CASE Opened
  <2> DEFINE e == Head(p.pipe)
             g == Append(f, e)
  <2>1. /\ e \in EntryT /\ e # "meta"
        /\ HasTask(p.pipe) <=> e = "task" \/ HasTask(Tail(p.pipe))
        /\ OneTask(p.pipe) => OneTask(Tail(p.pipe)) /\ (e = "task" => ~HasTask(Tail(p.pipe)))
    BY <1>0, <1>5, Reading DEF LineT
  <2> HIDE DEF e
  <2>2. /\ g # <<>> /\ ~NoEntries(g) /\ \A i : IsEntry(f, i) => IsEntry(g, i)
        /\ HasTask(g) <=> HasTask(f) \/ e = "task"
        /\ OneTask(f) /\ ~(HasTask(f) /\ e = "task") => OneTask(g)
    BY <2>1, Appending
  <2>3. o.file = g /\ o.proc.pipe = Tail(p.pipe) /\ Opens(p, o)
    BY <1>5 DEF e
  <2> HIDE DEF g
  <2> QED BY <2>1, <2>2, <2>3
<1>6. CASE Flushed
  <2>1. InTurn(p)
    BY <1>6 DEF InTurn
  <2>2. /\ Append(f, "done") # <<>> /\ ~NoEntries(Append(f, "done"))
        /\ \A i : IsEntry(f, i) => IsEntry(Append(f, "done"), i)
        /\ HasTask(Append(f, "done")) <=> HasTask(f)
        /\ OneTask(f) => OneTask(Append(f, "done"))
        /\ LastInput(Append(f, "done")) = LastInput(f)
    BY <1>0, Appending
  <2> QED BY <1>6, <2>1, <2>2
<1>7. CASE Cut
  <2>1. InTurn(p)
    BY <1>7 DEF InTurn
  <2> QED BY <1>7, <2>1, Cancelling
<1>8. CASE Gone
  BY <1>0, <1>8, NewFile DEF InTurn
<1> QED BY <1>b, <1>1, <1>2, <1>3, <1>4, <1>5, <1>6, <1>7, <1>8

(* ... and what becomes of the process, its pipe and what it prints.       *)
LEMMA MovedProcess ==
  ASSUME NEW p \in ProcT, NEW f, NEW o, Outcome(p, f, o)
  PROVE  /\ Alive(p) /\ o.proc.int = p.int /\ o.proc.st # "none"
         /\ o.proc.pipe = p.pipe
              \/ /\ p.pipe # <<>> /\ o.proc.pipe = Tail(p.pipe)
                 /\ o.proc.st \in {"open", "turn"} /\ o.say = <<>>
         /\ Opens(p, o) => o.proc.pipe = Tail(p.pipe)
         /\ o.proc.st \in {"open", "turn"} => Opens(p, o) \/ p.st \in {"open", "turn"}
         /\ p.st \in {"open", "turn"} => o.proc.st \in {"open", "turn"} \/ ~NoClose(o.say)
         /\ o.say # <<>> => p.st \in {"open", "turn"}
         /\ o.proc.st \in {"open", "turn"} \/ (Alive(o.proc) /\ p.st \notin {"open", "turn"})
              => NoClose(o.say)
         /\ o.say = <<>> /\ p.st = "turn" => o.proc.st = "turn"
         /\ o.say # <<>> /\ o.say[Len(o.say)] = "work" => o.proc.st = "turn"
BY Sayings DEF Outcome, Opens, Alive

LEMMA Short ==
  ASSUME NEW q \in Seq(LineT), q # <<>>, Len(q) <= 1
  PROVE  Tail(q) = <<>>
<1>1. Tail(q) \in Seq(LineT) /\ Len(q) # 0 /\ Len(q) \in Nat
  OBVIOUS
<1>a. Len(Tail(q)) = Len(q) - 1
  BY Reading
<1>b. Len(q) = 1
  BY <1>1
<1>2. Len(Tail(q)) = 0
  BY <1>a, <1>b
<1> DEFINE t == Tail(q)
<1>3. t \in Seq(LineT) /\ Len(t) = 0
  BY <1>1, <1>2
<1> HIDE DEF t
<1>4. t = <<>>
  BY <1>3
<1> QED BY <1>4 DEF t

LEMMA MovedQuiet ==
  ASSUME NEW p \in ProcT, NEW f \in Seq(EntryT), NEW o, Outcome(p, f, o), Quiet(p)
  PROVE  /\ ~InTurn(p) /\ ~Opens(p, o)
         /\ o.proc.st = "dead" \/ Quiet(o.proc)
BY MovedProcess DEF Outcome, Quiet, InTurn, Opens

LEMMA FilesStays ==
  ASSUME NEW k \in Kids, Step(k), TypesOf(k), Files(k), Leased(k), Unborn(k)
  PROVE  Files(k)'
<1> USE DEF Files, Live, TypesOf, NoProcess, InTurn, Alive
<1>1. CASE Same(k)
  BY <1>1 DEF Same, DiskKept, ProcessKept, MindKept, PastKept
<1>2. CASE OnLaunchStarts(k)
  BY <1>2 DEF OnLaunchStarts, KidIs, ProcIs, Up, Leased
<1>3. CASE OnLaunchAbandons(k)
  BY <1>3 DEF OnLaunchAbandons, Released, KidIs, LaunchFails, Erased, Unstarts,
     MetaIs, Adds, Up, Leased
<1>4. CASE OnLaunchChecks(k)
  BY <1>4 DEF OnLaunchChecks, KidIs, MetaIs, Dies, Up
<1>5. CASE OnLaunchPrompts(k)
  BY <1>5 DEF OnLaunchPrompts, KidIs, ProcIs, Up
<1>6. CASE OnFreeLooks(k)
  BY <1>6 DEF OnFreeLooks, Up
<1>7. CASE OnFreeGives(k)
  BY <1>7 DEF OnFreeGives, MetaIs, Up
<1>8. CASE OnReadEvent(k)
  BY <1>8 DEF OnReadEvent, KidIs, ProcIs, ChildEvents, MetaIs, Adds, Up
<1>9. CASE OnReap(k)
  BY <1>9 DEF OnReap, KidIs, ChildEvents, MetaIs, Adds, Up, Leased
<1>10. CASE OnDrop(k)
  BY <1>10 DEF OnDrop, ProcIs, Released, KidIs, LaunchFails, Erased, Unstarts,
     MetaIs, Adds, Up, Leased
<1>11. CASE OnHoldExpires(k)
  BY <1>11 DEF OnHoldExpires, KidIs, ProcIs, Up
<1>12. ASSUME NEW prompt \in BOOLEAN, OnCreateChild(k, prompt) PROVE Files(k)'
  BY <1>12 DEF OnCreateChild, KidIs, MetaIs
<1>13. CASE OnSendStarts(k)
  BY <1>13 DEF OnSendStarts, KidIs, ProcIs, Leased
<1>14. CASE OnSendTakes(k)
  BY <1>14 DEF OnSendTakes, Up
<1>15. CASE OnSendWrites(k)
  BY <1>15 DEF OnSendWrites, KidIs, ProcIs, Up
<1>16. CASE OnstopChild(k)
  BY <1>16 DEF OnstopChild, KidIs, ProcIs, Dies, Erased, MetaIs, Booting
<1>17. CASE OnWithdrawChild(k)
  BY <1>17 DEF OnWithdrawChild, Erased, MetaIs
<1>18. CASE OnWithdrawKills(k)
  BY <1>18 DEF OnWithdrawKills, KidIs, Dies, Up
<1>19. CASE OnWithdrawEnds(k)
  BY <1>19 DEF OnWithdrawEnds, Up, Leased
<1>20. CASE OnCloseKills(k)
  BY <1>20 DEF OnCloseKills, KidIs, Dies
<1>21. CASE OnProcMoves(k)
  <2>1. PICK o : /\ Outcome(proc[k], file[k], o) /\ proc'[k] = o.proc
                 /\ file'[k] = o.file /\ out'[k] = out[k] \o o.say
                 /\ o.say \in Seq(EventT)
    BY <1>21 DEF OnProcMoves
  <2>2. proc[k] \in ProcT /\ file[k] \in Seq(EntryT) /\ out[k] \in Seq(EventT)
    BY DEF TypesOf
  <2>3. InTurn(o.proc) \/ o.say # <<>> \/ ~NoEntries(file[k]) => ~NoEntries(o.file)
    BY <2>1, <2>2, MovedFile DEF Files
  <2>4. out'[k] # <<>> => out[k] # <<>> \/ o.say # <<>>
    BY <2>1, <2>2, Saying
  <2> QED BY <2>1, <2>3, <2>4 DEF Files
<1>22. CASE OnStrayMoves(k)
  <2>1. PICK o : /\ Outcome(stray[k], file[k], o)
                 /\ \/ o.proc.st = "dead" /\ NoProcess(stray'[k])
                    \/ o.proc.st # "dead" /\ stray'[k] = o.proc
                 /\ file'[k] = file[k] \/ file'[k] = o.file
    BY <1>22 DEF OnStrayMoves
  <2>2. stray[k] \in ProcT /\ file[k] \in Seq(EntryT)
    BY DEF TypesOf
  <2>3. ~NoEntries(file[k]) => ~NoEntries(file'[k])
    BY <2>1, <2>2, MovedFile
  <2>4. proc'[k] = proc[k] /\ out'[k] = out[k]
    BY <1>22 DEF OnStrayMoves
  <2> QED BY <2>3, <2>4 DEF Files
<1>23. CASE OnProcDies(k)
  BY <1>23 DEF OnProcDies, Dies
<1>24. ASSUME NEW r \in ReportsOf(k), StartsReport(k, r) PROVE Files(k)'
  <2>1. file'[k] = file[k] \/ (~NoEntries(file[k]) /\ file'[k] = Append(file[k], "cancelled"))
    BY <1>24, DoneIsThere DEF StartsReport, TypesOf
  <2>2. file[k] \in Seq(EntryT) /\ "cancelled" \in EntryT /\ ~IsInput("cancelled")
    BY DEF TypesOf, EntryT, IsInput
  <2>3. ~NoEntries(file[k]) => ~NoEntries(file'[k])
    BY <2>1, <2>2, Appending
  <2>4. proc'[k] = proc[k] /\ out'[k] = out[k]
    BY <1>24 DEF StartsReport, ProcessKept
  <2> QED BY <2>3, <2>4 DEF Files
<1>25. ASSUME NEW r \in ReportsOf(k), DecidesReport(k, r) PROVE Files(k)'
  BY <1>25 DEF DecidesReport, Adds, Unstarts, MetaIs, ProcessKept, Up
<1>26. ASSUME NEW r \in ReportsOf(k), MarksReport(k, r) PROVE Files(k)'
  BY <1>26 DEF MarksReport, MetaIs, Adds, ProcessKept, Up
<1>27. ASSUME NEW r \in ReportsOf(k), TellsReport(k, r) PROVE Files(k)'
  BY <1>27 DEF TellsReport, ProcessKept, Up
<1>28. CASE StartsNext(k)
  BY <1>28 DEF StartsNext, KidIs, MetaIs
<1>29. CASE LooksOwed(k)
  BY <1>29 DEF LooksOwed, Adds, DiskKept, ProcessKept
<1>30. CASE GivesUpOwed(k)
  BY <1>30 DEF GivesUpOwed, DiskKept, ProcessKept, MindKept, PastKept
<1>31. CASE Closes(k)
  BY <1>31 DEF Closes, DiskKept, ProcessKept, MindKept, PastKept
<1>32. CASE Forgets(k)
  BY <1>32 DEF Forgets, Released, KidIs, DiskKept, ProcessKept, Up
<1>33. CASE Requeues(k)
  BY <1>33 DEF Requeues, MetaIs, ProcessKept, MindKept, PastKept
<1> QED
  BY <1>1, <1>2, <1>3, <1>4, <1>5, <1>6, <1>7, <1>8, <1>9, <1>10, <1>11, <1>12,
     <1>13, <1>14, <1>15, <1>16, <1>17, <1>18, <1>19, <1>20, <1>21, <1>22,
     <1>23, <1>24, <1>25, <1>26, <1>27, <1>28, <1>29, <1>30, <1>31, <1>32,
     <1>33 DEF Step, CallStep, ReportStep

LEMMA MarkedStays ==
  ASSUME NEW k \in Kids, Step(k), TypesOf(k), Marked(k), GivenUp(k), Queued(k)
  PROVE  Marked(k)'
<1>1. CASE Same(k)
  BY <1>1 DEF Same, DiskKept, ProcessKept, MindKept, PastKept, Marked, TypesOf
<1>2. CASE OnLaunchStarts(k)
  BY <1>2 DEF OnLaunchStarts, KidIs, ProcIs, Up, Marked, TypesOf
<1>3. CASE OnLaunchAbandons(k)
  BY <1>3 DEF OnLaunchAbandons, Released, KidIs, LaunchFails, Erased, Unstarts,
     MetaIs, Adds, Up, Marked, TypesOf
<1>4. CASE OnLaunchChecks(k)
  BY <1>4 DEF OnLaunchChecks, KidIs, MetaIs, Dies, Up, Marked, TypesOf
<1>5. CASE OnLaunchPrompts(k)
  BY <1>5 DEF OnLaunchPrompts, KidIs, ProcIs, Alive, Up, Marked, TypesOf
<1>6. CASE OnFreeLooks(k)
  BY <1>6 DEF OnFreeLooks, Up, Marked, TypesOf
<1>7. CASE OnFreeGives(k)
  BY <1>7 DEF OnFreeGives, MetaIs, Up, Marked, TypesOf
<1>8. CASE OnReadEvent(k)
  BY <1>8 DEF OnReadEvent, KidIs, ProcIs, ChildEvents, MetaIs, Adds, Live,
     Alive, Up, Marked, TypesOf, Blank
<1>9. CASE OnReap(k)
  BY <1>9 DEF OnReap, KidIs, ChildEvents, MetaIs, Adds, Live, Up, Marked,
     TypesOf
<1>10. CASE OnDrop(k)
  BY <1>10 DEF OnDrop, ProcIs, Released, KidIs, LaunchFails, Erased, Unstarts,
     MetaIs, Adds, Up, Marked, TypesOf
<1>11. CASE OnHoldExpires(k)
  BY <1>11 DEF OnHoldExpires, KidIs, ProcIs, Live, Alive, Up, Marked, TypesOf
<1>12. ASSUME NEW prompt \in BOOLEAN, OnCreateChild(k, prompt) PROVE Marked(k)'
  BY <1>12 DEF OnCreateChild, KidIs, MetaIs, Marked, TypesOf
<1>13. CASE OnSendStarts(k)
  BY <1>13 DEF OnSendStarts, KidIs, ProcIs, Live, Alive, Marked, TypesOf
<1>14. CASE OnSendTakes(k)
  BY <1>14 DEF OnSendTakes, Up, Marked, TypesOf
<1>15. CASE OnSendWrites(k)
  BY <1>15 DEF OnSendWrites, KidIs, ProcIs, Live, Alive, Up, Marked, TypesOf
<1>16. CASE OnstopChild(k)
  BY <1>16 DEF OnstopChild, KidIs, ProcIs, Dies, Erased, MetaIs, Live, Booting,
     Alive, Marked, TypesOf
<1>17. CASE OnWithdrawChild(k)
  BY <1>17 DEF OnWithdrawChild, Erased, MetaIs, Marked, TypesOf
<1>18. CASE OnWithdrawKills(k)
  BY <1>18 DEF OnWithdrawKills, KidIs, Dies, Live, Alive, Up, Marked, TypesOf
<1>19. CASE OnWithdrawEnds(k)
  BY <1>19 DEF OnWithdrawEnds, Live, Up, Marked, TypesOf, GivenUp
<1>20. CASE OnCloseKills(k)
  BY <1>20 DEF OnCloseKills, KidIs, Dies, Live, Alive, Marked, TypesOf
<1>21. CASE OnProcMoves(k)
  <2>1. PICK o : /\ Outcome(proc[k], file[k], o) /\ proc'[k] = o.proc
                 /\ file'[k] = o.file /\ out'[k] = out[k] \o o.say
                 /\ o.say \in Seq(EventT)
    BY <1>21 DEF OnProcMoves
  <2>2. proc[k] \in ProcT /\ file[k] \in Seq(EntryT) /\ out[k] \in Seq(EventT)
    BY DEF TypesOf
  <2>3. \A i : IsEntry(file[k], i) => IsEntry(file'[k], i)
    BY <2>1, <2>2, MovedFile
  <2> QED BY <1>21, <2>3 DEF OnProcMoves, Marked
<1>22. CASE OnStrayMoves(k)
  <2>1. PICK o : /\ Outcome(stray[k], file[k], o)
                 /\ \/ o.proc.st = "dead" /\ NoProcess(stray'[k])
                    \/ o.proc.st # "dead" /\ stray'[k] = o.proc
                 /\ file'[k] = file[k] \/ file'[k] = o.file
    BY <1>22 DEF OnStrayMoves
  <2>2. stray[k] \in ProcT /\ file[k] \in Seq(EntryT)
    BY DEF TypesOf
  <2>3. \A i : IsEntry(file[k], i) => IsEntry(file'[k], i)
    BY <2>1, <2>2, MovedFile
  <2> QED BY <1>22, <2>3 DEF OnStrayMoves, Marked
<1>23. CASE OnProcDies(k)
  BY <1>23 DEF OnProcDies, Dies, Alive, Marked, TypesOf
<1>24. ASSUME NEW r \in ReportsOf(k), StartsReport(k, r) PROVE Marked(k)'
  <2>1. file'[k] = file[k] \/ (~NoEntries(file[k]) /\ file'[k] = Append(file[k], "cancelled"))
    BY <1>24, DoneIsThere DEF StartsReport, TypesOf
  <2>2. file[k] \in Seq(EntryT) /\ "cancelled" \in EntryT /\ ~IsInput("cancelled")
    BY DEF TypesOf, EntryT, IsInput
  <2>3. \A i : IsEntry(file[k], i) => IsEntry(file'[k], i)
    BY <2>1, <2>2, Appending
  <2> QED BY <1>24, <2>3 DEF StartsReport, PastKept, Adds, Marked
<1>25. ASSUME NEW r \in ReportsOf(k), DecidesReport(k, r) PROVE Marked(k)'
  <2>1. lastTurn(file[k]).hasEntry => IsEntry(file[k], TurnKey(file[k]))
    BY HasEntry, TurnKeyIs DEF TypesOf
  <2> QED BY <1>25, <2>1 DEF DecidesReport, Adds, Unstarts, MetaIs, Marked
<1>26. ASSUME NEW r \in ReportsOf(k), MarksReport(k, r) PROVE Marked(k)'
  BY <1>26 DEF MarksReport, MetaIs, Adds, ProcessKept, Up, Marked, TypesOf
<1>27. ASSUME NEW r \in ReportsOf(k), TellsReport(k, r) PROVE Marked(k)'
  BY <1>27 DEF TellsReport, ProcessKept, Up, Marked, TypesOf
<1>28. CASE StartsNext(k)
  BY <1>28 DEF StartsNext, KidIs, MetaIs, Marked, TypesOf
<1>29. CASE LooksOwed(k)
  BY <1>29 DEF LooksOwed, Adds, DiskKept, ProcessKept, Live, Marked, TypesOf
<1>30. CASE GivesUpOwed(k)
  BY <1>30 DEF GivesUpOwed, DiskKept, ProcessKept, MindKept, PastKept, Marked,
     TypesOf
<1>31. CASE Closes(k)
  BY <1>31 DEF Closes, DiskKept, ProcessKept, MindKept, PastKept, Marked,
     TypesOf
<1>32. CASE Forgets(k)
  BY <1>32 DEF Forgets, Released, KidIs, NoProcess, DiskKept, ProcessKept,
     Live, Alive, Up, Marked, TypesOf
<1>33. CASE Requeues(k)
  BY <1>33 DEF Requeues, MetaIs, ProcessKept, MindKept, PastKept, Marked,
     TypesOf, Queued, Blank
<1> QED
  BY <1>1, <1>2, <1>3, <1>4, <1>5, <1>6, <1>7, <1>8, <1>9, <1>10, <1>11, <1>12,
     <1>13, <1>14, <1>15, <1>16, <1>17, <1>18, <1>19, <1>20, <1>21, <1>22,
     <1>23, <1>24, <1>25, <1>26, <1>27, <1>28, <1>29, <1>30, <1>31, <1>32,
     <1>33 DEF Step, CallStep, ReportStep

LEMMA TasksStays ==
  ASSUME NEW k \in Kids, Step(k), TypesOf(k), Tasks(k), Leased(k), Unborn(k),
         Queued(k), Forgotten(k)
  PROVE  Tasks(k)'
<1>1. CASE Same(k)
  BY <1>1 DEF Same, DiskKept, ProcessKept, MindKept, PastKept, Tasks,
     BeforePrompt, TypesOf, Live, NoProcess, Alive, Blank, PastT
<1>2. CASE OnLaunchStarts(k)
  BY <1>2, NewFile DEF OnLaunchStarts, KidIs, ProcIs, Tasks, BeforePrompt
<1>3. CASE OnLaunchAbandons(k)
  BY <1>3 DEF OnLaunchAbandons, Released, KidIs, LaunchFails, Erased, Unstarts,
     MetaIs, Adds, Up, Tasks, BeforePrompt, TypesOf, Live, NoProcess, Alive,
     Blank, PastT
<1>4. CASE OnLaunchChecks(k)
  BY <1>4 DEF OnLaunchChecks, KidIs, MetaIs, Dies, Up, Tasks, BeforePrompt,
     TypesOf, Live, NoProcess, Alive, Blank, PastT
<1>5. CASE OnLaunchPrompts(k)
  <2>1. proc[k].pipe \in Seq(LineT)
    BY DEF TypesOf, ProcT
  <2>2. /\ HasTask(Append(proc[k].pipe, "task"))
        /\ ~HasTask(proc[k].pipe) /\ OneTask(proc[k].pipe) =>
             OneTask(Append(proc[k].pipe, "task"))
    BY <2>1, PipeGets DEF LineT
  <2> QED BY <1>5, <2>2 DEF OnLaunchPrompts, KidIs, ProcIs, Tasks, BeforePrompt, Leased, Queued
<1>6. CASE OnFreeLooks(k)
  BY <1>6 DEF OnFreeLooks, Up, Tasks, BeforePrompt, TypesOf, Live, NoProcess,
     Alive, Blank, PastT
<1>7. CASE OnFreeGives(k)
  BY <1>7 DEF OnFreeGives, MetaIs, Up, Tasks, BeforePrompt, TypesOf, Live,
     NoProcess, Alive, Blank, PastT
<1>8. CASE OnReadEvent(k)
  BY <1>8 DEF OnReadEvent, KidIs, ProcIs, ChildEvents, MetaIs, Adds, Live,
     Alive, Up, Tasks, BeforePrompt, TypesOf, NoProcess, Blank, PastT
<1>9. CASE OnReap(k)
  BY <1>9 DEF OnReap, KidIs, ChildEvents, MetaIs, Adds, Live, Up, Tasks,
     BeforePrompt, TypesOf, NoProcess, Alive, Blank, PastT
<1>10. CASE OnDrop(k)
  BY <1>10, NewFile DEF OnDrop, Released, KidIs, ProcIs, LaunchFails, Erased, Unstarts,
     MetaIs, Adds, Tasks, BeforePrompt
<1>11. CASE OnHoldExpires(k)
  BY <1>11 DEF OnHoldExpires, KidIs, ProcIs, Live, Alive, Up, Tasks,
     BeforePrompt, TypesOf, NoProcess, Blank, PastT
<1>12. ASSUME NEW prompt \in BOOLEAN, OnCreateChild(k, prompt) PROVE Tasks(k)'
  BY <1>12, NewFile DEF OnCreateChild, KidIs, MetaIs, Tasks, BeforePrompt, Unborn, Born,
     NoProcess
<1>13. CASE OnSendStarts(k)
  BY <1>13, NewFile DEF OnSendStarts, KidIs, ProcIs, Tasks, BeforePrompt, Leased, Live
<1>14. CASE OnSendTakes(k)
  BY <1>14 DEF OnSendTakes, Up, Tasks, BeforePrompt, TypesOf, Live, NoProcess,
     Alive, Blank, PastT
<1>15. CASE OnSendWrites(k)
  <2>1. proc[k].pipe \in Seq(LineT)
    BY DEF TypesOf, ProcT
  <2>2. /\ HasTask(Append(proc[k].pipe, "msg")) <=> HasTask(proc[k].pipe)
        /\ OneTask(proc[k].pipe) => OneTask(Append(proc[k].pipe, "msg"))
    BY <2>1, PipeGets DEF LineT
  <2> QED BY <1>15, <2>2 DEF OnSendWrites, KidIs, ProcIs, Tasks, BeforePrompt
<1>16. CASE OnstopChild(k)
  BY <1>16 DEF OnstopChild, KidIs, ProcIs, Dies, Erased, MetaIs, Live, Booting,
     Alive, Tasks, BeforePrompt, TypesOf, NoProcess, Blank, PastT
<1>17. CASE OnWithdrawChild(k)
  BY <1>17 DEF OnWithdrawChild, Erased, MetaIs, Tasks, BeforePrompt, TypesOf,
     Live, NoProcess, Alive, Blank, PastT
<1>18. CASE OnWithdrawKills(k)
  BY <1>18 DEF OnWithdrawKills, KidIs, Dies, Live, Alive, Up, Tasks,
     BeforePrompt, TypesOf, NoProcess, Blank, PastT
<1>19. CASE OnWithdrawEnds(k)
  BY <1>19, NewFile DEF OnWithdrawEnds, Tasks, BeforePrompt, Leased, Live, NoProcess
<1>20. CASE OnCloseKills(k)
  BY <1>20 DEF OnCloseKills, KidIs, Dies, Live, Alive, Tasks, BeforePrompt,
     TypesOf, NoProcess, Blank, PastT
<1>21. CASE OnProcMoves(k)
  <2>1. PICK o : /\ Outcome(proc[k], file[k], o) /\ proc'[k] = o.proc
                 /\ file'[k] = o.file /\ out'[k] = out[k] \o o.say
                 /\ o.say \in Seq(EventT)
    BY <1>21 DEF OnProcMoves
  <2>2. proc[k] \in ProcT /\ file[k] \in Seq(EntryT) /\ out[k] \in Seq(EventT)
    BY DEF TypesOf
  <2>3. /\ ~HasTask(file[k]) /\ ~HasTask(proc[k].pipe) =>
             ~HasTask(o.file) /\ ~HasTask(o.proc.pipe)
        /\ OneTask(file[k]) /\ OneTask(proc[k].pipe)
             /\ (HasTask(proc[k].pipe) => ~HasTask(file[k])) =>
             /\ OneTask(o.file) /\ OneTask(o.proc.pipe)
             /\ HasTask(o.proc.pipe) => ~HasTask(o.file)
    BY <2>1, <2>2, MovedFile
  <2> QED BY <1>21, <2>1, <2>3 DEF OnProcMoves, Tasks, BeforePrompt
<1>22. CASE OnStrayMoves(k)
  <2>1. PICK o : /\ Outcome(stray[k], file[k], o)
                 /\ \/ o.proc.st = "dead" /\ NoProcess(stray'[k])
                    \/ o.proc.st # "dead" /\ stray'[k] = o.proc
                 /\ file'[k] = file[k] \/ file'[k] = o.file
    BY <1>22 DEF OnStrayMoves
  <2>2. stray[k] \in ProcT /\ file[k] \in Seq(EntryT)
    BY DEF TypesOf
  <2>3. k \in past.orphans
    BY <2>1, <2>2, MovedProcess DEF Leased, NoProcess, Alive
  <2> QED BY <1>22, <2>3 DEF OnStrayMoves, Tasks
<1>23. CASE OnProcDies(k)
  BY <1>23 DEF OnProcDies, Dies, Alive, Tasks, BeforePrompt, TypesOf, Live,
     NoProcess, Blank, PastT
<1>24. ASSUME NEW r \in ReportsOf(k), StartsReport(k, r) PROVE Tasks(k)'
  <2>1. file'[k] = file[k] \/ (~NoEntries(file[k]) /\ file'[k] = Append(file[k], "cancelled"))
    BY <1>24, DoneIsThere DEF StartsReport, TypesOf
  <2>2. file[k] \in Seq(EntryT) /\ "cancelled" \in EntryT /\ ~IsInput("cancelled")
    BY DEF TypesOf, EntryT, IsInput
  <2>3. /\ HasTask(file'[k]) <=> HasTask(file[k])
        /\ OneTask(file[k]) => OneTask(file'[k])
    BY <2>1, <2>2, Appending
  <2> QED BY <1>24, <2>3 DEF StartsReport, PastKept, ProcessKept, Tasks, BeforePrompt
<1>25. ASSUME NEW r \in ReportsOf(k), DecidesReport(k, r) PROVE Tasks(k)'
  BY <1>25 DEF DecidesReport, Adds, Unstarts, MetaIs, ProcessKept, Up, Tasks,
     BeforePrompt, TypesOf, Live, NoProcess, Alive, Blank, PastT
<1>26. ASSUME NEW r \in ReportsOf(k), MarksReport(k, r) PROVE Tasks(k)'
  BY <1>26 DEF MarksReport, MetaIs, Adds, ProcessKept, Up, Tasks, BeforePrompt,
     TypesOf, Live, NoProcess, Alive, Blank, PastT
<1>27. ASSUME NEW r \in ReportsOf(k), TellsReport(k, r) PROVE Tasks(k)'
  BY <1>27 DEF TellsReport, ProcessKept, Up, Tasks, BeforePrompt, TypesOf,
     Live, NoProcess, Alive, Blank, PastT
<1>28. CASE StartsNext(k)
  BY <1>28 DEF StartsNext, KidIs, MetaIs, Tasks, BeforePrompt, TypesOf, Live,
     NoProcess, Alive, Blank, PastT, Queued
<1>29. CASE LooksOwed(k)
  BY <1>29 DEF LooksOwed, Adds, DiskKept, ProcessKept, Live, Tasks,
     BeforePrompt, TypesOf, NoProcess, Alive, Blank, PastT
<1>30. CASE GivesUpOwed(k)
  BY <1>30 DEF GivesUpOwed, DiskKept, ProcessKept, MindKept, PastKept, Tasks,
     BeforePrompt, TypesOf, Live, NoProcess, Alive, Blank, PastT
<1>31. CASE Closes(k)
  BY <1>31 DEF Closes, DiskKept, ProcessKept, MindKept, PastKept, Tasks,
     BeforePrompt, TypesOf, Live, NoProcess, Alive, Blank, PastT
<1>32. CASE Forgets(k)
  BY <1>32, NewFile DEF Forgets, Released, KidIs, NoProcess, DiskKept, ProcessKept,
     Tasks, BeforePrompt
<1>33. CASE Requeues(k)
  <2>1. NoProcess(proc[k]) /\ kids[k].pc = "none"
    BY <1>33 DEF Requeues, Forgotten, Leased
  <2>2. meta'[k].queued => NoEntries(file[k]) \/ meta[k].queued
    BY <1>33, HasEntry DEF Requeues, MetaIs, Spent, TypesOf
  <2>3. NoEntries(file[k]) => ~HasTask(file[k])
    BY DEF NoEntries, HasTask
  <2>4. ~HasTask(proc[k].pipe)
    BY <2>1, NewFile DEF NoProcess
  <2> QED BY <1>33, <2>1, <2>2, <2>3, <2>4
       DEF Requeues, ProcessKept, MindKept, PastKept, Tasks, BeforePrompt
<1> QED
  BY <1>1, <1>2, <1>3, <1>4, <1>5, <1>6, <1>7, <1>8, <1>9, <1>10, <1>11, <1>12,
     <1>13, <1>14, <1>15, <1>16, <1>17, <1>18, <1>19, <1>20, <1>21, <1>22,
     <1>23, <1>24, <1>25, <1>26, <1>27, <1>28, <1>29, <1>30, <1>31, <1>32,
     <1>33 DEF Step, CallStep, ReportStep

LEMMA BootStoppedStays ==
  ASSUME NEW k \in Kids, Step(k), TypesOf(k), BootStopped(k), Tasks(k),
         Leased(k), Unborn(k), Forgotten(k), Queued(k)
  PROVE  BootStopped(k)'
<1>1. CASE Same(k)
  BY <1>1 DEF Same, DiskKept, ProcessKept, MindKept, PastKept, BootStopped,
     Booting, TypesOf, Live, PastT
<1>2. CASE OnLaunchStarts(k)
  BY <1>2, NewFile DEF OnLaunchStarts, KidIs, ProcIs, BootStopped, Booting
<1>3. CASE OnLaunchAbandons(k)
  BY <1>3 DEF OnLaunchAbandons, Released, KidIs, LaunchFails, Erased, Unstarts,
     MetaIs, Adds, Up, BootStopped, Booting, TypesOf, Live, PastT
<1>4. CASE OnLaunchChecks(k)
  BY <1>4 DEF OnLaunchChecks, KidIs, MetaIs, Dies, Up, BootStopped, Booting,
     TypesOf, Live, PastT
<1>5. CASE OnLaunchPrompts(k)
  BY <1>5 DEF OnLaunchPrompts, KidIs, ProcIs, BootStopped, Booting
<1>6. CASE OnFreeLooks(k)
  BY <1>6 DEF OnFreeLooks, Up, BootStopped, Booting, TypesOf, Live, PastT
<1>7. CASE OnFreeGives(k)
  BY <1>7 DEF OnFreeGives, MetaIs, Up, BootStopped, Booting, TypesOf, Live,
     PastT
<1>8. CASE OnReadEvent(k)
  BY <1>8 DEF OnReadEvent, KidIs, ProcIs, ChildEvents, MetaIs, Adds, Live,
     Alive, Up, BootStopped, Booting, TypesOf, PastT
<1>9. CASE OnReap(k)
  BY <1>9 DEF OnReap, KidIs, ChildEvents, MetaIs, Adds, Live, Up, BootStopped,
     Booting, TypesOf, PastT
<1>10. CASE OnDrop(k)
  BY <1>10, NewFile DEF OnDrop, Released, KidIs, ProcIs, LaunchFails, Erased, Unstarts,
     MetaIs, Adds, BootStopped, Booting
<1>11. CASE OnHoldExpires(k)
  BY <1>11 DEF OnHoldExpires, KidIs, ProcIs, Live, Alive, Up, BootStopped,
     Booting, TypesOf, PastT
<1>12. ASSUME NEW prompt \in BOOLEAN, OnCreateChild(k, prompt) PROVE BootStopped(k)'
  BY <1>12 DEF OnCreateChild, KidIs, MetaIs, BootStopped, Booting, TypesOf,
     Live, PastT, Unborn, Born
<1>13. CASE OnSendStarts(k)
  BY <1>13, NewFile DEF OnSendStarts, KidIs, ProcIs, BootStopped, Booting
<1>14. CASE OnSendTakes(k)
  BY <1>14 DEF OnSendTakes, Up, BootStopped, Booting, TypesOf, Live, PastT
<1>15. CASE OnSendWrites(k)
  <2>1. proc[k].pipe \in Seq(LineT)
    BY DEF TypesOf, ProcT
  <2>2. HasTask(Append(proc[k].pipe, "msg")) <=> HasTask(proc[k].pipe)
    BY <2>1, PipeGets DEF LineT
  <2> QED BY <1>15, <2>2 DEF OnSendWrites, KidIs, ProcIs, BootStopped, Booting
<1>16. CASE OnstopChild(k)
  <2>1. Booting(k) => kids[k].pc \in {"exec", "check"}
    BY DEF Booting
  <2>2. k \notin past.orphans /\ Booting(k) /\ k \in running =>
          ~HasTask(file[k]) /\ ~HasTask(proc[k].pipe) /\ ~meta[k].queued
    BY <2>1 DEF Tasks, BeforePrompt, Leased, Queued
  <2> QED BY <1>16, <2>2 DEF OnstopChild, KidIs, ProcIs, Dies, Erased, MetaIs, BootStopped, Booting
<1>17. CASE OnWithdrawChild(k)
  BY <1>17 DEF OnWithdrawChild, Erased, MetaIs, BootStopped, Booting, TypesOf,
     Live, PastT
<1>18. CASE OnWithdrawKills(k)
  BY <1>18 DEF OnWithdrawKills, KidIs, Dies, Live, Alive, Up, BootStopped,
     Booting, TypesOf, PastT
<1>19. CASE OnWithdrawEnds(k)
  BY <1>19, NewFile DEF OnWithdrawEnds, BootStopped, Booting
<1>20. CASE OnCloseKills(k)
  BY <1>20 DEF OnCloseKills, KidIs, Dies, Live, Alive, BootStopped, Booting,
     TypesOf, PastT
<1>21. CASE OnProcMoves(k)
  <2>1. PICK o : /\ Outcome(proc[k], file[k], o) /\ proc'[k] = o.proc
                 /\ file'[k] = o.file /\ out'[k] = out[k] \o o.say
                 /\ o.say \in Seq(EventT)
    BY <1>21 DEF OnProcMoves
  <2>2. proc[k] \in ProcT /\ file[k] \in Seq(EntryT) /\ out[k] \in Seq(EventT)
    BY DEF TypesOf
  <2>3. ~HasTask(file[k]) /\ ~HasTask(proc[k].pipe) =>
             ~HasTask(o.file) /\ ~HasTask(o.proc.pipe)
    BY <2>1, <2>2, MovedFile
  <2> QED BY <1>21, <2>1, <2>3 DEF OnProcMoves, BootStopped, Booting
<1>22. CASE OnStrayMoves(k)
  <2>1. PICK o : /\ Outcome(stray[k], file[k], o)
                 /\ \/ o.proc.st = "dead" /\ NoProcess(stray'[k])
                    \/ o.proc.st # "dead" /\ stray'[k] = o.proc
                 /\ file'[k] = file[k] \/ file'[k] = o.file
    BY <1>22 DEF OnStrayMoves
  <2>2. stray[k] \in ProcT /\ file[k] \in Seq(EntryT)
    BY DEF TypesOf
  <2>3. k \in past.orphans
    BY <2>1, <2>2, MovedProcess DEF Leased, NoProcess, Alive
  <2> QED BY <1>22, <2>3 DEF OnStrayMoves, BootStopped, Booting
<1>23. CASE OnProcDies(k)
  BY <1>23 DEF OnProcDies, Dies, Alive, BootStopped, Booting, TypesOf, Live,
     PastT
<1>24. ASSUME NEW r \in ReportsOf(k), StartsReport(k, r) PROVE BootStopped(k)'
  <2>1. file'[k] = file[k] \/ (~NoEntries(file[k]) /\ file'[k] = Append(file[k], "cancelled"))
    BY <1>24, DoneIsThere DEF StartsReport, TypesOf
  <2>2. file[k] \in Seq(EntryT) /\ "cancelled" \in EntryT /\ ~IsInput("cancelled")
    BY DEF TypesOf, EntryT, IsInput
  <2>3. HasTask(file'[k]) <=> HasTask(file[k])
    BY <2>1, <2>2, Appending
  <2> QED BY <1>24, <2>3 DEF StartsReport, PastKept, ProcessKept, BootStopped, Booting
<1>25. ASSUME NEW r \in ReportsOf(k), DecidesReport(k, r) PROVE BootStopped(k)'
  BY <1>25 DEF DecidesReport, Adds, Unstarts, MetaIs, ProcessKept, Up,
     BootStopped, Booting, TypesOf, Live, PastT
<1>26. ASSUME NEW r \in ReportsOf(k), MarksReport(k, r) PROVE BootStopped(k)'
  BY <1>26 DEF MarksReport, MetaIs, Adds, ProcessKept, Up, BootStopped,
     Booting, TypesOf, Live, PastT
<1>27. ASSUME NEW r \in ReportsOf(k), TellsReport(k, r) PROVE BootStopped(k)'
  BY <1>27 DEF TellsReport, ProcessKept, Up, BootStopped, Booting, TypesOf,
     Live, PastT
<1>28. CASE StartsNext(k)
  BY <1>28 DEF StartsNext, KidIs, MetaIs, BootStopped, Booting, TypesOf, Live,
     PastT, Queued
<1>29. CASE LooksOwed(k)
  BY <1>29 DEF LooksOwed, Adds, DiskKept, ProcessKept, Live, BootStopped,
     Booting, TypesOf, PastT
<1>30. CASE GivesUpOwed(k)
  BY <1>30 DEF GivesUpOwed, DiskKept, ProcessKept, MindKept, PastKept,
     BootStopped, Booting, TypesOf, Live, PastT
<1>31. CASE Closes(k)
  BY <1>31 DEF Closes, DiskKept, ProcessKept, MindKept, PastKept, BootStopped,
     Booting, TypesOf, Live, PastT
<1>32. CASE Forgets(k)
  <2>1. proc'[k] = proc[k] \/ ~HasTask(proc'[k].pipe)
    BY <1>32, NewFile DEF Forgets, ProcessKept, NoProcess
  <2>2. /\ kids'[k].pc = "none" /\ file'[k] = file[k] /\ meta'[k] = meta[k]
        /\ k \in past'.bootStopped \ past'.orphans =>
             k \in past.bootStopped \ past.orphans /\ ~meta[k].task
    BY <1>32 DEF Forgets, Released, KidIs, DiskKept
  <2> QED BY <2>1, <2>2 DEF BootStopped, Booting
<1>33. CASE Requeues(k)
  <2>1. kids[k].pc = "none" /\ serve = "down" /\ serve' = "up"
    BY <1>33 DEF Requeues, Forgotten
  <2>2. meta[k].task \/ (meta'[k] = meta[k])
    BY <1>33 DEF Requeues
  <2>3. k \in past.bootStopped \ past.orphans => meta'[k] = meta[k]
    BY <2>1, <2>2 DEF BootStopped
  <2>4. /\ file'[k] = file[k] /\ proc'[k] = proc[k] /\ kids'[k] = kids[k]
        /\ k \in past'.bootStopped <=> k \in past.bootStopped
        /\ k \in past'.orphans <=> k \in past.orphans
    BY <1>33 DEF Requeues, ProcessKept, MindKept, PastKept
  <2> QED BY <2>1, <2>3, <2>4 DEF BootStopped, Booting
<1> QED
  BY <1>1, <1>2, <1>3, <1>4, <1>5, <1>6, <1>7, <1>8, <1>9, <1>10, <1>11, <1>12,
     <1>13, <1>14, <1>15, <1>16, <1>17, <1>18, <1>19, <1>20, <1>21, <1>22,
     <1>23, <1>24, <1>25, <1>26, <1>27, <1>28, <1>29, <1>30, <1>31, <1>32,
     <1>33 DEF Step, CallStep, ReportStep

LEMMA LaunchedStays ==
  ASSUME NEW k \in Kids, Step(k), TypesOf(k), Launched(k), Leased(k),
         Unborn(k), Queued(k), Forgotten(k)
  PROVE  Launched(k)'
<1> USE DEF Launched, BeforePrompt, Launching
<1>1. CASE Same(k)
  BY <1>1 DEF Same, DiskKept, ProcessKept, MindKept, PastKept, Live, Alive
<1>2. CASE OnLaunchStarts(k)
  BY <1>2 DEF OnLaunchStarts, KidIs, ProcIs, Up, Live, Alive
<1>3. CASE OnLaunchAbandons(k)
  BY <1>3 DEF OnLaunchAbandons, Released, KidIs, LaunchFails, Erased, Unstarts,
     MetaIs, Adds, Up, Live, Alive
<1>4. CASE OnLaunchChecks(k)
  BY <1>4 DEF OnLaunchChecks, KidIs, MetaIs, Dies, Up, Live, Alive
<1>5. CASE OnLaunchPrompts(k)
  BY <1>5 DEF OnLaunchPrompts, KidIs, ProcIs, Alive, Up, Live
<1>6. CASE OnFreeLooks(k)
  BY <1>6 DEF OnFreeLooks, Up, Live, Alive
<1>7. CASE OnFreeGives(k)
  BY <1>7 DEF OnFreeGives, MetaIs, Up, Live, Alive
<1>8. CASE OnReadEvent(k)
  BY <1>8 DEF OnReadEvent, KidIs, ProcIs, ChildEvents, MetaIs, Adds, Live, Alive,
     Up, Leased, NoProcess
<1>9. CASE OnReap(k)
  BY <1>9 DEF OnReap, KidIs, ChildEvents, MetaIs, Adds, Live, Up, Alive, Queued,
     Leased, NoProcess
<1>10. CASE OnDrop(k)
  BY <1>10 DEF OnDrop, ProcIs, Released, KidIs, LaunchFails, Erased, Unstarts,
     MetaIs, Adds, Up, Live, Alive
<1>11. CASE OnHoldExpires(k)
  BY <1>11 DEF OnHoldExpires, KidIs, ProcIs, Live, Alive, Up
<1>12. ASSUME NEW prompt \in BOOLEAN, OnCreateChild(k, prompt) PROVE Launched(k)'
  BY <1>12 DEF OnCreateChild, KidIs, MetaIs, Live, Alive, Unborn, Born
<1>13. CASE OnSendStarts(k)
  BY <1>13 DEF OnSendStarts, KidIs, ProcIs, Live, Alive
<1>14. CASE OnSendTakes(k)
  BY <1>14 DEF OnSendTakes, Up, Live, Alive, Queued
<1>15. CASE OnSendWrites(k)
  BY <1>15 DEF OnSendWrites, KidIs, ProcIs, Live, Alive, Up, Leased
<1>16. CASE OnstopChild(k)
  BY <1>16 DEF OnstopChild, KidIs, ProcIs, Dies, Erased, MetaIs, Live, Booting,
     Alive, Queued
<1>17. CASE OnWithdrawChild(k)
  BY <1>17 DEF OnWithdrawChild, Erased, MetaIs, Live, Alive
<1>18. CASE OnWithdrawKills(k)
  BY <1>18 DEF OnWithdrawKills, KidIs, Dies, Live, Alive, Up
<1>19. CASE OnWithdrawEnds(k)
  BY <1>19 DEF OnWithdrawEnds, Live, Up, Alive
<1>20. CASE OnCloseKills(k)
  BY <1>20 DEF OnCloseKills, KidIs, Dies, Live, Alive
<1>21. CASE OnProcMoves(k)
  BY <1>21 DEF OnProcMoves
<1>22. CASE OnStrayMoves(k)
  BY <1>22 DEF OnStrayMoves
<1>23. CASE OnProcDies(k)
  BY <1>23 DEF OnProcDies, Dies, Alive, Live
<1>24. ASSUME NEW r \in ReportsOf(k), StartsReport(k, r) PROVE Launched(k)'
  BY <1>24 DEF StartsReport, PastKept, ProcessKept
<1>25. ASSUME NEW r \in ReportsOf(k), DecidesReport(k, r) PROVE Launched(k)'
  BY <1>25 DEF DecidesReport, Unstarts, MetaIs, Adds
<1>26. ASSUME NEW r \in ReportsOf(k), MarksReport(k, r) PROVE Launched(k)'
  BY <1>26 DEF MarksReport, MetaIs, Adds, ProcessKept, Up, Live, Alive
<1>27. ASSUME NEW r \in ReportsOf(k), TellsReport(k, r) PROVE Launched(k)'
  BY <1>27 DEF TellsReport, ProcessKept, Up, Live, Alive
<1>28. CASE StartsNext(k)
  BY <1>28 DEF StartsNext, KidIs, MetaIs, Live, Alive, Queued
<1>29. CASE LooksOwed(k)
  BY <1>29 DEF LooksOwed, Adds, DiskKept, ProcessKept, Live, Alive
<1>30. CASE GivesUpOwed(k)
  BY <1>30 DEF GivesUpOwed, DiskKept, ProcessKept, MindKept, PastKept, Live, Alive
<1>31. CASE Closes(k)
  BY <1>31 DEF Closes, DiskKept, ProcessKept, MindKept, PastKept, Live, Alive
<1>32. CASE Forgets(k)
  BY <1>32 DEF Forgets, Released, KidIs, NoProcess, DiskKept, ProcessKept, Live,
     Alive, Up
<1>33. CASE Requeues(k)
  BY <1>33 DEF Requeues, MetaIs, ProcessKept, MindKept, PastKept, Live, Alive
<1> QED
  BY <1>1, <1>2, <1>3, <1>4, <1>5, <1>6, <1>7, <1>8, <1>9, <1>10, <1>11, <1>12,
     <1>13, <1>14, <1>15, <1>16, <1>17, <1>18, <1>19, <1>20, <1>21, <1>22,
     <1>23, <1>24, <1>25, <1>26, <1>27, <1>28, <1>29, <1>30, <1>31, <1>32,
     <1>33 DEF Step, CallStep, ReportStep

LEMMA LastWorksStays ==
  ASSUME NEW k \in Kids, Step(k), TypesOf(k), LastWorks(k), Leased(k),
         Unborn(k)
  PROVE  LastWorks(k)'
<1>1. CASE Same(k)
  BY <1>1 DEF Same, DiskKept, ProcessKept, MindKept, PastKept, LastWorks, Alive
<1>2. CASE OnLaunchStarts(k)
  BY <1>2 DEF OnLaunchStarts, KidIs, ProcIs, Up, LastWorks, Alive, Leased
<1>3. CASE OnLaunchAbandons(k)
  BY <1>3 DEF OnLaunchAbandons, Released, KidIs, LaunchFails, Erased, Unstarts,
     MetaIs, Adds, Up, LastWorks, Alive
<1>4. CASE OnLaunchChecks(k)
  BY <1>4 DEF OnLaunchChecks, KidIs, MetaIs, Dies, Up, LastWorks, Alive
<1>5. CASE OnLaunchPrompts(k)
  BY <1>5 DEF OnLaunchPrompts, KidIs, ProcIs, Alive, Up, LastWorks
<1>6. CASE OnFreeLooks(k)
  BY <1>6 DEF OnFreeLooks, Up, LastWorks, Alive
<1>7. CASE OnFreeGives(k)
  BY <1>7 DEF OnFreeGives, MetaIs, Up, LastWorks, Alive
<1>8. CASE OnReadEvent(k)
  <2>t. out[k] \in Seq(EventT) /\ proc[k].pipe \in Seq(LineT)
    BY DEF TypesOf, ProcT
  <2>1. Tail(out[k]) # <<>> => Tail(out[k])[Len(Tail(out[k]))] = out[k][Len(out[k])]
    BY <1>8, <2>t, Hearing DEF OnReadEvent
  <2> QED BY <1>8, <2>1 DEF OnReadEvent, KidIs, ProcIs, LastWorks
<1>9. CASE OnReap(k)
  BY <1>9 DEF OnReap, KidIs, ChildEvents, MetaIs, Adds, Live, Up, LastWorks,
     Alive
<1>10. CASE OnDrop(k)
  BY <1>10 DEF OnDrop, ProcIs, Released, KidIs, LaunchFails, Erased, Unstarts,
     MetaIs, Adds, Up, LastWorks, Alive, Leased
<1>11. CASE OnHoldExpires(k)
  BY <1>11 DEF OnHoldExpires, KidIs, ProcIs, Live, Alive, Up, LastWorks
<1>12. ASSUME NEW prompt \in BOOLEAN, OnCreateChild(k, prompt) PROVE LastWorks(k)'
  BY <1>12 DEF OnCreateChild, KidIs, MetaIs, LastWorks, Alive
<1>13. CASE OnSendStarts(k)
  BY <1>13 DEF OnSendStarts, KidIs, ProcIs, Live, Alive, LastWorks, Leased
<1>14. CASE OnSendTakes(k)
  BY <1>14 DEF OnSendTakes, Up, LastWorks, Alive
<1>15. CASE OnSendWrites(k)
  BY <1>15 DEF OnSendWrites, KidIs, ProcIs, Live, Alive, Up, LastWorks
<1>16. CASE OnstopChild(k)
  BY <1>16 DEF OnstopChild, KidIs, ProcIs, Dies, Erased, MetaIs, Live, Booting,
     Alive, LastWorks
<1>17. CASE OnWithdrawChild(k)
  BY <1>17 DEF OnWithdrawChild, Erased, MetaIs, LastWorks, Alive
<1>18. CASE OnWithdrawKills(k)
  BY <1>18 DEF OnWithdrawKills, KidIs, Dies, Live, Alive, Up, LastWorks
<1>19. CASE OnWithdrawEnds(k)
  BY <1>19 DEF OnWithdrawEnds, Live, Up, LastWorks, Alive
<1>20. CASE OnCloseKills(k)
  BY <1>20 DEF OnCloseKills, KidIs, Dies, Live, Alive, LastWorks
<1>21. CASE OnProcMoves(k)
  <2>1. PICK o : /\ Outcome(proc[k], file[k], o) /\ proc'[k] = o.proc
                 /\ file'[k] = o.file /\ out'[k] = out[k] \o o.say
                 /\ o.say \in Seq(EventT)
    BY <1>21 DEF OnProcMoves
  <2>2. proc[k] \in ProcT /\ file[k] \in Seq(EntryT) /\ out[k] \in Seq(EventT)
    BY DEF TypesOf
  <2>3. CASE o.say = <<>>
    <3>1. out'[k] = out[k] /\ Alive(proc[k])
      BY <2>1, <2>2, <2>3, Saying, MovedProcess
    <3>2. proc[k].st = "turn" => proc'[k].st = "turn"
      BY <2>1, <2>2, <2>3, MovedProcess
    <3> QED BY <3>1, <3>2 DEF LastWorks, Alive
  <2>4. CASE o.say # <<>>
    <3>1. out'[k][Len(out'[k])] = o.say[Len(o.say)]
      BY <2>1, <2>2, <2>4, Saying
    <3>2. o.say[Len(o.say)] = "work" => proc'[k].st = "turn"
      BY <2>1, <2>2, <2>4, MovedProcess
    <3> QED BY <3>1, <3>2 DEF LastWorks
  <2> QED BY <2>3, <2>4
<1>22. CASE OnStrayMoves(k)
  BY <1>22 DEF OnStrayMoves, LastWorks
<1>23. CASE OnProcDies(k)
  BY <1>23 DEF OnProcDies, Dies, Alive, LastWorks
<1>24. ASSUME NEW r \in ReportsOf(k), StartsReport(k, r) PROVE LastWorks(k)'
  BY <1>24 DEF StartsReport, PastKept, ProcessKept, LastWorks
<1>25. ASSUME NEW r \in ReportsOf(k), DecidesReport(k, r) PROVE LastWorks(k)'
  BY <1>25 DEF DecidesReport, ProcessKept, LastWorks
<1>26. ASSUME NEW r \in ReportsOf(k), MarksReport(k, r) PROVE LastWorks(k)'
  BY <1>26 DEF MarksReport, MetaIs, Adds, ProcessKept, Up, LastWorks, Alive
<1>27. ASSUME NEW r \in ReportsOf(k), TellsReport(k, r) PROVE LastWorks(k)'
  BY <1>27 DEF TellsReport, ProcessKept, Up, LastWorks, Alive
<1>28. CASE StartsNext(k)
  BY <1>28 DEF StartsNext, KidIs, MetaIs, LastWorks, Alive
<1>29. CASE LooksOwed(k)
  BY <1>29 DEF LooksOwed, Adds, DiskKept, ProcessKept, Live, LastWorks, Alive
<1>30. CASE GivesUpOwed(k)
  BY <1>30 DEF GivesUpOwed, DiskKept, ProcessKept, MindKept, PastKept,
     LastWorks, Alive
<1>31. CASE Closes(k)
  BY <1>31 DEF Closes, DiskKept, ProcessKept, MindKept, PastKept, LastWorks,
     Alive
<1>32. CASE Forgets(k)
  BY <1>32 DEF Forgets, Released, KidIs, NoProcess, DiskKept, ProcessKept,
     Live, Alive, Up, LastWorks
<1>33. CASE Requeues(k)
  BY <1>33 DEF Requeues, MetaIs, ProcessKept, MindKept, PastKept, LastWorks,
     Alive
<1> QED
  BY <1>1, <1>2, <1>3, <1>4, <1>5, <1>6, <1>7, <1>8, <1>9, <1>10, <1>11, <1>12,
     <1>13, <1>14, <1>15, <1>16, <1>17, <1>18, <1>19, <1>20, <1>21, <1>22,
     <1>23, <1>24, <1>25, <1>26, <1>27, <1>28, <1>29, <1>30, <1>31, <1>32,
     <1>33 DEF Step, CallStep, ReportStep

LEMMA HoldsSlotStays ==
  ASSUME NEW k \in Kids, Step(k), TypesOf(k), HoldsSlot(k), Leased(k),
         Unborn(k), Queued(k), Forgotten(k), Launched(k)
  PROVE  HoldsSlot(k)'
<1>1. CASE Same(k)
  BY <1>1 DEF Same, DiskKept, ProcessKept, MindKept, PastKept, HoldsSlot,
     BeforePrompt, OpenTurn, Live, Alive, NoProcess, TypesOf
<1>2. CASE OnLaunchStarts(k)
  BY <1>2 DEF OnLaunchStarts, KidIs, ProcIs, HoldsSlot, BeforePrompt, OpenTurn
<1>3. CASE OnLaunchAbandons(k)
  BY <1>3 DEF OnLaunchAbandons, Released, KidIs, LaunchFails, Erased, Unstarts,
     MetaIs, Adds, HoldsSlot, Leased, NoProcess, BeforePrompt, OpenTurn
<1>4. CASE OnLaunchChecks(k)
  BY <1>4 DEF OnLaunchChecks, KidIs, MetaIs, Dies, Up, HoldsSlot, BeforePrompt,
     OpenTurn, Live, Alive, NoProcess, TypesOf
<1>5. CASE OnLaunchPrompts(k)
  <2>t. out[k] \in Seq(EventT) /\ proc[k].pipe \in Seq(LineT)
    BY DEF TypesOf, ProcT
  <2>1. Len(Append(proc[k].pipe, "task")) = Len(proc[k].pipe) + 1
    BY <2>t, PipeGets DEF LineT
  <2>2. proc[k].pipe = <<>> => Len(proc[k].pipe) = 0
    OBVIOUS
  <2> QED BY <1>5, <2>1, <2>2, Sayings
       DEF OnLaunchPrompts, KidIs, ProcIs, HoldsSlot, BeforePrompt, OpenTurn, Alive, Leased, Launched
<1>6. CASE OnFreeLooks(k)
  BY <1>6 DEF OnFreeLooks, HoldsSlot, BeforePrompt, OpenTurn
<1>7. CASE OnFreeGives(k)
  BY <1>7 DEF OnFreeGives, MetaIs, HoldsSlot, Launched, BeforePrompt, OpenTurn
<1>8. CASE OnReadEvent(k)
  <2>t. out[k] \in Seq(EventT) /\ proc[k].pipe \in Seq(LineT)
    BY DEF TypesOf, ProcT
  <2>1. NoClose(out[k]) <=> Head(out[k]) = "work" /\ NoClose(Tail(out[k]))
    BY <1>8, <2>t, Hearing DEF OnReadEvent
  <2>2. CASE Head(out[k]) = "work"
    BY <1>8, <2>1, <2>2
       DEF OnReadEvent, KidIs, ProcIs, ChildEvents, MetaIs, HoldsSlot, BeforePrompt, OpenTurn, Alive
  <2>3. CASE Head(out[k]) # "work"
    BY <1>8, <2>1, <2>3
       DEF OnReadEvent, KidIs, ProcIs, ChildEvents, MetaIs, HoldsSlot, BeforePrompt, OpenTurn, Alive
  <2> QED BY <2>2, <2>3
<1>9. CASE OnReap(k)
  BY <1>9 DEF OnReap, KidIs, ChildEvents, MetaIs, Adds, HoldsSlot, Alive, BeforePrompt, OpenTurn
<1>10. CASE OnDrop(k)
  BY <1>10 DEF OnDrop, Released, KidIs, ProcIs, LaunchFails, Erased, Unstarts,
     MetaIs, Adds, HoldsSlot, Alive, BeforePrompt, OpenTurn
<1>11. CASE OnHoldExpires(k)
  BY <1>11 DEF OnHoldExpires, KidIs, ProcIs, Live, Alive, Up, HoldsSlot,
     BeforePrompt, OpenTurn, NoProcess, TypesOf
<1>12. ASSUME NEW prompt \in BOOLEAN, OnCreateChild(k, prompt) PROVE HoldsSlot(k)'
  BY <1>12 DEF OnCreateChild, KidIs, MetaIs, HoldsSlot, BeforePrompt, OpenTurn,
     Live, Alive, NoProcess, TypesOf, Unborn, Born
<1>13. CASE OnSendStarts(k)
  BY <1>13 DEF OnSendStarts, HoldsSlot
<1>14. CASE OnSendTakes(k)
  BY <1>14 DEF OnSendTakes, HoldsSlot
<1>15. CASE OnSendWrites(k)
  BY <1>15 DEF OnSendWrites, HoldsSlot
<1>16. CASE OnstopChild(k)
  BY <1>16 DEF OnstopChild, KidIs, ProcIs, Dies, Erased, MetaIs, Live, Booting,
     Alive, HoldsSlot, BeforePrompt, OpenTurn, NoProcess, TypesOf
<1>17. CASE OnWithdrawChild(k)
  BY <1>17 DEF OnWithdrawChild, Erased, MetaIs, HoldsSlot, BeforePrompt,
     OpenTurn, Live, Alive, NoProcess, TypesOf
<1>18. CASE OnWithdrawKills(k)
  BY <1>18 DEF OnWithdrawKills, KidIs, Dies, Live, Alive, Up, HoldsSlot,
     BeforePrompt, OpenTurn, NoProcess, TypesOf
<1>19. CASE OnWithdrawEnds(k)
  BY <1>19 DEF OnWithdrawEnds, HoldsSlot, BeforePrompt, OpenTurn
<1>20. CASE OnCloseKills(k)
  BY <1>20 DEF OnCloseKills, KidIs, Dies, Live, Alive, HoldsSlot, BeforePrompt,
     OpenTurn, NoProcess, TypesOf
<1>21. CASE OnProcMoves(k)
  <2>1. PICK o : /\ Outcome(proc[k], file[k], o) /\ proc'[k] = o.proc
                 /\ file'[k] = o.file /\ out'[k] = out[k] \o o.say
                 /\ o.say \in Seq(EventT)
    BY <1>21 DEF OnProcMoves
  <2>2. proc[k] \in ProcT /\ file[k] \in Seq(EntryT) /\ out[k] \in Seq(EventT)
    BY DEF TypesOf
  <2>t. proc[k].pipe \in Seq(LineT)
    BY <2>2 DEF ProcT
  <2>3. proc[k].pipe # <<>> => /\ Len(proc[k].pipe) \in Nat
                               /\ Len(Tail(proc[k].pipe)) = Len(proc[k].pipe) - 1
    BY <2>t, Reading
  <2>4. Len(proc[k].pipe) <= 1 /\ proc[k].pipe # <<>> => Tail(proc[k].pipe) = <<>>
    BY <2>t, Short
  <2>5. /\ o.proc.pipe = proc[k].pipe
             \/ /\ proc[k].pipe # <<>> /\ o.proc.pipe = Tail(proc[k].pipe)
                /\ o.proc.st \in {"open", "turn"} /\ o.say = <<>>
        /\ o.proc.st \in {"open", "turn"} =>
             (proc[k].pipe # <<>> /\ o.proc.pipe = Tail(proc[k].pipe)) \/ OpenTurn(k)
        /\ o.say # <<>> => OpenTurn(k)
        /\ o.proc.st \in {"open", "turn"} \/ (Alive(o.proc) /\ ~OpenTurn(k)) => NoClose(o.say)
        /\ Alive(proc[k])
    BY <2>1, <2>2, MovedProcess DEF Opens, OpenTurn
  <2>6. /\ o.say = <<>> => out'[k] = out[k]
        /\ NoClose(out'[k]) <=> NoClose(out[k]) /\ NoClose(o.say)
    <3>1. out'[k] = out[k] \o o.say /\ out[k] \in Seq(EventT) /\ o.say \in Seq(EventT)
      BY <2>1, <2>2
    <3>2. /\ o.say = <<>> => out[k] \o o.say = out[k]
          /\ NoClose(out[k] \o o.say) <=> NoClose(out[k]) /\ NoClose(o.say)
      BY <3>1, Saying
    <3> QED BY <3>1, <3>2
  <2>7. /\ k \in past'.messaged <=> k \in past.messaged
        /\ sending'[k] = sending[k] /\ kids'[k] = kids[k] /\ meta'[k] = meta[k]
        /\ k \in waiting' <=> k \in waiting
        /\ k \in freeing' <=> k \in freeing
        /\ k \in running' <=> k \in running
    BY <1>21 DEF OnProcMoves
  <2> SUFFICES ASSUME k \notin past.messaged PROVE HoldsSlot(k)'
    BY <2>7 DEF HoldsSlot
  <2>8. BeforePrompt(k) \/ k \in waiting \cup freeing =>
          /\ o.proc.pipe = <<>> /\ o.proc.st \notin {"open", "turn"}
          /\ out'[k] = out[k]
    BY <2>5, <2>6 DEF HoldsSlot
  <2>9. /\ Len(o.proc.pipe) <= 1
        /\ o.proc.st \in {"open", "turn"} => o.proc.pipe = <<>>
    <3>1. proc[k].pipe # <<>> /\ Len(proc[k].pipe) <= 1 => Len(proc[k].pipe) - 1 <= 1
      BY <2>3
    <3> QED BY <2>3, <2>4, <2>5, <3>1 DEF HoldsSlot
  <2>10. o.proc.st \in {"open", "turn"} \/ (Alive(o.proc) /\ o.proc.pipe # <<>>) =>
           /\ NoClose(out'[k])
           /\ meta[k].here => k \in running
    BY <2>5, <2>6, <2>9 DEF HoldsSlot
  <2> QED BY <2>1, <2>7, <2>8, <2>9, <2>10 DEF HoldsSlot, BeforePrompt, OpenTurn
<1>22. CASE OnStrayMoves(k)
  BY <1>22 DEF OnStrayMoves, HoldsSlot, BeforePrompt, OpenTurn
<1>23. CASE OnProcDies(k)
  BY <1>23 DEF OnProcDies, Dies, Alive, HoldsSlot, BeforePrompt, OpenTurn,
     Live, NoProcess, TypesOf
<1>24. ASSUME NEW r \in ReportsOf(k), StartsReport(k, r) PROVE HoldsSlot(k)'
  BY <1>24 DEF StartsReport, PastKept, ProcessKept, HoldsSlot, BeforePrompt, OpenTurn
<1>25. ASSUME NEW r \in ReportsOf(k), DecidesReport(k, r) PROVE HoldsSlot(k)'
  BY <1>25 DEF DecidesReport, ProcessKept, Unstarts, MetaIs, Adds, HoldsSlot, BeforePrompt, OpenTurn
<1>26. ASSUME NEW r \in ReportsOf(k), MarksReport(k, r) PROVE HoldsSlot(k)'
  BY <1>26 DEF MarksReport, MetaIs, Adds, ProcessKept, Up, HoldsSlot,
     BeforePrompt, OpenTurn, Live, Alive, NoProcess, TypesOf
<1>27. ASSUME NEW r \in ReportsOf(k), TellsReport(k, r) PROVE HoldsSlot(k)'
  BY <1>27 DEF TellsReport, ProcessKept, Up, HoldsSlot, BeforePrompt, OpenTurn,
     Live, Alive, NoProcess, TypesOf
<1>28. CASE StartsNext(k)
  BY <1>28 DEF StartsNext, KidIs, MetaIs, HoldsSlot, Queued, Leased, NoProcess, BeforePrompt, OpenTurn
<1>29. CASE LooksOwed(k)
  BY <1>29 DEF LooksOwed, Adds, DiskKept, ProcessKept, Live, HoldsSlot,
     BeforePrompt, OpenTurn, Alive, NoProcess, TypesOf
<1>30. CASE GivesUpOwed(k)
  BY <1>30 DEF GivesUpOwed, DiskKept, ProcessKept, MindKept, PastKept,
     HoldsSlot, BeforePrompt, OpenTurn, Live, Alive, NoProcess, TypesOf
<1>31. CASE Closes(k)
  BY <1>31 DEF Closes, DiskKept, ProcessKept, MindKept, PastKept, HoldsSlot,
     BeforePrompt, OpenTurn, Live, Alive, NoProcess, TypesOf
<1>32. CASE Forgets(k)
  BY <1>32 DEF Forgets, Released, KidIs, NoProcess, DiskKept, ProcessKept,
     Live, Alive, Up, HoldsSlot, BeforePrompt, OpenTurn, TypesOf, Leased
<1>33. CASE Requeues(k)
  BY <1>33 DEF Requeues, MetaIs, ProcessKept, MindKept, PastKept, HoldsSlot,
     BeforePrompt, OpenTurn, Live, Alive, NoProcess, TypesOf
<1> QED
  BY <1>1, <1>2, <1>3, <1>4, <1>5, <1>6, <1>7, <1>8, <1>9, <1>10, <1>11, <1>12,
     <1>13, <1>14, <1>15, <1>16, <1>17, <1>18, <1>19, <1>20, <1>21, <1>22,
     <1>23, <1>24, <1>25, <1>26, <1>27, <1>28, <1>29, <1>30, <1>31, <1>32,
     <1>33 DEF Step, CallStep, ReportStep

(* The reports a child's parent got, and the ones on their way to it.      *)
ToldKept(k) ==
  /\ told'[k] = told[k]
  /\ \A r : r.pc = "tell" => (r \in ReportsOf(k)' <=> r \in ReportsOf(k))
  /\ meta'[k].here => meta[k].here
  /\ \/ meta'[k].reported = meta[k].reported /\ meta'[k].ended = meta[k].ended
     \/ meta'[k].reported = 0 /\ meta'[k].ended = "no" /\ ~meta'[k].here
  /\ k \in past.cut => k \in past'.cut

LEMMA ToldKeptStays ==
  ASSUME NEW k \in Kids, Told(k), ToldKept(k)
  PROVE  Told(k)'
<1>1. ASSUME NEW x PROVE ToldKey(k, x)' <=> ToldKey(k, x)
  BY DEF ToldKept, ToldKey
<1>2. \A i, j \in DOMAIN told'[k] : i # j => told'[k][i] # told'[k][j]
  BY DEF Told, ToldKept
<1>3. /\ \A r \in ReportsOf(k)' : r.pc = "tell" =>
           \A i \in DOMAIN told'[k] : told'[k][i] # r.key
      /\ \A r, q \in ReportsOf(k)' :
           r.pc = "tell" /\ q.pc = "tell" /\ r.key = q.key => r = q
  BY DEF Told, ToldKept
<1>4. ASSUME meta'[k].here, NEW x \in Nat, ToldKey(k, x)' PROVE x <= meta'[k].reported
  BY <1>1, <1>4 DEF Told, ToldKept
<1>5. ASSUME meta'[k].here, ToldKey(k, 0)' PROVE meta'[k].ended # "no"
  BY <1>1, <1>5 DEF Told, ToldKept
<1>6. ASSUME meta'[k].reported > 0, k \notin past'.cut
      PROVE  ToldKey(k, meta[k].reported)'
  <2>1. PICK y : y = meta'[k].reported
    OBVIOUS
  <2>2. meta'[k].reported = meta[k].reported /\ ToldKey(k, meta[k].reported)
    BY <1>6 DEF Told, ToldKept
  <2>3. ToldKey(k, y)'
    BY <1>1, <2>1, <2>2
  <2> QED BY <2>1, <2>3 DEF ToldKey
<1>7. ASSUME meta'[k].ended # "no", k \notin past'.cut PROVE \E x \in Nat : ToldKey(k, x)'
  <2>1. \E x \in Nat : ToldKey(k, x)
    BY <1>7 DEF Told, ToldKept
  <2> QED BY <1>1, <2>1
<1> QED BY <1>2, <1>3, <1>4, <1>5, <1>6, <1>7 DEF Told

(* A new report is on its way.                                             *)
LEMMA ToldAdds ==
  ASSUME NEW k \in Kids, TypesOf(k), Told(k), told'[k] = told[k], past' = past,
         NEW rest, NEW x, ReportsOf(k)' = rest \cup {x}, rest \subseteq ReportsOf(k),
         \A r \in ReportsOf(k) : r.pc = "tell" => r \in rest,
         x.pc = "tell", x.key \in Nat, ~ToldKey(k, x.key), meta[k].here,
         \/ meta'[k].reported = meta[k].reported
         \/ meta'[k].reported = x.key /\ x.key > meta[k].reported,
         x.key <= meta'[k].reported,
         meta'[k].ended = meta[k].ended \/ meta'[k].ended # "no",
         x.key = 0 => meta'[k].ended # "no"
  PROVE  Told(k)'
<1>t. meta[k].reported \in Nat /\ meta'[k].reported \in Nat
  BY DEF TypesOf, MetaT
<1>1. ASSUME NEW y PROVE ToldKey(k, y)' <=> ToldKey(k, y) \/ y = x.key
  BY DEF ToldKey
<1>2. \A i, j \in DOMAIN told'[k] : i # j => told'[k][i] # told'[k][j]
  BY DEF Told
<1>3. /\ \A r \in ReportsOf(k)' : r.pc = "tell" =>
           \A i \in DOMAIN told'[k] : told'[k][i] # r.key
      /\ \A r, q \in ReportsOf(k)' :
           r.pc = "tell" /\ q.pc = "tell" /\ r.key = q.key => r = q
  BY DEF Told, ToldKey
<1>4. ASSUME NEW y \in Nat, ToldKey(k, y)' PROVE y <= meta'[k].reported
  <2>1. ToldKey(k, y) => y <= meta[k].reported
    BY DEF Told
  <2> QED BY <1>t, <1>1, <1>4, <2>1
<1>5. ASSUME ToldKey(k, 0)' PROVE meta'[k].ended # "no"
  BY <1>1, <1>5 DEF Told
<1>6. ASSUME meta'[k].reported > 0, k \notin past'.cut
      PROVE  ToldKey(k, meta[k].reported)'
  <2>1. PICK y : y = meta'[k].reported
    OBVIOUS
  <2>2. \/ y = meta[k].reported /\ ToldKey(k, meta[k].reported)
        \/ y = x.key
    BY <1>6, <2>1 DEF Told
  <2>3. ToldKey(k, y)'
    BY <1>1, <2>2
  <2> QED BY <2>1, <2>3 DEF ToldKey
<1>7. \E y \in Nat : ToldKey(k, y)'
  BY <1>1
<1> QED BY <1>2, <1>3, <1>4, <1>5, <1>6, <1>7 DEF Told

LEMMA ToldUnstarts ==
  ASSUME NEW k \in Kids, TypesOf(k), Told(k), told'[k] = told[k], past' = past,
         NEW how \in {"stopped", "error"}, NEW rest, rest \subseteq ReportsOf(k),
         \A r \in ReportsOf(k) : r.pc = "tell" => r \in rest,
         Unstarts(k, how, rest)
  PROVE  Told(k)'
<1>1. CASE meta'[k] = meta[k] /\ ReportsOf(k)' = rest
  <2>1. ToldKept(k)
    BY <1>1 DEF ToldKept
  <2> QED BY <2>1, ToldKeptStays
<1>2. CASE /\ meta[k].here /\ meta[k].ended = "no"
           /\ MetaIs(k, TRUE, FALSE, meta[k].prompt, meta[k].queued, how,
                     meta[k].reported)
           /\ Adds(k, rest, "unstarted", "tell", 0)
  <2>1. PICK x : ReportsOf(k)' = rest \cup {x} /\ x.pc = "tell" /\ x.key = 0
    BY <1>2 DEF Adds
  <2>2. ~ToldKey(k, x.key)
    BY <1>2, <2>1 DEF Told
  <2>3. /\ meta'[k].reported = meta[k].reported /\ meta'[k].ended # "no"
        /\ x.key <= meta[k].reported /\ x.key \in Nat
    BY <1>2, <2>1 DEF MetaIs, TypesOf, MetaT
  <2> QED BY <1>2, <2>1, <2>2, <2>3, ToldAdds
<1> QED BY <1>1, <1>2 DEF Unstarts

LEMMA ToldStays ==
  ASSUME NEW k \in Kids, Step(k), TypesOf(k), TypesOf(k)', Told(k),
         Unborn(k), Queued(k)
  PROVE  Told(k)'
<1>1. CASE Same(k)
  <2>1. ToldKept(k)
    BY <1>1 DEF ToldKept, Same, DiskKept, ProcessKept, MindKept, PastKept,
       TypesOf, PastT
  <2> QED BY <2>1, ToldKeptStays
<1>2. CASE OnLaunchStarts(k)
  <2>1. ToldKept(k)
    BY <1>2 DEF ToldKept, OnLaunchStarts, KidIs, ProcIs, Up, TypesOf, PastT
  <2> QED BY <2>1, ToldKeptStays
<1>3. CASE OnLaunchAbandons(k)
  <2>1. CASE LaunchFails(k)
    <3>1. CASE Unstarts(k, "error", ReportsOf(k))
      <4>1. told'[k] = told[k] /\ past' = past
        BY <1>3 DEF OnLaunchAbandons
      <4> QED BY <3>1, <4>1, ToldUnstarts
    <3>2. CASE Erased(k) /\ ReportsOf(k)' = ReportsOf(k)
      <4>1. ToldKept(k)
        BY <1>3, <3>2 DEF OnLaunchAbandons, Erased, MetaIs, ToldKept
      <4> QED BY <4>1, ToldKeptStays
    <3> QED BY <2>1, <3>1, <3>2 DEF LaunchFails
  <2> QED BY <1>3, <2>1 DEF OnLaunchAbandons
<1>4. CASE OnLaunchChecks(k)
  <2>1. ToldKept(k)
    BY <1>4 DEF ToldKept, OnLaunchChecks, KidIs, MetaIs, Dies, Up, TypesOf,
       PastT
  <2> QED BY <2>1, ToldKeptStays
<1>5. CASE OnLaunchPrompts(k)
  <2>1. ToldKept(k)
    BY <1>5 DEF ToldKept, OnLaunchPrompts, KidIs, ProcIs, Alive, Up, TypesOf,
       PastT
  <2> QED BY <2>1, ToldKeptStays
<1>6. CASE OnFreeLooks(k)
  <2>1. ToldKept(k)
    BY <1>6 DEF ToldKept, OnFreeLooks, Up, TypesOf, PastT
  <2> QED BY <2>1, ToldKeptStays
<1>7. CASE OnFreeGives(k)
  <2>1. ToldKept(k)
    BY <1>7 DEF ToldKept, OnFreeGives, MetaIs, Up, TypesOf, PastT
  <2> QED BY <2>1, ToldKeptStays
<1>8. CASE OnReadEvent(k)
  <2>1. ToldKept(k)
    BY <1>8 DEF ToldKept, OnReadEvent, KidIs, ProcIs, ChildEvents, MetaIs,
       Adds, Live, Alive, Up, TypesOf, PastT
  <2> QED BY <2>1, ToldKeptStays
<1>9. CASE OnReap(k)
  <2>1. ToldKept(k)
    BY <1>9 DEF ToldKept, OnReap, KidIs, ChildEvents, MetaIs, Adds, Live, Up,
       TypesOf, PastT
  <2> QED BY <2>1, ToldKeptStays
<1>10. CASE OnDrop(k)
  <2>1. CASE LaunchFails(k)
    <3>1. CASE Unstarts(k, "error", ReportsOf(k))
      <4>1. told'[k] = told[k] /\ past' = past
        BY <1>10 DEF OnDrop
      <4> QED BY <3>1, <4>1, ToldUnstarts
    <3>2. CASE Erased(k) /\ ReportsOf(k)' = ReportsOf(k)
      <4>1. ToldKept(k)
        BY <1>10, <3>2 DEF OnDrop, Erased, MetaIs, ToldKept
      <4> QED BY <4>1, ToldKeptStays
    <3> QED BY <2>1, <3>1, <3>2 DEF LaunchFails
  <2>2. CASE meta'[k] = meta[k] /\ ReportsOf(k)' = ReportsOf(k)
    <3>1. ToldKept(k)
      BY <1>10, <2>2 DEF OnDrop, ToldKept
    <3> QED BY <3>1, ToldKeptStays
  <2> QED BY <1>10, <2>1, <2>2 DEF OnDrop
<1>11. CASE OnHoldExpires(k)
  <2>1. ToldKept(k)
    BY <1>11 DEF ToldKept, OnHoldExpires, KidIs, ProcIs, Live, Alive, Up,
       TypesOf, PastT
  <2> QED BY <2>1, ToldKeptStays
<1>12. ASSUME NEW prompt \in BOOLEAN, OnCreateChild(k, prompt) PROVE Told(k)'
  <2>1. told'[k] = <<>> /\ ReportsOf(k)' = {} /\ meta'[k].reported = 0 /\ meta'[k].ended = "no"
    BY <1>12 DEF OnCreateChild, MetaIs, Unborn
  <2> QED BY <2>1 DEF Told, ToldKey
<1>13. CASE OnSendStarts(k)
  <2>1. ToldKept(k)
    BY <1>13 DEF ToldKept, OnSendStarts, KidIs, ProcIs, Live, Alive, TypesOf,
       PastT
  <2> QED BY <2>1, ToldKeptStays
<1>14. CASE OnSendTakes(k)
  <2>1. ToldKept(k)
    BY <1>14 DEF ToldKept, OnSendTakes, Up, TypesOf, PastT
  <2> QED BY <2>1, ToldKeptStays
<1>15. CASE OnSendWrites(k)
  <2>1. ToldKept(k)
    BY <1>15 DEF ToldKept, OnSendWrites, KidIs, ProcIs, Live, Alive, Up,
       TypesOf, PastT
  <2> QED BY <2>1, ToldKeptStays
<1>16. CASE OnstopChild(k)
  <2>1. ToldKept(k)
    BY <1>16 DEF ToldKept, OnstopChild, KidIs, ProcIs, Dies, Erased, MetaIs,
       Live, Booting, Alive, TypesOf, PastT
  <2> QED BY <2>1, ToldKeptStays
<1>17. CASE OnWithdrawChild(k)
  <2>1. ToldKept(k)
    BY <1>17 DEF ToldKept, OnWithdrawChild, Erased, MetaIs, TypesOf, PastT
  <2> QED BY <2>1, ToldKeptStays
<1>18. CASE OnWithdrawKills(k)
  <2>1. ToldKept(k)
    BY <1>18 DEF ToldKept, OnWithdrawKills, KidIs, Dies, Live, Alive, Up,
       TypesOf, PastT
  <2> QED BY <2>1, ToldKeptStays
<1>19. CASE OnWithdrawEnds(k)
  <2>1. ToldKept(k)
    BY <1>19 DEF ToldKept, OnWithdrawEnds, Live, Up, TypesOf, PastT
  <2> QED BY <2>1, ToldKeptStays
<1>20. CASE OnCloseKills(k)
  <2>1. ToldKept(k)
    BY <1>20 DEF ToldKept, OnCloseKills, KidIs, Dies, Live, Alive, TypesOf,
       PastT
  <2> QED BY <2>1, ToldKeptStays
<1>21. CASE OnProcMoves(k)
  <2>1. ToldKept(k)
    BY <1>21 DEF ToldKept, OnProcMoves, TypesOf, PastT
  <2> QED BY <2>1, ToldKeptStays
<1>22. CASE OnStrayMoves(k)
  <2>1. ToldKept(k)
    BY <1>22 DEF ToldKept, OnStrayMoves, NoProcess, TypesOf, PastT
  <2> QED BY <2>1, ToldKeptStays
<1>23. CASE OnProcDies(k)
  <2>1. ToldKept(k)
    BY <1>23 DEF ToldKept, OnProcDies, Dies, Alive, TypesOf, PastT
  <2> QED BY <2>1, ToldKeptStays
<1>24. ASSUME NEW r \in ReportsOf(k), StartsReport(k, r) PROVE Told(k)'
  <2>1. ToldKept(k)
    BY <1>24 DEF ToldKept, StartsReport, PastKept, Adds, ProcessKept, Up, TypesOf, PastT
  <2> QED BY <2>1, ToldKeptStays
<1>25. ASSUME NEW r \in ReportsOf(k), DecidesReport(k, r) PROVE Told(k)'
  <2>1. told'[k] = told[k] /\ past' = past
    BY <1>25 DEF DecidesReport
  <2>2. CASE ~\E how \in {"stopped", "error"} : Unstarts(k, how, ReportsOf(k) \ {r})
    <3>1. ToldKept(k)
      BY <1>25, <2>2 DEF DecidesReport, Adds, ToldKept
    <3> QED BY <3>1, ToldKeptStays
  <2>3. CASE \E how \in {"stopped", "error"} : Unstarts(k, how, ReportsOf(k) \ {r})
    <3>1. PICK how \in {"stopped", "error"} : Unstarts(k, how, ReportsOf(k) \ {r})
      BY <2>3
    <3>2. PICK rest : rest = ReportsOf(k) \ {r}
      OBVIOUS
    <3>3. /\ Unstarts(k, how, rest) /\ rest \subseteq ReportsOf(k)
          /\ \A q \in ReportsOf(k) : q.pc = "tell" => q \in rest
      BY <1>25, <3>1, <3>2 DEF DecidesReport
    <3> QED BY <2>1, <3>3, ToldUnstarts
  <2> QED BY <2>2, <2>3
<1>26. ASSUME NEW r \in ReportsOf(k), MarksReport(k, r) PROVE Told(k)'
  <2>1. told'[k] = told[k] /\ past' = past
    BY <1>26 DEF MarksReport
  <2>2. CASE /\ meta'[k] = meta[k] /\ ReportsOf(k)' = ReportsOf(k) \ {r}
    <3>1. ToldKept(k)
      BY <1>26, <2>1, <2>2 DEF MarksReport, ToldKept
    <3> QED BY <3>1, ToldKeptStays
  <2>3. CASE /\ meta[k].here /\ r.key > meta[k].reported
             /\ MetaIs(k, TRUE, meta[k].task, meta[k].prompt, meta[k].queued,
                       meta[k].ended, r.key)
             /\ Adds(k, ReportsOf(k) \ {r}, r.trigger, "tell", r.key)
    <3>1. PICK rest : rest = ReportsOf(k) \ {r}
      OBVIOUS
    <3>2. PICK x : ReportsOf(k)' = rest \cup {x} /\ x.pc = "tell" /\ x.key = r.key
      BY <2>3, <3>1 DEF Adds
    <3>3. /\ r.key \in Nat /\ meta[k].reported \in Nat
      BY DEF TypesOf, IsReport, MetaT
    <3>4. ~ToldKey(k, x.key)
      BY <2>3, <3>2, <3>3 DEF Told
    <3>5. /\ rest \subseteq ReportsOf(k)
          /\ \A q \in ReportsOf(k) : q.pc = "tell" => q \in rest
      BY <1>26, <3>1 DEF MarksReport
    <3>6. /\ meta'[k].reported = x.key /\ x.key > meta[k].reported /\ x.key \in Nat
          /\ x.key <= meta'[k].reported /\ meta'[k].ended = meta[k].ended /\ x.key # 0
      BY <2>3, <3>2, <3>3 DEF MetaIs
    <3> QED BY <2>1, <2>3, <3>2, <3>4, <3>5, <3>6, ToldAdds
  <2> QED BY <1>26, <2>2, <2>3 DEF MarksReport
<1>27. ASSUME NEW r \in ReportsOf(k), TellsReport(k, r) PROVE Told(k)'
  <2>1. /\ told'[k] = Append(told[k], r.key) /\ ReportsOf(k)' = ReportsOf(k) \ {r}
        /\ meta'[k] = meta[k] /\ past' = past /\ r.pc = "tell" /\ r \in ReportsOf(k)
    BY <1>27 DEF TellsReport
  <2>2. /\ told[k] \in Seq(Nat) /\ r.key \in Nat
    BY DEF TypesOf, IsReport
  <2> DEFINE n == Len(told[k])
  <2>3. /\ n \in Nat /\ DOMAIN told[k] = 1 .. n /\ DOMAIN told'[k] = 1 .. n + 1
        /\ \A i \in 1 .. n : told'[k][i] = told[k][i]
        /\ told'[k][n + 1] = r.key
    BY <2>1, <2>2
  <2> HIDE DEF n
  <2>4. ASSUME NEW x PROVE ToldKey(k, x)' <=> ToldKey(k, x)
    BY <2>1, <2>3 DEF ToldKey
  <2>5. \A i \in 1 .. n : told[k][i] # r.key
    BY <2>1, <2>3 DEF Told
  <2>6. \A i, j \in DOMAIN told'[k] : i # j => told'[k][i] # told'[k][j]
    BY <2>3, <2>5 DEF Told
  <2>7. \A q \in ReportsOf(k)' : q.pc = "tell" =>
          q.key # r.key /\ \A i \in 1 .. n : told[k][i] # q.key
    BY <2>1, <2>3 DEF Told
  <2>8. /\ \A q \in ReportsOf(k)' : q.pc = "tell" =>
             \A i \in DOMAIN told'[k] : told'[k][i] # q.key
        /\ \A p, q \in ReportsOf(k)' :
             p.pc = "tell" /\ q.pc = "tell" /\ p.key = q.key => p = q
    BY <2>1, <2>3, <2>7 DEF Told
  <2>9. /\ meta'[k].here => \A x \in Nat : ToldKey(k, x)' => x <= meta'[k].reported
        /\ meta'[k].here /\ ToldKey(k, 0)' => meta'[k].ended # "no"
    BY <2>1, <2>4 DEF Told
  <2>10. ASSUME meta'[k].reported > 0, k \notin past'.cut
         PROVE  ToldKey(k, meta[k].reported)'
    <3>1. PICK y : y = meta'[k].reported
      OBVIOUS
    <3>2. ToldKey(k, meta[k].reported)
      BY <2>1, <2>10 DEF Told
    <3>3. ToldKey(k, y)'
      BY <2>1, <2>4, <3>1, <3>2
    <3> QED BY <3>1, <3>3 DEF ToldKey
  <2>11. meta'[k].ended # "no" /\ k \notin past'.cut => \E x \in Nat : ToldKey(k, x)'
    BY <2>1, <2>4 DEF Told
  <2> QED BY <2>6, <2>8, <2>9, <2>10, <2>11 DEF Told
<1>28. CASE StartsNext(k)
  <2>1. ToldKept(k)
    BY <1>28 DEF ToldKept, StartsNext, KidIs, MetaIs, TypesOf, PastT
  <2> QED BY <2>1, ToldKeptStays
<1>29. CASE LooksOwed(k)
  <2>1. ToldKept(k)
    BY <1>29 DEF ToldKept, LooksOwed, Adds, DiskKept, ProcessKept, Live,
       TypesOf, PastT
  <2> QED BY <2>1, ToldKeptStays
<1>30. CASE GivesUpOwed(k)
  <2>1. ToldKept(k)
    BY <1>30 DEF ToldKept, GivesUpOwed, DiskKept, ProcessKept, MindKept,
       PastKept, TypesOf, PastT
  <2> QED BY <2>1, ToldKeptStays
<1>31. CASE Closes(k)
  <2>1. ToldKept(k)
    BY <1>31 DEF ToldKept, Closes, DiskKept, ProcessKept, MindKept, PastKept,
       TypesOf, PastT
  <2> QED BY <2>1, ToldKeptStays
<1>32. CASE Forgets(k)
  <2>1. /\ told'[k] = told[k] /\ ReportsOf(k)' = {} /\ meta'[k] = meta[k]
        /\ k \notin past'.cut =>
             k \notin past.cut /\ \A r \in ReportsOf(k) : r.pc # "tell"
    BY <1>32 DEF Forgets, DiskKept
  <2>2. ASSUME NEW x PROVE /\ ToldKey(k, x)' => ToldKey(k, x)
                           /\ k \notin past'.cut /\ ToldKey(k, x) => ToldKey(k, x)'
    BY <2>1 DEF ToldKey
  <2>3. /\ \A i, j \in DOMAIN told'[k] : i # j => told'[k][i] # told'[k][j]
        /\ meta'[k].here => \A x \in Nat : ToldKey(k, x)' => x <= meta'[k].reported
        /\ meta'[k].here /\ ToldKey(k, 0)' => meta'[k].ended # "no"
        /\ meta'[k].ended # "no" /\ k \notin past'.cut => \E x \in Nat : ToldKey(k, x)'
    BY <2>1, <2>2 DEF Told
  <2>4. ASSUME meta'[k].reported > 0, k \notin past'.cut
        PROVE  ToldKey(k, meta[k].reported)'
    <3>1. PICK y : y = meta'[k].reported
      OBVIOUS
    <3>2. ToldKey(k, meta[k].reported)
      BY <2>1, <2>4 DEF Told
    <3>3. ToldKey(k, y)'
      BY <2>1, <2>2, <2>4, <3>1, <3>2
    <3> QED BY <3>1, <3>3 DEF ToldKey
  <2> QED BY <2>1, <2>3, <2>4 DEF Told
<1>33. CASE Requeues(k)
  <2>1. ToldKept(k)
    BY <1>33 DEF ToldKept, Requeues, MetaIs, ProcessKept, MindKept, PastKept,
       TypesOf, PastT
  <2> QED BY <2>1, ToldKeptStays
<1> QED
  BY <1>1, <1>2, <1>3, <1>4, <1>5, <1>6, <1>7, <1>8, <1>9, <1>10, <1>11, <1>12,
     <1>13, <1>14, <1>15, <1>16, <1>17, <1>18, <1>19, <1>20, <1>21, <1>22,
     <1>23, <1>24, <1>25, <1>26, <1>27, <1>28, <1>29, <1>30, <1>31, <1>32,
     <1>33 DEF Step, CallStep, ReportStep

(* What a step adds to what the parent is told, and to the marks to come.  *)
NewlySaid(k) ==
  /\ \A x \in Nat \ {0} : ToldKey(k, x)' =>
       ToldKey(k, x) \/ \E r \in ReportsOf(k) : r.pc = "mark" /\ r.key = x
  /\ ~meta[k].here => \A x \in Nat : ToldKey(k, x)' => ToldKey(k, x)
  /\ \A r \in ReportsOf(k)' : r.pc = "mark" =>
       \/ r \in ReportsOf(k)
       \/ /\ lastTurn(file[k]).hasEntry /\ r.key = TurnKey(file[k])
          /\ file'[k] = file[k]

ReportsKept(k) ==
  /\ told'[k] = told[k]
  /\ \A r \in ReportsOf(k)' : r.pc \in {"mark", "tell"} => r \in ReportsOf(k)

LEMMA KeptReports ==
  ASSUME NEW k \in Kids, ReportsKept(k)
  PROVE  NewlySaid(k)
BY DEF ReportsKept, NewlySaid, ToldKey

LEMMA UnstartReports ==
  ASSUME NEW k \in Kids, told'[k] = told[k],
         NEW how \in {"stopped", "error"}, NEW rest, rest \subseteq ReportsOf(k),
         Unstarts(k, how, rest)
  PROVE  NewlySaid(k)
<1>1. CASE ReportsOf(k)' = rest
  BY <1>1, KeptReports DEF ReportsKept
<1>2. CASE meta[k].here /\ Adds(k, rest, "unstarted", "tell", 0)
  <2>1. PICK x : ReportsOf(k)' = rest \cup {x} /\ x.pc = "tell" /\ x.key = 0
    BY <1>2 DEF Adds
  <2> QED BY <1>2, <2>1 DEF NewlySaid, ToldKey
<1> QED BY <1>1, <1>2 DEF Unstarts

LEMMA NewlySaidBy ==
  ASSUME NEW k \in Kids, Step(k), TypesOf(k), Unborn(k)
  PROVE  NewlySaid(k)
<1>1. CASE Same(k)
  <2>1. ReportsKept(k)
    BY <1>1 DEF ReportsKept, Same, DiskKept, ProcessKept, MindKept, PastKept,
       TypesOf, PastT
  <2> QED BY <2>1, KeptReports
<1>2. CASE OnLaunchStarts(k)
  <2>1. ReportsKept(k)
    BY <1>2 DEF ReportsKept, OnLaunchStarts, KidIs, ProcIs, Up, TypesOf, PastT
  <2> QED BY <2>1, KeptReports
<1>3. CASE OnLaunchAbandons(k)
  <2>1. CASE LaunchFails(k)
    <3>1. CASE Unstarts(k, "error", ReportsOf(k))
      <4>1. told'[k] = told[k]
        BY <1>3 DEF OnLaunchAbandons
      <4> QED BY <3>1, <4>1, UnstartReports
    <3>2. CASE Erased(k) /\ ReportsOf(k)' = ReportsOf(k)
      <4>1. ReportsKept(k)
        BY <1>3, <3>2 DEF OnLaunchAbandons, Erased, MetaIs, ReportsKept
      <4> QED BY <4>1, KeptReports
    <3> QED BY <2>1, <3>1, <3>2 DEF LaunchFails
  <2> QED BY <1>3, <2>1 DEF OnLaunchAbandons
<1>4. CASE OnLaunchChecks(k)
  <2>1. ReportsKept(k)
    BY <1>4 DEF ReportsKept, OnLaunchChecks, KidIs, MetaIs, Dies, Up, TypesOf,
       PastT
  <2> QED BY <2>1, KeptReports
<1>5. CASE OnLaunchPrompts(k)
  <2>1. ReportsKept(k)
    BY <1>5 DEF ReportsKept, OnLaunchPrompts, KidIs, ProcIs, Alive, Up, TypesOf,
       PastT
  <2> QED BY <2>1, KeptReports
<1>6. CASE OnFreeLooks(k)
  <2>1. ReportsKept(k)
    BY <1>6 DEF ReportsKept, OnFreeLooks, Up, TypesOf, PastT
  <2> QED BY <2>1, KeptReports
<1>7. CASE OnFreeGives(k)
  <2>1. ReportsKept(k)
    BY <1>7 DEF ReportsKept, OnFreeGives, MetaIs, Up, TypesOf, PastT
  <2> QED BY <2>1, KeptReports
<1>8. CASE OnReadEvent(k)
  <2>1. ReportsKept(k)
    BY <1>8 DEF ReportsKept, OnReadEvent, KidIs, ProcIs, ChildEvents, MetaIs,
       Adds, Live, Alive, Up, TypesOf, PastT
  <2> QED BY <2>1, KeptReports
<1>9. CASE OnReap(k)
  <2>1. ReportsKept(k)
    BY <1>9 DEF ReportsKept, OnReap, KidIs, ChildEvents, MetaIs, Adds, Live, Up,
       TypesOf, PastT
  <2> QED BY <2>1, KeptReports
<1>10. CASE OnDrop(k)
  <2>1. CASE LaunchFails(k)
    <3>1. CASE Unstarts(k, "error", ReportsOf(k))
      <4>1. told'[k] = told[k]
        BY <1>10 DEF OnDrop
      <4> QED BY <3>1, <4>1, UnstartReports
    <3>2. CASE Erased(k) /\ ReportsOf(k)' = ReportsOf(k)
      <4>1. ReportsKept(k)
        BY <1>10, <3>2 DEF OnDrop, Erased, MetaIs, ReportsKept
      <4> QED BY <4>1, KeptReports
    <3> QED BY <2>1, <3>1, <3>2 DEF LaunchFails
  <2>2. CASE meta'[k] = meta[k] /\ ReportsOf(k)' = ReportsOf(k)
    <3>1. ReportsKept(k)
      BY <1>10, <2>2 DEF OnDrop, ReportsKept
    <3> QED BY <3>1, KeptReports
  <2> QED BY <1>10, <2>1, <2>2 DEF OnDrop
<1>11. CASE OnHoldExpires(k)
  <2>1. ReportsKept(k)
    BY <1>11 DEF ReportsKept, OnHoldExpires, KidIs, ProcIs, Live, Alive, Up,
       TypesOf, PastT
  <2> QED BY <2>1, KeptReports
<1>12. ASSUME NEW prompt \in BOOLEAN, OnCreateChild(k, prompt) PROVE NewlySaid(k)
  <2>1. ReportsKept(k)
    BY <1>12 DEF ReportsKept, OnCreateChild
  <2> QED BY <2>1, KeptReports
<1>13. CASE OnSendStarts(k)
  <2>1. ReportsKept(k)
    BY <1>13 DEF ReportsKept, OnSendStarts, KidIs, ProcIs, Live, Alive, TypesOf,
       PastT
  <2> QED BY <2>1, KeptReports
<1>14. CASE OnSendTakes(k)
  <2>1. ReportsKept(k)
    BY <1>14 DEF ReportsKept, OnSendTakes, Up, TypesOf, PastT
  <2> QED BY <2>1, KeptReports
<1>15. CASE OnSendWrites(k)
  <2>1. ReportsKept(k)
    BY <1>15 DEF ReportsKept, OnSendWrites, KidIs, ProcIs, Live, Alive, Up,
       TypesOf, PastT
  <2> QED BY <2>1, KeptReports
<1>16. CASE OnstopChild(k)
  <2>1. ReportsKept(k)
    BY <1>16 DEF ReportsKept, OnstopChild, KidIs, ProcIs, Dies, Erased, MetaIs,
       Live, Booting, Alive, TypesOf, PastT
  <2> QED BY <2>1, KeptReports
<1>17. CASE OnWithdrawChild(k)
  <2>1. ReportsKept(k)
    BY <1>17 DEF ReportsKept, OnWithdrawChild, Erased, MetaIs, TypesOf, PastT
  <2> QED BY <2>1, KeptReports
<1>18. CASE OnWithdrawKills(k)
  <2>1. ReportsKept(k)
    BY <1>18 DEF ReportsKept, OnWithdrawKills, KidIs, Dies, Live, Alive, Up,
       TypesOf, PastT
  <2> QED BY <2>1, KeptReports
<1>19. CASE OnWithdrawEnds(k)
  <2>1. ReportsKept(k)
    BY <1>19 DEF ReportsKept, OnWithdrawEnds, Live, Up, TypesOf, PastT
  <2> QED BY <2>1, KeptReports
<1>20. CASE OnCloseKills(k)
  <2>1. ReportsKept(k)
    BY <1>20 DEF ReportsKept, OnCloseKills, KidIs, Dies, Live, Alive, TypesOf,
       PastT
  <2> QED BY <2>1, KeptReports
<1>21. CASE OnProcMoves(k)
  <2>1. ReportsKept(k)
    BY <1>21 DEF ReportsKept, OnProcMoves, TypesOf, PastT
  <2> QED BY <2>1, KeptReports
<1>22. CASE OnStrayMoves(k)
  <2>1. ReportsKept(k)
    BY <1>22 DEF ReportsKept, OnStrayMoves, NoProcess, TypesOf, PastT
  <2> QED BY <2>1, KeptReports
<1>23. CASE OnProcDies(k)
  <2>1. ReportsKept(k)
    BY <1>23 DEF ReportsKept, OnProcDies, Dies, Alive, TypesOf, PastT
  <2> QED BY <2>1, KeptReports
<1>24. ASSUME NEW r \in ReportsOf(k), StartsReport(k, r) PROVE NewlySaid(k)
  <2>1. ReportsKept(k)
    BY <1>24 DEF ReportsKept, StartsReport, PastKept, Adds, ProcessKept, Up, TypesOf, PastT
  <2> QED BY <2>1, KeptReports
<1>25. ASSUME NEW r \in ReportsOf(k), DecidesReport(k, r) PROVE NewlySaid(k)
  <2>1. CASE ~\E how \in {"stopped", "error"} : Unstarts(k, how, ReportsOf(k) \ {r})
    BY <1>25, <2>1 DEF DecidesReport, Adds, NewlySaid, ToldKey
  <2>2. CASE \E how \in {"stopped", "error"} : Unstarts(k, how, ReportsOf(k) \ {r})
    <3>1. PICK how \in {"stopped", "error"} : Unstarts(k, how, ReportsOf(k) \ {r})
      BY <2>2
    <3>2. PICK rest : rest = ReportsOf(k) \ {r}
      OBVIOUS
    <3>3. told'[k] = told[k] /\ Unstarts(k, how, rest) /\ rest \subseteq ReportsOf(k)
      BY <1>25, <3>1, <3>2 DEF DecidesReport
    <3> QED BY <3>3, UnstartReports
  <2> QED BY <2>1, <2>2
<1>26. ASSUME NEW r \in ReportsOf(k), MarksReport(k, r) PROVE NewlySaid(k)
  <2>1. CASE meta'[k] = meta[k] /\ ReportsOf(k)' = ReportsOf(k) \ {r}
    BY <1>26, <2>1 DEF MarksReport, NewlySaid, ToldKey
  <2>2. CASE meta[k].here /\ Adds(k, ReportsOf(k) \ {r}, r.trigger, "tell", r.key)
    BY <1>26, <2>2 DEF MarksReport, Adds, NewlySaid, ToldKey
  <2> QED BY <1>26, <2>1, <2>2 DEF MarksReport
<1>27. ASSUME NEW r \in ReportsOf(k), TellsReport(k, r) PROVE NewlySaid(k)
  <2>1. /\ told'[k] = Append(told[k], r.key) /\ ReportsOf(k)' = ReportsOf(k) \ {r}
        /\ r.pc = "tell" /\ r \in ReportsOf(k)
    BY <1>27 DEF TellsReport
  <2>2. told[k] \in Seq(Nat) /\ r.key \in Nat
    BY DEF TypesOf, IsReport
  <2>3. \A i \in DOMAIN told'[k] :
          told'[k][i] = r.key \/ (i \in DOMAIN told[k] /\ told'[k][i] = told[k][i])
    BY <2>1, <2>2
  <2>4. ASSUME NEW x, ToldKey(k, x)' PROVE ToldKey(k, x)
    BY <2>1, <2>3, <2>4 DEF ToldKey
  <2> QED BY <2>1, <2>4 DEF NewlySaid
<1>28. CASE StartsNext(k)
  <2>1. ReportsKept(k)
    BY <1>28 DEF ReportsKept, StartsNext, KidIs, MetaIs, TypesOf, PastT
  <2> QED BY <2>1, KeptReports
<1>29. CASE LooksOwed(k)
  <2>1. ReportsKept(k)
    BY <1>29 DEF ReportsKept, LooksOwed, Adds, DiskKept, ProcessKept, Live,
       TypesOf, PastT
  <2> QED BY <2>1, KeptReports
<1>30. CASE GivesUpOwed(k)
  <2>1. ReportsKept(k)
    BY <1>30 DEF ReportsKept, GivesUpOwed, DiskKept, ProcessKept, MindKept,
       PastKept, TypesOf, PastT
  <2> QED BY <2>1, KeptReports
<1>31. CASE Closes(k)
  <2>1. ReportsKept(k)
    BY <1>31 DEF ReportsKept, Closes, DiskKept, ProcessKept, MindKept, PastKept,
       TypesOf, PastT
  <2> QED BY <2>1, KeptReports
<1>32. CASE Forgets(k)
  <2>1. ReportsKept(k)
    BY <1>32 DEF ReportsKept, Forgets, DiskKept
  <2> QED BY <2>1, KeptReports
<1>33. CASE Requeues(k)
  <2>1. ReportsKept(k)
    BY <1>33 DEF ReportsKept, Requeues, MetaIs, ProcessKept, MindKept, PastKept,
       TypesOf, PastT
  <2> QED BY <2>1, KeptReports
<1> QED
  BY <1>1, <1>2, <1>3, <1>4, <1>5, <1>6, <1>7, <1>8, <1>9, <1>10, <1>11, <1>12,
     <1>13, <1>14, <1>15, <1>16, <1>17, <1>18, <1>19, <1>20, <1>21, <1>22,
     <1>23, <1>24, <1>25, <1>26, <1>27, <1>28, <1>29, <1>30, <1>31, <1>32,
     <1>33 DEF Step, CallStep, ReportStep


(* What becomes of a session file and of the turn of its process.          *)
FileStep(k) ==
  \/ file'[k] = file[k] /\ (InTurn(proc'[k]) => InTurn(proc[k]))
  \/ \E o : Outcome(proc[k], file[k], o) /\ proc'[k] = o.proc /\ file'[k] = o.file
  \/ ~NoProcess(stray[k]) \/ k \in withdrawing \/ k \in past'.waitEnded

LEMMA FileSteps ==
  ASSUME NEW k \in Kids, Step(k), TypesOf(k), Leased(k), Unborn(k)
  PROVE  FileStep(k)
<1>1. CASE Same(k)
  BY <1>1 DEF Same, DiskKept, ProcessKept, MindKept, PastKept, FileStep, Live,
     TypesOf, NoProcess, InTurn, Alive
<1>2. CASE OnLaunchStarts(k)
  BY <1>2 DEF OnLaunchStarts, KidIs, ProcIs, Up, FileStep, Live, TypesOf,
     NoProcess, InTurn, Alive, Leased
<1>3. CASE OnLaunchAbandons(k)
  BY <1>3 DEF OnLaunchAbandons, Released, KidIs, LaunchFails, Erased, Unstarts,
     MetaIs, Adds, Up, FileStep, Live, TypesOf, NoProcess, InTurn, Alive, Leased
<1>4. CASE OnLaunchChecks(k)
  BY <1>4 DEF OnLaunchChecks, KidIs, MetaIs, Dies, Up, FileStep, Live, TypesOf,
     NoProcess, InTurn, Alive
<1>5. CASE OnLaunchPrompts(k)
  BY <1>5 DEF OnLaunchPrompts, KidIs, ProcIs, Alive, Up, FileStep, Live, TypesOf,
     NoProcess, InTurn
<1>6. CASE OnFreeLooks(k)
  BY <1>6 DEF OnFreeLooks, Up, FileStep, Live, TypesOf, NoProcess, InTurn, Alive
<1>7. CASE OnFreeGives(k)
  BY <1>7 DEF OnFreeGives, MetaIs, Up, FileStep, Live, TypesOf, NoProcess, InTurn,
     Alive
<1>8. CASE OnReadEvent(k)
  BY <1>8 DEF OnReadEvent, KidIs, ProcIs, ChildEvents, MetaIs, Adds, Live,
     Alive, Up, FileStep, TypesOf, NoProcess, InTurn
<1>9. CASE OnReap(k)
  BY <1>9 DEF OnReap, KidIs, ChildEvents, MetaIs, Adds, Live, Up, FileStep,
     TypesOf, NoProcess, InTurn, Alive, Leased
<1>10. CASE OnDrop(k)
  BY <1>10 DEF OnDrop, ProcIs, Released, KidIs, LaunchFails, Erased, Unstarts,
     MetaIs, Adds, Up, FileStep, Live, TypesOf, NoProcess, InTurn, Alive, Leased
<1>11. CASE OnHoldExpires(k)
  BY <1>11 DEF OnHoldExpires, KidIs, ProcIs, Live, Alive, Up, FileStep, TypesOf,
     NoProcess, InTurn
<1>12. ASSUME NEW prompt \in BOOLEAN, OnCreateChild(k, prompt) PROVE FileStep(k)
  BY <1>12 DEF OnCreateChild, KidIs, MetaIs, FileStep, Live, TypesOf, NoProcess,
     InTurn, Alive
<1>13. CASE OnSendStarts(k)
  BY <1>13 DEF OnSendStarts, KidIs, ProcIs, Live, Alive, FileStep, TypesOf,
     NoProcess, InTurn, Leased
<1>14. CASE OnSendTakes(k)
  BY <1>14 DEF OnSendTakes, Up, FileStep, Live, TypesOf, NoProcess, InTurn, Alive
<1>15. CASE OnSendWrites(k)
  BY <1>15 DEF OnSendWrites, KidIs, ProcIs, Live, Alive, Up, FileStep, TypesOf,
     NoProcess, InTurn
<1>16. CASE OnstopChild(k)
  BY <1>16 DEF OnstopChild, KidIs, ProcIs, Dies, Erased, MetaIs, Live, Booting,
     Alive, FileStep, TypesOf, NoProcess, InTurn
<1>17. CASE OnWithdrawChild(k)
  BY <1>17 DEF OnWithdrawChild, Erased, MetaIs, FileStep, Live, TypesOf,
     NoProcess, InTurn, Alive
<1>18. CASE OnWithdrawKills(k)
  BY <1>18 DEF OnWithdrawKills, KidIs, Dies, Live, Alive, Up, FileStep, TypesOf,
     NoProcess, InTurn
<1>19. CASE OnWithdrawEnds(k)
  BY <1>19 DEF OnWithdrawEnds, FileStep
<1>20. CASE OnCloseKills(k)
  BY <1>20 DEF OnCloseKills, KidIs, Dies, Live, Alive, FileStep, TypesOf,
     NoProcess, InTurn
<1>21. CASE OnProcMoves(k)
  BY <1>21 DEF OnProcMoves, FileStep
<1>22. CASE OnStrayMoves(k)
  <2>1. PICK o : Outcome(stray[k], file[k], o)
    BY <1>22 DEF OnStrayMoves
  <2>2. stray[k] \in ProcT
    BY DEF TypesOf
  <2>3. ~NoProcess(stray[k])
    BY <2>1, <2>2, MovedProcess DEF NoProcess, Alive
  <2> QED BY <2>3 DEF FileStep
<1>23. CASE OnProcDies(k)
  BY <1>23 DEF OnProcDies, Dies, Alive, FileStep, Live, TypesOf, NoProcess, InTurn
<1>24. ASSUME NEW r \in ReportsOf(k), StartsReport(k, r) PROVE FileStep(k)
  BY <1>24 DEF StartsReport, ProcessKept, FileStep
<1>25. ASSUME NEW r \in ReportsOf(k), DecidesReport(k, r) PROVE FileStep(k)
  BY <1>25 DEF DecidesReport, Adds, Unstarts, MetaIs, ProcessKept, Up, FileStep,
     Live, TypesOf, NoProcess, InTurn, Alive
<1>26. ASSUME NEW r \in ReportsOf(k), MarksReport(k, r) PROVE FileStep(k)
  BY <1>26 DEF MarksReport, MetaIs, Adds, ProcessKept, Up, FileStep, Live,
     TypesOf, NoProcess, InTurn, Alive
<1>27. ASSUME NEW r \in ReportsOf(k), TellsReport(k, r) PROVE FileStep(k)
  BY <1>27 DEF TellsReport, ProcessKept, Up, FileStep, Live, TypesOf, NoProcess,
     InTurn, Alive
<1>28. CASE StartsNext(k)
  BY <1>28 DEF StartsNext, KidIs, MetaIs, FileStep, Live, TypesOf, NoProcess,
     InTurn, Alive
<1>29. CASE LooksOwed(k)
  BY <1>29 DEF LooksOwed, Adds, DiskKept, ProcessKept, Live, FileStep, TypesOf,
     NoProcess, InTurn, Alive
<1>30. CASE GivesUpOwed(k)
  BY <1>30 DEF GivesUpOwed, DiskKept, ProcessKept, MindKept, PastKept, FileStep,
     Live, TypesOf, NoProcess, InTurn, Alive
<1>31. CASE Closes(k)
  BY <1>31 DEF Closes, DiskKept, ProcessKept, MindKept, PastKept, FileStep, Live,
     TypesOf, NoProcess, InTurn, Alive
<1>32. CASE Forgets(k)
  BY <1>32 DEF Forgets, Released, KidIs, NoProcess, DiskKept, ProcessKept,
     Live, Alive, Up, FileStep, TypesOf, InTurn
<1>33. CASE Requeues(k)
  BY <1>33 DEF Requeues, MetaIs, ProcessKept, MindKept, PastKept, FileStep, Live,
     TypesOf, NoProcess, InTurn, Alive
<1> QED
  BY <1>1, <1>2, <1>3, <1>4, <1>5, <1>6, <1>7, <1>8, <1>9, <1>10, <1>11, <1>12,
     <1>13, <1>14, <1>15, <1>16, <1>17, <1>18, <1>19, <1>20, <1>21, <1>22,
     <1>23, <1>24, <1>25, <1>26, <1>27, <1>28, <1>29, <1>30, <1>31, <1>32,
     <1>33 DEF Step, CallStep, ReportStep


LEMMA SilentStays ==
  ASSUME NEW k \in Kids, Step(k), PastStep(k), TypesOf(k), Silent(k), Unborn(k),
         GivenUp(k)
  PROVE  Silent(k)'
<1>1. CASE OnWithdrawChild(k)
  <2>1. told'[k] = told[k] /\ ReportsOf(k)' = ReportsOf(k)
    BY <1>1 DEF OnWithdrawChild
  <2>2. ASSUME NEW x, ToldKey(k, x)' PROVE ToldKey(k, x)
    BY <2>1, <2>2 DEF ToldKey
  <2> QED BY <1>1, <2>2 DEF OnWithdrawChild, Silent
<1>2. CASE /\ past'.heard[k] = past.heard[k]
           /\ k \in past'.withdrawn <=> k \in past.withdrawn
  <2>1. k \in past.withdrawn => \A x \in Nat : ToldKey(k, x)' => ToldKey(k, x)
    BY NewlySaidBy DEF NewlySaid, GivenUp
  <2> QED BY <1>2, <2>1 DEF Silent
<1> QED BY <1>1, <1>2 DEF PastStep

LEMMA OpenTurnIs ==
  ASSUME NEW f \in Seq(EntryT), openTurn(f)
  PROVE  OpenFile(f)
<1> DEFINE n == lastTurn(f).input
<1>1. n \in Inputs(f) /\ n > 0 /\ Closings(f) = {} /\ n \in 1 .. Len(f) /\ Len(f) \in Nat
  <2>1. Inputs(f) \subseteq 1 .. Len(f) /\ Len(f) \in Nat
    BY DEF Inputs
  <2>2. n \in Inputs(f)
    BY LastTurnIs DEF openTurn
  <2>3. Closings(f) \subseteq 1 .. Len(f)
    BY <2>1, <2>2 DEF Closings
  <2>4. Closings(f) = {}
    BY <2>1, <2>3, LastTurnIs DEF openTurn
  <2> QED BY <2>1, <2>2, <2>4
<1>2. Closings(f) = {i \in n + 1 .. Len(f) : IsClose(f[i]) /\ ~Bookkeeping(f, i)}
  BY DEF Closings, Bookkeeping
<1>3. IsInput(f[n])
  BY <1>1 DEF Inputs
<1> HIDE DEF n
<1>4. ASSUME NEW i \in n + 1 .. Len(f), IsClose(f[i]) PROVE FALSE
  <2>1. Bookkeeping(f, i)
    BY <1>1, <1>2, <1>4
  <2>2. i - 1 # n /\ f[i - 1] = "cancelled"
    BY <1>3, <2>1 DEF Bookkeeping, IsInput
  <2>3. i - 1 \in n + 1 .. Len(f)
    BY <1>1, <2>2
  <2>4. ~Bookkeeping(f, i - 1) /\ IsClose(f[i - 1])
    BY <2>2 DEF Bookkeeping, IsClose
  <2> QED BY <1>1, <1>2, <2>3, <2>4
<1> QED BY <1>1, <1>3, <1>4 DEF OpenFile

(* What an entry at the end of a session file changes.                     *)
LEMMA Extending ==
  ASSUME NEW f \in Seq(EntryT), NEW e \in EntryT
  PROVE  LET g == Append(f, e) IN
         /\ IsInput(e) => OpenFile(g)
         /\ ClosesOnce(f) /\ (IsClose(e) => OpenFile(f) \/ Bookkeeping(g, Len(f) + 1))
              => ClosesOnce(g)
         /\ \A i : Names(f, i) => Names(g, i)
<1> DEFINE g == Append(f, e)
           n == Len(f)
<1>1. /\ n \in Nat /\ DOMAIN f = 1 .. n /\ DOMAIN g = 1 .. n + 1 /\ Len(g) = n + 1
      /\ \A i \in 1 .. n : g[i] = f[i]
      /\ g[n + 1] = e
  OBVIOUS
<1> HIDE DEF g, n
<1>2. IsInput(e) => OpenFile(g)
  BY <1>1 DEF OpenFile
<1>3. ASSUME ClosesOnce(f), IsClose(e) => OpenFile(f) \/ Bookkeeping(g, n + 1)
      PROVE  ClosesOnce(g)
  <2>1. SUFFICES ASSUME NEW x \in 1 .. n + 1, NEW y \in 1 .. n + 1,
                        x < y, IsClose(g[x]), IsClose(g[y]), SameTurn(g, x, y)
                 PROVE  Bookkeeping(g, y)
    BY <1>1 DEF ClosesOnce
  <2>2. x \in 1 .. n /\ g[x] = f[x]
    BY <1>1, <2>1
  <2>3. CASE y \in 1 .. n
    <3>1. \A i \in x + 1 .. y : i \in 1 .. n /\ g[i] = f[i]
      BY <1>1, <2>2, <2>3
    <3>2. SameTurn(f, x, y) /\ g[y] = f[y]
      BY <1>1, <2>1, <2>3, <3>1 DEF SameTurn
    <3>3. Bookkeeping(f, y)
      BY <1>1, <1>3, <2>1, <2>2, <2>3, <3>2 DEF ClosesOnce
    <3>4. y - 1 \in 1 .. n
      BY <1>1, <2>3, <3>3 DEF Bookkeeping
    <3> QED BY <1>1, <3>2, <3>3, <3>4 DEF Bookkeeping
  <2>4. CASE y = n + 1
    <3>1. CASE OpenFile(f)
      <4>1. PICK i \in 1 .. n : IsInput(f[i]) /\ \A j \in i + 1 .. n : ~IsClose(f[j])
        BY <1>1, <3>1 DEF OpenFile, n
      <4>2. IsInput(g[i]) /\ ~IsClose(f[i])
        BY <1>1, <4>1 DEF IsInput, IsClose
      <4>3. x # i /\ ~(x > i)
        BY <1>1, <2>1, <2>2, <4>1, <4>2
      <4>4. i \in x + 1 .. y
        BY <1>1, <2>2, <2>4, <4>1, <4>3
      <4> QED BY <2>1, <4>2, <4>4 DEF SameTurn
    <3> QED BY <1>1, <1>3, <2>1, <2>4, <3>1
  <2> QED BY <1>1, <2>1, <2>3, <2>4
<1>4. ASSUME NEW i, Names(f, i) PROVE Names(g, i)
  <2>1. i \in 1 .. n /\ i \in 1 .. n + 1 /\ g[i] = f[i]
    BY <1>1, <1>4 DEF Names, IsEntry
  <2>2. i > 1 => i - 1 \in 1 .. n /\ g[i - 1] = f[i - 1]
    BY <1>1, <2>1
  <2> QED BY <1>1, <1>4, <2>1, <2>2 DEF Names, IsEntry, Bookkeeping
<1> QED BY <1>2, <1>3, <1>4 DEF g, n

LEMMA TurnsMove ==
  ASSUME NEW p \in ProcT, NEW f \in Seq(EntryT), NEW o, Outcome(p, f, o),
         InTurn(p) => OpenFile(f), ClosesOnce(f)
  PROVE  /\ InTurn(o.proc) => OpenFile(o.file)
         /\ ClosesOnce(o.file)
         /\ \A i : Names(f, i) => Names(o.file, i)
<1>0. /\ {"cancelled", "done"} \subseteq EntryT /\ IsClose("cancelled")
      /\ ~IsInput("done") /\ ~IsInput("cancelled")
  BY DEF EntryT, IsClose, IsInput
<1>1. CASE o.file = f /\ (InTurn(o.proc) => InTurn(p))
  BY <1>1
<1>2. CASE o.file \in {<<>>, <<"meta">>} /\ f \in {<<>>, <<"meta">>} /\ ~InTurn(o.proc)
  <2>1. ASSUME NEW i PROVE ~Names(f, i)
    BY <1>2 DEF Names, IsEntry
  <2>2. ClosesOnce(<<>>) /\ ClosesOnce(<<"meta">>)
    BY DEF ClosesOnce
  <2> QED BY <1>2, <2>1, <2>2
<1>3. CASE openTurn(f) /\ o.file = Append(f, "cancelled") /\ ~InTurn(o.proc)
  BY <1>0, <1>3, OpenTurnIs, Extending
<1>4. CASE p.pipe # <<>> /\ o.file = Append(f, Head(p.pipe))
  <2>1. Head(p.pipe) \in LineT
    BY <1>4, Reading DEF ProcT
  <2> DEFINE e == Head(p.pipe)
  <2>2. e \in EntryT /\ IsInput(e) /\ ~IsClose(e)
    BY <2>1 DEF LineT, EntryT, IsInput, IsClose
  <2>3. o.file = Append(f, e)
    BY <1>4
  <2> HIDE DEF e
  <2> QED BY <2>2, <2>3, Extending
<1>5. CASE InTurn(p) /\ o.file = Append(f, "done") /\ ~InTurn(o.proc)
  BY <1>0, <1>5, Extending
<1>6. CASE InTurn(p) /\ o.file = f \o <<"cancelled", "done">> /\ ~InTurn(o.proc)
  <2> DEFINE c == Append(f, "cancelled")
             g == Append(c, "done")
  <2>1. o.file = g
    BY <1>6
  <2>2. c \in Seq(EntryT) /\ Len(c) = Len(f) + 1 /\ Len(f) \in Nat
        /\ c[Len(c)] = "cancelled"
    BY <1>0
  <2>3. ClosesOnce(c) /\ \A i : Names(f, i) => Names(c, i)
    BY <1>0, <1>6, Extending
  <2> HIDE DEF c
  <2>4. Bookkeeping(g, Len(c) + 1)
    BY <2>2 DEF Bookkeeping
  <2>5. ClosesOnce(g) /\ \A i : Names(c, i) => Names(g, i)
    BY <1>0, <2>2, <2>3, <2>4, Extending
  <2> HIDE DEF g
  <2> QED BY <1>6, <2>1, <2>3, <2>5
<1> QED BY <1>1, <1>2, <1>3, <1>4, <1>5, <1>6 DEF Outcome, InTurn

LEMMA TurnKeyNames ==
  ASSUME NEW f \in Seq(EntryT), ~NoEntries(f)
  PROVE  Names(f, TurnKey(f))
<1>1. IsEntry(f, TurnKey(f))
  BY TurnKeyIs
<1>2. CASE lastTurn(f).closing > 0
  <2>1. TurnKey(f) \in Closings(f)
    BY <1>2, LastTurnIs DEF TurnKey
  <2> QED BY <1>1, <2>1 DEF Closings, Names, Bookkeeping
<1>3. CASE ~(lastTurn(f).closing > 0)
  <2>1. TurnKey(f) \in Inputs(f)
    BY <1>3, HasEntry, LastTurnIs, TurnKeyIs DEF TurnKey
  <2> QED BY <1>1, <2>1 DEF Inputs, IsInput, Names, Bookkeeping
<1> QED BY <1>2, <1>3

LEMMA TurnsStays ==
  ASSUME NEW k \in Kids, Step(k), PastStep(k), TypesOf(k), Turns(k), Leased(k),
         GivenUp(k), Unborn(k)
  PROVE  Turns(k)'
<1>1. SUFFICES ASSUME k \notin past'.orphans \cup past'.withdrawn \cup past'.waitEnded
               PROVE  /\ InTurn(proc'[k]) => OpenFile(file'[k])
                      /\ ClosesOnce(file'[k])
                      /\ \A x \in Nat \ {0} : ToldKey(k, x)' => Names(file'[k], x)
                      /\ \A r \in ReportsOf(k)' : r.pc = "mark" => Names(file'[k], r.key)
  BY DEF Turns
<1>2. /\ k \notin past.orphans \cup past.withdrawn \cup past.waitEnded
      /\ NoProcess(stray[k]) /\ k \notin withdrawing
  BY <1>1 DEF PastStep, Leased, GivenUp
<1>3. /\ InTurn(proc[k]) => OpenFile(file[k])
      /\ ClosesOnce(file[k])
      /\ \A x \in Nat \ {0} : ToldKey(k, x) => Names(file[k], x)
      /\ \A r \in ReportsOf(k) : r.pc = "mark" => Names(file[k], r.key)
  BY <1>2 DEF Turns
<1>4. file[k] \in Seq(EntryT) /\ proc[k] \in ProcT
  BY DEF TypesOf
<1>5. /\ InTurn(proc'[k]) => OpenFile(file'[k])
      /\ ClosesOnce(file'[k])
      /\ \A i : Names(file[k], i) => Names(file'[k], i)
  <2>1. CASE file'[k] = file[k] /\ (InTurn(proc'[k]) => InTurn(proc[k]))
    BY <1>3, <2>1
  <2>2. ASSUME NEW o, Outcome(proc[k], file[k], o), proc'[k] = o.proc, file'[k] = o.file
        PROVE  /\ InTurn(proc'[k]) => OpenFile(file'[k])
               /\ ClosesOnce(file'[k])
               /\ \A i : Names(file[k], i) => Names(file'[k], i)
    BY <1>3, <1>4, <2>2, TurnsMove
  <2> QED BY <1>1, <1>2, <2>1, <2>2, FileSteps DEF FileStep
<1>6. NewlySaid(k)
  BY NewlySaidBy
<1>7. lastTurn(file[k]).hasEntry => Names(file[k], TurnKey(file[k]))
  <2>1. ASSUME lastTurn(file[k]).hasEntry PROVE Names(file[k], TurnKey(file[k]))
    BY <1>4, <2>1, TurnKeyNames, HasEntry
  <2> QED BY <2>1
<1>8. \A x \in Nat \ {0} : ToldKey(k, x)' => Names(file'[k], x)
  BY <1>3, <1>5, <1>6 DEF NewlySaid
<1>9. \A r \in ReportsOf(k)' : r.pc = "mark" => Names(file'[k], r.key)
  BY <1>3, <1>5, <1>6, <1>7 DEF NewlySaid
<1> QED BY <1>5, <1>8, <1>9

LEMMA UnstartedStays ==
  ASSUME NEW k \in Kids, Step(k), TypesOf(k), Unstarted(k), Leased(k),
         Unborn(k), Queued(k), GivenUp(k), Files(k), BootStopped(k),
         Forgotten(k)
  PROVE  Unstarted(k)'
<1>1. CASE Same(k)
  BY <1>1 DEF Same, DiskKept, ProcessKept, MindKept, PastKept, Unstarted,
     ExitTold, BeforePrompt, Live, TypesOf
<1>2. CASE OnLaunchStarts(k)
  BY <1>2 DEF OnLaunchStarts, KidIs, ProcIs, Up, Unstarted, ExitTold,
     BeforePrompt, Live, TypesOf
<1>3. CASE OnLaunchAbandons(k)
  BY <1>3 DEF OnLaunchAbandons, Released, KidIs, LaunchFails, Erased, Unstarts,
     MetaIs, Adds, Up, Unstarted, ExitTold, BeforePrompt, Live, TypesOf
<1>4. CASE OnLaunchChecks(k)
  BY <1>4 DEF OnLaunchChecks, KidIs, MetaIs, Dies, Up, Unstarted, ExitTold,
     BeforePrompt, Live, TypesOf, BootStopped, Booting
<1>5. CASE OnLaunchPrompts(k)
  BY <1>5 DEF OnLaunchPrompts, KidIs, ProcIs, Alive, Up, Unstarted, ExitTold,
     BeforePrompt, Live, TypesOf, Leased
<1>6. CASE OnFreeLooks(k)
  BY <1>6 DEF OnFreeLooks, Up, Unstarted, ExitTold, BeforePrompt, Live, TypesOf
<1>7. CASE OnFreeGives(k)
  BY <1>7 DEF OnFreeGives, MetaIs, Up, Unstarted, ExitTold, BeforePrompt, Live,
     TypesOf
<1>8. CASE OnReadEvent(k)
  BY <1>8 DEF OnReadEvent, KidIs, ProcIs, ChildEvents, MetaIs, Adds, Live,
     Alive, Up, Unstarted, ExitTold, BeforePrompt, TypesOf, Files, TaskTaken,
     historyExists
<1>9. CASE OnReap(k)
  BY <1>9 DEF OnReap, KidIs, ChildEvents, MetaIs, Adds, Live, Up, Unstarted,
     ExitTold, BeforePrompt, TypesOf, TaskTaken, historyExists, Leased
<1>10. CASE OnDrop(k)
  BY <1>10 DEF OnDrop, ProcIs, Released, KidIs, LaunchFails, Erased, Unstarts,
     MetaIs, Adds, Up, Unstarted, ExitTold, BeforePrompt, Live, TypesOf,
     Leased, Queued
<1>11. CASE OnHoldExpires(k)
  BY <1>11 DEF OnHoldExpires, KidIs, ProcIs, Live, Alive, Up, Unstarted,
     ExitTold, BeforePrompt, TypesOf
<1>12. ASSUME NEW prompt \in BOOLEAN, OnCreateChild(k, prompt) PROVE Unstarted(k)'
  BY <1>12 DEF OnCreateChild, KidIs, MetaIs, Unstarted, ExitTold, BeforePrompt,
     Live, TypesOf, Unborn, Born
<1>13. CASE OnSendStarts(k)
  BY <1>13 DEF OnSendStarts, KidIs, ProcIs, Live, Alive, Unstarted, ExitTold,
     BeforePrompt, TypesOf, Leased
<1>14. CASE OnSendTakes(k)
  BY <1>14 DEF OnSendTakes, Up, Unstarted, ExitTold, BeforePrompt, Live, TypesOf
<1>15. CASE OnSendWrites(k)
  BY <1>15 DEF OnSendWrites, KidIs, ProcIs, Live, Alive, Up, Unstarted,
     ExitTold, BeforePrompt, TypesOf
<1>16. CASE OnstopChild(k)
  BY <1>16 DEF OnstopChild, KidIs, ProcIs, Dies, Erased, MetaIs, Live, Booting,
     Alive, Unstarted, ExitTold, BeforePrompt, TypesOf
<1>17. CASE OnWithdrawChild(k)
  BY <1>17 DEF OnWithdrawChild, Erased, MetaIs, Unstarted, ExitTold,
     BeforePrompt, Live, TypesOf
<1>18. CASE OnWithdrawKills(k)
  BY <1>18 DEF OnWithdrawKills, KidIs, Dies, Live, Alive, Up, Unstarted,
     ExitTold, BeforePrompt, TypesOf
<1>19. CASE OnWithdrawEnds(k)
  BY <1>19 DEF OnWithdrawEnds, Live, Up, Unstarted, ExitTold, BeforePrompt,
     TypesOf, GivenUp
<1>20. CASE OnCloseKills(k)
  BY <1>20 DEF OnCloseKills, KidIs, Dies, Live, Alive, Unstarted, ExitTold,
     BeforePrompt, TypesOf
<1>21. CASE OnProcMoves(k)
  <2>1. PICK o : /\ Outcome(proc[k], file[k], o) /\ proc'[k] = o.proc
                 /\ file'[k] = o.file /\ out'[k] = out[k] \o o.say
                 /\ o.say \in Seq(EventT)
    BY <1>21 DEF OnProcMoves
  <2>2. proc[k] \in ProcT /\ file[k] \in Seq(EntryT) /\ out[k] \in Seq(EventT)
    BY DEF TypesOf
  <2>3. NoEntries(file'[k]) => NoEntries(file[k])
    BY <2>1, <2>2, MovedFile
  <2> QED BY <1>21, <2>3 DEF OnProcMoves, Unstarted, BeforePrompt, ExitTold, Live
<1>22. CASE OnStrayMoves(k)
  <2>1. PICK o : /\ Outcome(stray[k], file[k], o)
                 /\ \/ o.proc.st = "dead" /\ NoProcess(stray'[k])
                    \/ o.proc.st # "dead" /\ stray'[k] = o.proc
                 /\ file'[k] = file[k] \/ file'[k] = o.file
    BY <1>22 DEF OnStrayMoves
  <2>2. stray[k] \in ProcT /\ file[k] \in Seq(EntryT)
    BY DEF TypesOf
  <2>3. NoEntries(file'[k]) => NoEntries(file[k])
    BY <2>1, <2>2, MovedFile
  <2> QED BY <1>22, <2>3 DEF OnStrayMoves, Unstarted, BeforePrompt, ExitTold, Live
<1>23. CASE OnProcDies(k)
  BY <1>23 DEF OnProcDies, Dies, Alive, Unstarted, ExitTold, BeforePrompt,
     Live, TypesOf
<1>24. ASSUME NEW r \in ReportsOf(k), StartsReport(k, r) PROVE Unstarted(k)'
  <2>1. file'[k] = file[k] \/ (~NoEntries(file[k]) /\ file'[k] = Append(file[k], "cancelled"))
    BY <1>24, DoneIsThere DEF StartsReport, TypesOf
  <2>2. file[k] \in Seq(EntryT) /\ "cancelled" \in EntryT /\ ~IsInput("cancelled")
    BY DEF TypesOf, EntryT, IsInput
  <2>3. NoEntries(file'[k]) => NoEntries(file[k])
    BY <2>1, <2>2, Appending
  <2>4. ExitTold(k) => ExitTold(k)'
    BY <1>24 DEF StartsReport, PastKept, Adds, ExitTold
  <2> QED BY <1>24, <2>3, <2>4 DEF StartsReport, PastKept, Unstarted, BeforePrompt, Live
<1>25. ASSUME NEW r \in ReportsOf(k), DecidesReport(k, r) PROVE Unstarted(k)'
  <2>1. lastTurn(file[k]).hasEntry <=> ~NoEntries(file[k])
    BY HasEntry DEF TypesOf
  <2>2. CASE lastTurn(file[k]).hasEntry
    BY <1>25, <2>1, <2>2 DEF DecidesReport, Unstarts, MetaIs, Unstarted, BeforePrompt, Live
  <2>3. CASE ~lastTurn(file[k]).hasEntry /\ r.trigger = "exit"
    BY <1>25, <2>3 DEF DecidesReport, Unstarts, MetaIs, Adds, Unstarted, BeforePrompt, Live
  <2>4. CASE ~lastTurn(file[k]).hasEntry /\ r.trigger # "exit"
    BY <1>25, <2>4 DEF DecidesReport, Unstarted, BeforePrompt, Live, ExitTold
  <2> QED BY <2>2, <2>3, <2>4
<1>26. ASSUME NEW r \in ReportsOf(k), MarksReport(k, r) PROVE Unstarted(k)'
  BY <1>26 DEF MarksReport, MetaIs, Adds, ProcessKept, Up, Unstarted, ExitTold,
     BeforePrompt, Live, TypesOf
<1>27. ASSUME NEW r \in ReportsOf(k), TellsReport(k, r) PROVE Unstarted(k)'
  BY <1>27 DEF TellsReport, ProcessKept, Up, Unstarted, ExitTold, BeforePrompt,
     Live, TypesOf
<1>28. CASE StartsNext(k)
  BY <1>28 DEF StartsNext, KidIs, MetaIs, Unstarted, ExitTold, BeforePrompt,
     Live, TypesOf, Queued
<1>29. CASE LooksOwed(k)
  BY <1>29 DEF LooksOwed, Adds, DiskKept, ProcessKept, Live, Unstarted,
     ExitTold, BeforePrompt, TypesOf
<1>30. CASE GivesUpOwed(k)
  BY <1>30 DEF GivesUpOwed, DiskKept, ProcessKept, MindKept, PastKept,
     Unstarted, ExitTold, BeforePrompt, Live, TypesOf
<1>31. CASE Closes(k)
  BY <1>31 DEF Closes, DiskKept, ProcessKept, MindKept, PastKept, Unstarted,
     ExitTold, BeforePrompt, Live, TypesOf
<1>32. CASE Forgets(k)
  BY <1>32 DEF Forgets, Released, KidIs, NoProcess, DiskKept, ProcessKept,
     Live, Alive, Up, Unstarted, ExitTold, BeforePrompt, TypesOf
<1>33. CASE Requeues(k)
  <2>1. lastTurn(file[k]).hasEntry <=> ~NoEntries(file[k])
    BY HasEntry DEF TypesOf
  <2> QED BY <1>33, <2>1 DEF Requeues, MetaIs, Spent, MindKept, PastKept, Unstarted,
          BeforePrompt, Forgotten
<1> QED
  BY <1>1, <1>2, <1>3, <1>4, <1>5, <1>6, <1>7, <1>8, <1>9, <1>10, <1>11, <1>12,
     <1>13, <1>14, <1>15, <1>16, <1>17, <1>18, <1>19, <1>20, <1>21, <1>22,
     <1>23, <1>24, <1>25, <1>26, <1>27, <1>28, <1>29, <1>30, <1>31, <1>32,
     <1>33 DEF Step, CallStep, ReportStep

LEMMA LastInputIs ==
  ASSUME NEW f \in Seq(EntryT)
  PROVE  LastInput(f) \in Nat
<1>1. Inputs(f) \subseteq 1 .. Len(f) /\ Len(f) \in Nat
  BY DEF Inputs
<1>2. lastTurn(f).input \in Inputs(f) \cup {0}
  BY LastTurnIs
<1> QED BY <1>1, <1>2 DEF LastInput

LEMMA ReportedStays ==
  ASSUME NEW k \in Kids, Step(k), TypesOf(k), Reported(k), Leased(k),
         Unborn(k), Queued(k), Forgotten(k), GivenUp(k), Files(k)
  PROVE  Reported(k)'
<1>n. /\ NoEntries(file[k]) => LastInput(file[k]) = 0
      /\ meta[k].reported \in Nat /\ 0 <= meta[k].reported
  BY NothingOpen DEF TypesOf, MetaT
<1>1. CASE Same(k)
  BY <1>1, <1>n DEF Same, DiskKept, ProcessKept, MindKept, PastKept, Reported,
     ToReport, BeforePrompt, Live, OpenTurn, Alive
<1>2. CASE OnLaunchStarts(k)
  BY <1>2, <1>n DEF OnLaunchStarts, KidIs, ProcIs, Up, Reported, ToReport,
     BeforePrompt, Live, OpenTurn, Alive, Leased, NoProcess
<1>3. CASE OnLaunchAbandons(k)
  BY <1>3, <1>n DEF OnLaunchAbandons, Released, KidIs, LaunchFails, Erased,
     Unstarts, MetaIs, Adds, Up, Reported, ToReport, BeforePrompt, Live,
     OpenTurn, Alive, Leased, NoProcess
<1>4. CASE OnLaunchChecks(k)
  BY <1>4, <1>n DEF OnLaunchChecks, KidIs, MetaIs, Dies, Up, Reported,
     ToReport, BeforePrompt, Live, OpenTurn, Alive
<1>5. CASE OnLaunchPrompts(k)
  <2>1. proc[k].pipe \in Seq(LineT)
    BY DEF TypesOf, ProcT
  <2>2. Append(proc[k].pipe, "task") # <<>>
    BY <2>1, PipeGets DEF LineT
  <2> QED BY <1>5, <1>n, <2>2 DEF OnLaunchPrompts, KidIs, ProcIs, Reported, BeforePrompt, ToReport,
          Live, OpenTurn
<1>6. CASE OnFreeLooks(k)
  BY <1>6, <1>n DEF OnFreeLooks, Up, Reported, ToReport, BeforePrompt, Live,
     OpenTurn, Alive
<1>7. CASE OnFreeGives(k)
  BY <1>7, <1>n DEF OnFreeGives, MetaIs, Up, Reported, ToReport, BeforePrompt,
     Live, OpenTurn, Alive
<1>8. CASE OnReadEvent(k)
  <2>1. /\ Head(out[k]) \in EventT
        /\ NoClose(out[k]) <=> Head(out[k]) = "work" /\ NoClose(Tail(out[k]))
    BY <1>8, Hearing DEF TypesOf, OnReadEvent
  <2>2. kids[k].exited => out[k] = <<>>
    BY DEF Leased
  <2>3. /\ proc'[k].st = proc[k].st /\ proc'[k].pipe = proc[k].pipe
        /\ file'[k] = file[k] /\ sending'[k] = sending[k] /\ serve' = serve
        /\ meta'[k].reported = meta[k].reported /\ meta'[k].queued = meta[k].queued
        /\ meta'[k].here = meta[k].here
        /\ kids'[k].pc = kids[k].pc /\ kids'[k].exited = kids[k].exited
        /\ kids'[k].startFailed = kids[k].startFailed
        /\ k \in past'.orphans \cup past'.overtaken <=> k \in past.orphans \cup past.overtaken
        /\ k \in owed' <=> k \in owed
    BY <1>8 DEF OnReadEvent, KidIs, ProcIs, ChildEvents, MetaIs
  <2>4. CASE Head(out[k]) = "work"
    <3>1. NoClose(out[k]) <=> NoClose(out'[k])
      BY <1>8, <2>1, <2>4 DEF OnReadEvent
    <3>2. ReportsOf(k)' = ReportsOf(k)
      BY <1>8, <2>4 DEF OnReadEvent, ChildEvents
    <3> QED BY <2>3, <3>1, <3>2 DEF Reported, ToReport, BeforePrompt, Live, OpenTurn
  <2>5. CASE Head(out[k]) # "work"
    <3>1. meta[k].here => serve # "up" \/ \E r \in ReportsOf(k)' : r.pc = "decide"
      BY <1>8, <2>1, <2>5 DEF OnReadEvent, ChildEvents, Adds, EventT
    <3> QED BY <2>3, <3>1 DEF Reported, ToReport, BeforePrompt, Live, OpenTurn
  <2> QED BY <2>4, <2>5
<1>9. CASE OnReap(k)
  <2>1. /\ meta[k].here => \/ serve # "up" \/ kids[k].startFailed
                          \/ \E r \in ReportsOf(k)' : r.pc = "start"
    BY <1>9 DEF OnReap, ChildEvents, Adds
  <2>2. /\ file'[k] = file[k] /\ serve' = serve
        /\ meta'[k].reported = meta[k].reported /\ meta'[k].queued = meta[k].queued
        /\ meta'[k].here = meta[k].here /\ proc'[k] = proc[k]
        /\ kids'[k].pc = kids[k].pc
        /\ kids'[k].startFailed = kids[k].startFailed
        /\ k \in past'.orphans \cup past'.overtaken <=> k \in past.orphans \cup past.overtaken
    BY <1>9 DEF OnReap, KidIs, ChildEvents, MetaIs
  <2> QED BY <1>n, <2>1, <2>2 DEF Reported, ToReport, BeforePrompt
<1>10. CASE OnDrop(k)
  <2>1. /\ file'[k] = file[k] /\ serve' = serve /\ out'[k] = out[k] /\ sending'[k] = sending[k]
        /\ meta'[k].here => meta[k].here /\ meta'[k].reported = meta[k].reported
                          /\ meta'[k].queued = meta[k].queued
        /\ kids'[k].pc = "none" /\ ~kids'[k].startFailed
        /\ \A r \in ReportsOf(k) : r \in ReportsOf(k)'
        /\ k \in past'.orphans \cup past'.overtaken <=> k \in past.orphans \cup past.overtaken
        /\ k \in owed' <=> k \in owed
    BY <1>10 DEF OnDrop, Released, KidIs, LaunchFails, Erased, Unstarts, MetaIs, Adds
  <2>2. kids[k].exited /\ proc[k].st = "dead" /\ Live(k)
    BY <1>10 DEF OnDrop, Leased, Live
  <2> QED BY <1>n, <2>1, <2>2 DEF Reported, ToReport, BeforePrompt, Live, OpenTurn
<1>11. CASE OnHoldExpires(k)
  BY <1>11, <1>n DEF OnHoldExpires, KidIs, ProcIs, Live, Alive, Up, Reported,
     ToReport, BeforePrompt, OpenTurn, Leased
<1>12. ASSUME NEW prompt \in BOOLEAN, OnCreateChild(k, prompt) PROVE Reported(k)'
  BY <1>12, <1>n, NewFile DEF OnCreateChild, KidIs, MetaIs, Reported, ToReport,
     BeforePrompt, Live, OpenTurn, Alive, Unborn, Born, NoProcess
<1>13. CASE OnSendStarts(k)
  BY <1>13, <1>n DEF OnSendStarts, KidIs, ProcIs, Live, Alive, Reported,
     ToReport, BeforePrompt, OpenTurn, Leased, NoProcess
<1>14. CASE OnSendTakes(k)
  BY <1>14, <1>n DEF OnSendTakes, Up, Reported, ToReport, BeforePrompt, Live,
     OpenTurn, Alive
<1>15. CASE OnSendWrites(k)
  <2>1. proc[k].pipe \in Seq(LineT)
    BY DEF TypesOf, ProcT
  <2>2. Append(proc[k].pipe, "msg") # <<>>
    BY <2>1, PipeGets DEF LineT
  <2>3. kids[k].exited => proc[k].st = "dead"
    BY DEF Leased
  <2>4. CASE Live(k) /\ Alive(proc[k])
    BY <1>15, <2>2, <2>3, <2>4 DEF OnSendWrites, KidIs, ProcIs, Reported, BeforePrompt, ToReport,
       Live, OpenTurn, Alive
  <2>5. CASE ~(Live(k) /\ Alive(proc[k]))
    BY <1>15, <2>3, <2>5 DEF OnSendWrites, Reported, BeforePrompt, ToReport, Leased,
       Live, OpenTurn, Alive
  <2> QED BY <2>4, <2>5
<1>16. CASE OnstopChild(k)
  BY <1>16, <1>n DEF OnstopChild, KidIs, ProcIs, Dies, Erased, MetaIs, Live,
     Booting, Alive, Reported, ToReport, BeforePrompt, OpenTurn, Leased,
     NoProcess
<1>17. CASE OnWithdrawChild(k)
  BY <1>17, <1>n DEF OnWithdrawChild, Erased, MetaIs, Reported, ToReport,
     BeforePrompt, Live, OpenTurn, Alive
<1>18. CASE OnWithdrawKills(k)
  BY <1>18, <1>n DEF OnWithdrawKills, KidIs, Dies, Live, Alive, Up, Reported,
     ToReport, BeforePrompt, OpenTurn, Leased, NoProcess
<1>19. CASE OnWithdrawEnds(k)
  BY <1>19, <1>n DEF OnWithdrawEnds, Live, Up, Reported, ToReport,
     BeforePrompt, OpenTurn, Alive, GivenUp
<1>20. CASE OnCloseKills(k)
  BY <1>20, <1>n DEF OnCloseKills, KidIs, Dies, Live, Alive, Reported,
     ToReport, BeforePrompt, OpenTurn
<1>21. CASE OnProcMoves(k)
  <2>1. PICK o : /\ Outcome(proc[k], file[k], o) /\ proc'[k] = o.proc
                 /\ file'[k] = o.file /\ out'[k] = out[k] \o o.say
                 /\ o.say \in Seq(EventT)
    BY <1>21 DEF OnProcMoves
  <2>2. proc[k] \in ProcT /\ file[k] \in Seq(EntryT) /\ out[k] \in Seq(EventT)
    BY DEF TypesOf
  <2>3. /\ NoEntries(file[k]) /\ ~InTurn(proc[k]) /\ ~Opens(proc[k], o) => NoEntries(o.file)
        /\ LastInput(o.file) = LastInput(file[k]) \/ Opens(proc[k], o)
    BY <2>1, <2>2, MovedFile
  <2>4. /\ Alive(proc[k]) /\ o.proc.st # "none"
        /\ o.proc.pipe = proc[k].pipe
             \/ /\ proc[k].pipe # <<>> /\ o.proc.st \in {"open", "turn"}
        /\ proc[k].st \in {"open", "turn"} => o.proc.st \in {"open", "turn"} \/ ~NoClose(o.say)
    BY <2>1, <2>2, MovedProcess
  <2>5. NoClose(out'[k]) <=> NoClose(out[k]) /\ NoClose(o.say)
    BY <2>1, <2>2, Saying
  <2>6. /\ InTurn(proc[k]) => ~NoEntries(file[k])
        /\ kids[k].pc \notin {"none", "exec"} /\ ~kids[k].exited /\ ~kids[k].startFailed
        /\ kids[k].pc # "wait"
    BY <2>4 DEF Files, Leased, Alive, NoProcess
  <2>7. Opens(proc[k], o) => proc[k].pipe # <<>> /\ o.proc.st = "open"
    BY DEF Opens
  <2>8. /\ meta'[k] = meta[k] /\ kids'[k] = kids[k] /\ past' = past /\ serve' = serve
        /\ sending'[k] = sending[k] /\ ReportsOf(k)' = ReportsOf(k) /\ (k \in owed' <=> k \in owed)
    BY <1>21 DEF OnProcMoves
  <2>9. meta[k].queued => kids[k].pc = "none"
    BY DEF Queued
  <2>10. CASE Opens(proc[k], o)
    BY <2>1, <2>4, <2>6, <2>7, <2>8, <2>9, <2>10 DEF Reported, ToReport, BeforePrompt, OpenTurn
  <2>11. CASE ~Opens(proc[k], o)
    <3>1. ToReport(k) => ToReport(k)'
      BY <2>1, <2>3, <2>4, <2>5, <2>8, <2>11 DEF ToReport, Live, OpenTurn, Alive
    <3>2. o.proc.pipe = proc[k].pipe \/ proc[k].pipe # <<>>
      BY <2>4
    <3> QED BY <2>1, <2>3, <2>6, <2>8, <2>9, <2>11, <3>1, <3>2 DEF Reported, BeforePrompt
  <2> QED BY <2>10, <2>11
<1>22. CASE OnStrayMoves(k)
  <2>1. PICK o : /\ Outcome(stray[k], file[k], o)
                 /\ \/ o.proc.st = "dead" /\ NoProcess(stray'[k])
                    \/ o.proc.st # "dead" /\ stray'[k] = o.proc
                 /\ file'[k] = file[k] \/ file'[k] = o.file
    BY <1>22 DEF OnStrayMoves
  <2>2. stray[k] \in ProcT /\ file[k] \in Seq(EntryT)
    BY DEF TypesOf
  <2>3. k \in past.orphans
    BY <2>1, <2>2, MovedProcess DEF Leased, NoProcess, Alive
  <2> QED BY <1>22, <2>3 DEF OnStrayMoves, Reported
<1>23. CASE OnProcDies(k)
  BY <1>23, <1>n DEF OnProcDies, Dies, Alive, Reported, ToReport, BeforePrompt,
     Live, OpenTurn, Leased, NoProcess
<1>24. ASSUME NEW r \in ReportsOf(k), StartsReport(k, r) PROVE Reported(k)'
  <2>1. file'[k] = file[k] \/ (~NoEntries(file[k]) /\ file'[k] = Append(file[k], "cancelled"))
    BY <1>24, DoneIsThere DEF StartsReport, TypesOf
  <2>2. file[k] \in Seq(EntryT) /\ "cancelled" \in EntryT /\ ~IsInput("cancelled")
    BY DEF TypesOf, EntryT, IsInput
  <2>3. LastInput(file'[k]) = LastInput(file[k]) /\ (NoEntries(file[k]) => NoEntries(file'[k]))
    BY <2>1, <2>2, Appending
  <2>4. \E x \in ReportsOf(k)' : x.pc = "decide"
    BY <1>24 DEF StartsReport, Adds
  <2> QED BY <1>24, <2>3, <2>4 DEF StartsReport, PastKept, ProcessKept, Reported, ToReport, BeforePrompt
<1>25. ASSUME NEW r \in ReportsOf(k), DecidesReport(k, r) PROVE Reported(k)'
  <2>1. /\ lastTurn(file[k]).hasEntry <=> ~NoEntries(file[k])
        /\ ~NoEntries(file[k]) => TurnKey(file[k]) >= LastInput(file[k])
    BY HasEntry, TurnKeyIs DEF TypesOf
  <2>2. /\ file'[k] = file[k] /\ serve' = serve /\ out'[k] = out[k] /\ sending'[k] = sending[k]
        /\ meta'[k].here => meta[k].here /\ meta'[k].reported = meta[k].reported
                          /\ meta'[k].queued = meta[k].queued
        /\ kids'[k] = kids[k] /\ proc'[k] = proc[k]
        /\ k \in past'.orphans \cup past'.overtaken <=> k \in past.orphans \cup past.overtaken
    BY <1>25 DEF DecidesReport, ProcessKept, Unstarts, MetaIs
  <2>3. CASE NoEntries(file[k])
    BY <1>n, <2>2, <2>3 DEF Reported, BeforePrompt
  <2>4. CASE ~NoEntries(file[k])
    <3>1. \E x \in ReportsOf(k)' : x.pc = "mark" /\ x.key >= LastInput(file[k])
      BY <1>25, <2>1, <2>4 DEF DecidesReport, Adds
    <3> QED BY <2>2, <3>1 DEF Reported, ToReport, BeforePrompt
  <2> QED BY <2>3, <2>4
<1>26. ASSUME NEW r \in ReportsOf(k), MarksReport(k, r) PROVE Reported(k)'
  <2>1. /\ file'[k] = file[k] /\ serve' = serve /\ out'[k] = out[k] /\ sending'[k] = sending[k]
        /\ meta'[k].here => meta[k].here /\ meta'[k].queued = meta[k].queued
        /\ kids'[k] = kids[k] /\ proc'[k] = proc[k]
        /\ k \in owed' <=> k \in owed
        /\ k \in past'.orphans \cup past'.overtaken <=> k \in past.orphans \cup past.overtaken
        /\ \A x \in ReportsOf(k) : x \in ReportsOf(k)' \/ x = r
        /\ r.pc = "mark"
    BY <1>26 DEF MarksReport, ProcessKept, MetaIs, Adds
  <2>2. /\ r.key \in Nat /\ LastInput(file[k]) \in Nat
    BY LastInputIs DEF TypesOf, IsReport
  <2>3. meta'[k].here => meta'[k].reported \in Nat
                         /\ meta'[k].reported >= meta[k].reported
                         /\ meta'[k].reported >= r.key
    BY <1>26, <1>n, <2>2 DEF MarksReport, MetaIs
  <2>4. CASE r.key >= LastInput(file[k])
    BY <2>1, <2>2, <2>3, <2>4 DEF Reported, BeforePrompt
  <2>5. CASE ~(r.key >= LastInput(file[k]))
    <3>1. ToReport(k) => ToReport(k)'
      BY <2>1, <2>5 DEF ToReport, Live, OpenTurn
    <3> QED BY <1>n, <2>1, <2>2, <2>3, <3>1 DEF Reported, BeforePrompt
  <2> QED BY <2>4, <2>5
<1>27. ASSUME NEW r \in ReportsOf(k), TellsReport(k, r) PROVE Reported(k)'
  BY <1>27, <1>n DEF TellsReport, ProcessKept, Up, Reported, ToReport,
     BeforePrompt, Live, OpenTurn, Alive
<1>28. CASE StartsNext(k)
  BY <1>28, <1>n DEF StartsNext, KidIs, MetaIs, Reported, ToReport,
     BeforePrompt, Live, OpenTurn, Alive, Queued, Leased, NoProcess
<1>29. CASE LooksOwed(k)
  <2>1. lastTurn(file[k]).hasEntry <=> ~NoEntries(file[k])
    BY HasEntry DEF TypesOf
  <2>2. /\ file'[k] = file[k] /\ serve' = serve /\ out'[k] = out[k] /\ sending'[k] = sending[k]
        /\ meta'[k] = meta[k]
        /\ kids'[k] = kids[k] /\ proc'[k] = proc[k]
        /\ k \in past'.orphans \cup past'.overtaken <=> k \in past.orphans \cup past.overtaken
        /\ \A x \in ReportsOf(k) : x \in ReportsOf(k)'
    BY <1>29 DEF LooksOwed, ProcessKept, DiskKept, Adds
  <2>3. CASE NoEntries(file[k])
    BY <1>n, <2>2, <2>3 DEF Reported, BeforePrompt
  <2>4. CASE ~NoEntries(file[k]) /\ TurnKey(file[k]) > meta[k].reported /\ ~Live(k) /\ serve = "up"
    <3>0. file[k] # <<>>
      BY <2>4, NewFile
    <3>1. \E x \in ReportsOf(k)' : x.pc = "start"
      BY <1>29, <2>4, <3>0 DEF LooksOwed, Adds
    <3> QED BY <2>2, <3>1 DEF Reported, ToReport, BeforePrompt
  <2>5. CASE ~NoEntries(file[k]) /\ ~(TurnKey(file[k]) > meta[k].reported)
    <3>1. TurnKey(file[k]) \in Nat /\ TurnKey(file[k]) >= LastInput(file[k])
          /\ LastInput(file[k]) \in Nat
      BY <2>5, TurnKeyIs, LastInputIs DEF TypesOf
    <3>2. LastInput(file[k]) <= meta[k].reported
      BY <1>n, <2>5, <3>1
    <3> QED BY <2>2, <3>2 DEF Reported, BeforePrompt
  <2>6. CASE Live(k) \/ serve # "up"
    BY <2>2, <2>6 DEF Reported, ToReport, BeforePrompt, Live, OpenTurn
  <2> QED BY <2>3, <2>4, <2>5, <2>6
<1>30. CASE GivesUpOwed(k)
  BY <1>30, <1>n DEF GivesUpOwed, DiskKept, ProcessKept, MindKept, PastKept,
     Reported, ToReport, BeforePrompt, Live, OpenTurn, Alive
<1>31. CASE Closes(k)
  BY <1>31, <1>n DEF Closes, DiskKept, ProcessKept, MindKept, PastKept,
     Reported, ToReport, BeforePrompt, Live, OpenTurn, Alive
<1>32. CASE Forgets(k)
  BY <1>32, <1>n DEF Forgets, Released, KidIs, NoProcess, DiskKept,
     ProcessKept, Live, Alive, Up, Reported, ToReport, BeforePrompt, OpenTurn
<1>33. CASE Requeues(k)
  <2>1. lastTurn(file[k]).hasEntry <=> ~NoEntries(file[k])
    BY HasEntry DEF TypesOf
  <2>2. kids[k].pc = "none" /\ ~meta[k].here => Blank(k)
    BY <1>33 DEF Requeues, Forgotten, Queued
  <2>3. /\ kids'[k].pc = "none" /\ ~kids'[k].startFailed /\ file'[k] = file[k]
        /\ k \in past'.orphans \cup past'.overtaken <=> k \in past.orphans \cup past.overtaken
        /\ meta'[k].reported = meta[k].reported /\ meta'[k].here = meta[k].here
    BY <1>33 DEF Requeues, Forgotten, Leased, MindKept, PastKept, MetaIs
  <2>4. CASE meta'[k].queued /\ NoEntries(file[k])
    BY <1>n, <2>3, <2>4 DEF Reported, BeforePrompt
  <2>5. CASE meta'[k].queued /\ ~NoEntries(file[k])
    <3>1. ~meta[k].task /\ meta[k].queued
      BY <1>33, <2>1, <2>5 DEF Requeues, MetaIs, Spent
    <3> QED BY <3>1 DEF Queued
  <2>6. CASE ~meta'[k].queued
    <3>1. meta[k].here => k \in owed'
      BY <1>33, <2>6 DEF Requeues, MetaIs
    <3> QED BY <2>3, <2>6, <3>1 DEF Reported, ToReport, BeforePrompt, Live
  <2> QED BY <2>4, <2>5, <2>6
<1> QED
  BY <1>1, <1>2, <1>3, <1>4, <1>5, <1>6, <1>7, <1>8, <1>9, <1>10, <1>11, <1>12,
     <1>13, <1>14, <1>15, <1>16, <1>17, <1>18, <1>19, <1>20, <1>21, <1>22,
     <1>23, <1>24, <1>25, <1>26, <1>27, <1>28, <1>29, <1>30, <1>31, <1>32,
     <1>33 DEF Step, CallStep, ReportStep

----------------------------------------------------------------------------
(* Every step, seen by all children.                                       *)

LEMMA NextTyped ==
  ASSUME Typed, [Next]_vars
  PROVE  Typed'
<1>1. CASE UNCHANGED vars
  BY <1>1 DEF vars, memory, disk, process, Typed
<1>2. ASSUME NEW k \in Kids, Launch(k) PROVE Typed'
  BY <1>2, LaunchStartsTyped, LaunchAbandonsTyped, LaunchChecksTyped,
     LaunchPromptsTyped, FreeLooksTyped, FreeGivesTyped DEF Launch
<1>3. ASSUME NEW k \in Kids, Serve(k) PROVE Typed'
  BY <1>3, ReadEventTyped, ReapTyped, DropTyped, HoldExpiresTyped DEF Serve
<1>4. ASSUME NEW k \in Kids, Ask(k) PROVE Typed'
  <2>1. ASSUME NEW prompt \in BOOLEAN, CreateChild(k, prompt) PROVE Typed'
    BY <2>1, CreateChildTyped
  <2>2. CASE SendStarts(k)
    BY <2>2, SendStartsTyped
  <2>3. CASE SendTakes(k)
    BY <2>3, SendTakesTyped
  <2>4. CASE SendWrites(k)
    BY <2>4, SendWritesTyped
  <2>5. CASE stopChild(k)
    BY <2>5, stopChildTyped
  <2>6. CASE WithdrawChild(k)
    BY <2>6, WithdrawChildTyped
  <2>7. CASE WithdrawKills(k)
    BY <2>7, WithdrawKillsTyped
  <2>8. CASE WithdrawEnds(k)
    BY <2>8, WithdrawEndsTyped
  <2> QED BY <1>4, <2>1, <2>2, <2>3, <2>4, <2>5, <2>6, <2>7, <2>8 DEF Ask
<1>5. ASSUME NEW k \in Kids, CloseKills(k) \/ ProcMoves(k) \/ StrayMoves(k) \/ ProcDies(k)
      PROVE  Typed'
  BY <1>5, CloseKillsTyped, ProcMovesTyped, StrayMovesTyped, ProcDiesTyped
<1>6. ASSUME NEW r \in reports,
             ReportStarts(r) \/ ReportDecides(r) \/ ReportMarks(r) \/ ReportTells(r)
      PROVE  Typed'
  <2>1. CASE ReportStarts(r)
    BY <2>1, ReportStartsTyped
  <2>2. CASE ReportDecides(r)
    BY <2>2, ReportDecidesTyped
  <2>3. CASE ReportMarks(r)
    BY <2>3, ReportMarksTyped
  <2>4. CASE ReportTells(r)
    BY <2>4, ReportTellsTyped
  <2> QED BY <1>6, <2>1, <2>2, <2>3, <2>4
<1>7. CASE DrainQueue
  BY <1>7, DrainQueueTyped
<1>8. CASE ReportOwed
  BY <1>8, ReportOwedTyped
<1>9. CASE Close
  BY <1>9, CloseTyped
<1>10. CASE CloseEnds
  BY <1>10, CloseEndsTyped
<1>11. CASE ServeCrashes
  BY <1>11, ServeCrashesTyped
<1>12. CASE NewSupervisor
  BY <1>12, NewSupervisorTyped
<1> QED BY <1>1, <1>2, <1>3, <1>4, <1>5, <1>6, <1>7, <1>8, <1>9, <1>10, <1>11,
   <1>12 DEF Next, Reports

(* A step that leaves the queue and serve alone keeps the order.           *)
LEMMA NextInOrder ==
  ASSUME Typed, InOrder, \A k \in Kids : Unborn(k) /\ Queued(k), [Next]_vars
  PROVE  InOrder'
<1>0. ASSUME queue' = queue, serve' = serve PROVE InOrder'
  BY <1>0 DEF InOrder
<1>q. queue \in Seq(Kids) /\ Ordered(queue)
  BY DEF Typed, InOrder, Ordered
<1>1. CASE UNCHANGED vars
  BY <1>0, <1>1 DEF vars, memory
<1>2. ASSUME NEW k \in Kids, Launch(k) PROVE InOrder'
  <2>1. CASE LaunchStarts(k)
    BY <1>0, <2>1 DEF LaunchStarts
  <2>2. CASE LaunchAbandons(k)
    BY <1>0, <2>2 DEF LaunchAbandons
  <2>3. CASE LaunchChecks(k)
    BY <1>0, <2>3 DEF LaunchChecks
  <2>4. CASE LaunchPrompts(k)
    BY <1>0, <2>4 DEF LaunchPrompts
  <2>5. CASE FreeLooks(k)
    BY <1>0, <2>5 DEF FreeLooks
  <2>6. CASE FreeGives(k)
    BY <1>0, <2>6 DEF FreeGives
  <2> QED BY <1>2, <2>1, <2>2, <2>3, <2>4, <2>5, <2>6 DEF Launch
<1>3. ASSUME NEW k \in Kids, Serve(k) PROVE InOrder'
  <2>1. CASE ReadEvent(k)
    BY <1>0, <2>1 DEF ReadEvent
  <2>2. CASE Reap(k)
    BY <1>0, <2>2 DEF Reap
  <2>3. CASE Drop(k)
    BY <1>0, <2>3 DEF Drop
  <2>4. CASE HoldExpires(k)
    BY <1>0, <2>4 DEF HoldExpires
  <2> QED BY <1>3, <2>1, <2>2, <2>3, <2>4 DEF Serve
<1>4. ASSUME NEW k \in Kids, Ask(k) PROVE InOrder'
  <2>1. ASSUME NEW prompt \in BOOLEAN, CreateChild(k, prompt) PROVE InOrder'
    <3>1. CASE queue' = Append(queue, k)
      <4>1. serve = "up" /\ serve' = "up" /\ past.spawned = k - 1
        BY <2>1 DEF CreateChild
      <4>2. ASSUME NEW i \in DOMAIN queue PROVE queue[i] < k
        <5>1. queue[i] \in Kids /\ InQueue(queue[i])
          BY <1>q DEF InQueue
        <5>2. meta[queue[i]].queued /\ meta[queue[i]].here
          BY <4>1, <5>1 DEF Queued, Blank
        <5>3. Born(queue[i])
          BY <5>1, <5>2 DEF Unborn
        <5> QED BY <4>1, <5>1, <5>3 DEF Born, Kids
      <4>3. Ordered(Append(queue, k))
        BY <1>q, <4>2, Appended
      <4> QED BY <3>1, <4>1, <4>3 DEF InOrder, Ordered
    <3>2. CASE queue' = queue
      BY <1>0, <2>1, <3>2 DEF CreateChild
    <3> QED BY <2>1, <3>1, <3>2 DEF CreateChild
  <2>2. CASE SendStarts(k)
    BY <1>0, <2>2 DEF SendStarts
  <2>3. CASE SendTakes(k)
    BY <1>0, <2>3 DEF SendTakes
  <2>4. CASE SendWrites(k)
    BY <1>0, <2>4 DEF SendWrites
  <2>5. CASE stopChild(k)
    <3>1. serve = "up" /\ serve' = "up"
      BY <2>5 DEF stopChild
    <3>2. CASE StopDrops(k)
      <4>1. PICK i \in DOMAIN queue : queue' = RemoveAt(queue, i)
        BY <3>2 DEF StopDrops
      <4>2. Ordered(RemoveAt(queue, i))
        BY <1>q, Removed
      <4> QED BY <3>1, <4>1, <4>2 DEF InOrder, Ordered
    <3>3. CASE StopBooting(k) \/ StopPending(k) \/ StopTurn(k)
      BY <1>0, <3>1, <3>3 DEF StopBooting, StopPending, StopTurn
    <3> QED BY <2>5, <3>2, <3>3 DEF stopChild
  <2>6. CASE WithdrawChild(k)
    <3>1. serve = "up" /\ serve' = "up" /\ queue' = Unqueued(k)
      BY <2>6 DEF WithdrawChild
    <3>2. Ordered(Unqueued(k))
      BY <1>q, Unqueuing
    <3> QED BY <3>1, <3>2 DEF InOrder, Ordered
  <2>7. CASE WithdrawKills(k)
    BY <1>0, <2>7 DEF WithdrawKills
  <2>8. CASE WithdrawEnds(k)
    BY <1>0, <2>8 DEF WithdrawEnds
  <2> QED BY <1>4, <2>1, <2>2, <2>3, <2>4, <2>5, <2>6, <2>7, <2>8 DEF Ask
<1>5. ASSUME NEW k \in Kids, CloseKills(k) \/ ProcMoves(k) \/ StrayMoves(k) \/ ProcDies(k)
      PROVE  InOrder'
  BY <1>0, <1>5 DEF CloseKills, ProcMoves, StrayMoves, ProcDies, memory
<1>6. ASSUME NEW r \in reports,
             ReportStarts(r) \/ ReportDecides(r) \/ ReportMarks(r) \/ ReportTells(r)
      PROVE  InOrder'
  BY <1>0, <1>6 DEF ReportStarts, ReportDecides, ReportMarks, ReportTells
<1>7. CASE DrainQueue
  <2>1. serve' = serve /\ (queue' = queue \/ (serve # "closing" /\ Up /\ queue # <<>> /\ queue' = Tail(queue)))
    BY <1>7 DEF DrainQueue
  <2>2. CASE serve # "closing" /\ Up /\ queue # <<>> /\ queue' = Tail(queue)
    <3>1. Ordered(Tail(queue))
      BY <1>q, <2>2, Headed
    <3>2. serve = "up"
      BY <2>2 DEF Typed, Up
    <3> QED BY <2>1, <2>2, <3>1, <3>2 DEF InOrder, Ordered
  <2> QED BY <1>0, <2>1, <2>2
<1>8. CASE ReportOwed
  BY <1>0, <1>8 DEF ReportOwed
<1>9. CASE Close \/ CloseEnds \/ ServeCrashes
  <2>1. queue' = <<>>
    BY <1>9 DEF Close, CloseEnds, ServeCrashes, Forget
  <2> QED BY <2>1 DEF InOrder
<1>10. CASE NewSupervisor
  <2>1. Ordered(queue') /\ serve' = "up"
    BY <1>10, NewSupervisorDoes DEF NewSupervisor
  <2> QED BY <2>1 DEF InOrder, Ordered
<1> QED BY <1>1, <1>2, <1>3, <1>4, <1>5, <1>6, <1>7, <1>8, <1>9, <1>10 DEF
   Next, Reports

(* A lost wake-up: nothing that will start the next in line.               *)
OwnKept(j) ==
  kids'[j] = kids[j] /\ proc'[j] = proc[j] /\ sending'[j] = sending[j]

LEMMA StillWoken ==
  ASSUME Woken, NEW k \in Kids, serve' = serve, queue' # <<>> => queue # <<>>,
         drains' = drains, withdrawing' = withdrawing, Full => Full',
         \A j \in Kids \ {k} : OwnKept(j), Rewakes(k) => Rewakes(k)'
  PROVE  Woken'
<1>1. ASSUME NEW j \in Kids, Rewakes(j) PROVE Rewakes(j)'
  BY <1>1 DEF OwnKept, Rewakes, Launching
<1>2. (\E j \in Kids : Rewakes(j)) => \E j \in Kids : Rewakes(j)'
  BY <1>1
<1> QED BY <1>2 DEF Woken

LEMMA Drains ==
  ASSUME drains \in 0 .. MaxRunning, GoDrain
  PROVE  drains' > 0
BY SomeSlot DEF GoDrain, Another

LEMMA WokenByDrain == ASSUME drains' > 0 PROVE Woken'
BY DEF Woken

LEMMA FullStays ==
  ASSUME Typed, NEW k \in Kids, Full,
         running' = running \/ running' = running \cup {k}
  PROVE  Full'
<1>1. IsFiniteSet(running)
  <2>1. IsFiniteSet(Kids)
    BY SomeKids, FS_Interval DEF Kids
  <2> QED BY <2>1, FS_Subset DEF Typed
<1>2. Cardinality(running) \in Nat
  BY <1>1, FS_CardinalityType
<1>3. Cardinality(running \cup {k}) >= Cardinality(running)
  BY <1>1, <1>2, FS_AddElement
<1> QED
  BY <1>2, <1>3, SomeSlot, FS_AddElement, <1>1 DEF Full

LEMMA NextWoken ==
  ASSUME Typed, InOrder, Woken, [Next]_vars,
         \A k \in Kids : Leased(k) /\ Launched(k) /\ Queued(k)
  PROVE  Woken'
<1>d. drains \in 0 .. MaxRunning
  BY DEF Typed
<1>s. ASSUME serve' # "up" PROVE Woken'
  BY <1>s DEF Woken
<1>1. CASE UNCHANGED vars
  <2>1. /\ serve' = serve /\ queue' = queue /\ drains' = drains
        /\ withdrawing' = withdrawing /\ Full' = Full
        /\ \A j \in Kids : OwnKept(j)
    BY <1>1 DEF vars, memory, process, OwnKept, Full
  <2>2. PICK k : k \in Kids
    BY SomeKids DEF Kids
  <2>3. Rewakes(k) => Rewakes(k)'
    BY <2>1, <2>2 DEF OwnKept, Rewakes, Launching
  <2> QED BY <2>1, <2>2, <2>3, StillWoken
<1>2. ASSUME NEW k \in Kids, Launch(k) PROVE Woken'
  <2>1. CASE LaunchStarts(k)
    <3>1. /\ serve' = serve /\ queue' = queue /\ drains' = drains
          /\ withdrawing' = withdrawing
          /\ running' = running \/ running' = running \cup {k}
      BY <2>1 DEF LaunchStarts
    <3>2. \A j \in Kids \ {k} : OwnKept(j)
      BY <2>1 DEF LaunchStarts, OwnKept, Typed, process, disk, memory
    <3>3. OnLaunchStarts(k)
      BY <2>1, LaunchStartsDoes
    <3>4. Rewakes(k) => Rewakes(k)'
      BY <3>3 DEF OnLaunchStarts, KidIs, ProcIs, Up, Rewakes, Launching, Alive,
         Leased
    <3>5. Full => Full'
      BY <3>1, FullStays
    <3> QED BY <3>1, <3>2, <3>4, <3>5, StillWoken
  <2>2. CASE LaunchAbandons(k)
    BY <1>d, <2>2, Drains, WokenByDrain DEF LaunchAbandons, GiveSlot
  <2>3. CASE LaunchChecks(k)
    <3>1. CASE drains' = drains /\ ~(kids'[k].pc = "up" /\ kids[k].by = "drain")
      <4>0. /\ serve' = serve /\ queue' = queue /\ withdrawing' = withdrawing
            /\ running' = running
        BY <2>3 DEF LaunchChecks
      <4>1. kids'[k].pc = "up" => kids[k].by # "drain"
        BY <3>1
      <4>2. \A j \in Kids \ {k} : OwnKept(j)
        BY <2>3 DEF LaunchChecks, OwnKept, Typed
      <4>3. OnLaunchChecks(k)
        BY <2>3, LaunchChecksDoes
      <4>4. Rewakes(k) => Rewakes(k)'
        BY <4>1, <4>3 DEF OnLaunchChecks, KidIs, MetaIs, Dies, Rewakes, Launching, Alive,
           Leased
      <4>5. Full => Full'
        BY <4>0 DEF Full
      <4> QED BY <3>1, <4>0, <4>2, <4>4, <4>5, StillWoken
    <3>2. CASE drains' = Another(drains)
      BY <1>d, <3>2, Drains, WokenByDrain DEF GoDrain
    <3> QED BY <2>3, <3>1, <3>2 DEF LaunchChecks
  <2>4. CASE LaunchPrompts(k)
    <3>0. OnLaunchPrompts(k)
      BY <2>4, LaunchPromptsDoes
    <3>1. CASE Alive(proc[k]) /\ kids[k].by = "drain"
      BY <1>d, <2>4, <3>1, Drains, WokenByDrain DEF LaunchPrompts
    <3>2. CASE Alive(proc[k]) /\ kids[k].by # "drain"
      <4>1. /\ serve' = serve /\ queue' = queue /\ drains' = drains
            /\ withdrawing' = withdrawing /\ Full' = Full
        BY <2>4, <3>2 DEF LaunchPrompts, Full
      <4>2. \A j \in Kids \ {k} : OwnKept(j)
        BY <2>4 DEF LaunchPrompts, OwnKept, Typed
      <4>3. ~Rewakes(k)
        BY <3>0, <3>2 DEF OnLaunchPrompts, Rewakes, Leased
      <4> QED BY <4>1, <4>2, <4>3, StillWoken
    <3>3. CASE ~Alive(proc[k])
      <4>1. /\ serve' = serve /\ queue' = queue /\ drains' = drains
            /\ withdrawing' = withdrawing /\ running' = running \ {k}
        BY <2>4, <3>3 DEF LaunchPrompts
      <4>2. \A j \in Kids \ {k} : OwnKept(j)
        BY <2>4 DEF LaunchPrompts, OwnKept, Typed
      <4>3. kids[k].by \in {"create", "drain"} /\ kids[k].pc = "prompt"
        BY <3>0 DEF OnLaunchPrompts, Leased, Launching
      <4>4. Rewakes(k) => Rewakes(k)'
        BY <3>0, <3>3, <4>3 DEF OnLaunchPrompts, KidIs, Rewakes, Launching, Leased
      <4>5. CASE k \notin running
        <5>1. Full' = Full
          BY <4>1, <4>5 DEF Full
        <5> QED BY <4>1, <4>2, <4>4, <5>1, StillWoken
      <4>6. CASE k \in running
        <5>1. kids[k].exited => sending[k] = "took"
          BY <4>6 DEF Launched
        <5>2. Rewakes(k)'
          BY <3>0, <3>3, <4>3, <5>1 DEF OnLaunchPrompts, KidIs, Rewakes, Launching
        <5> QED BY <5>2 DEF Woken
      <4> QED BY <4>5, <4>6
    <3> QED BY <3>1, <3>2, <3>3
  <2>5. CASE FreeLooks(k)
    <3>1. /\ serve' = serve /\ queue' = queue /\ drains' = drains
          /\ withdrawing' = withdrawing
          /\ running' = running \/ running' = running \cup {k}
      BY <2>5 DEF FreeLooks
    <3>2. \A j \in Kids \ {k} : OwnKept(j)
      BY <2>5 DEF FreeLooks, OwnKept, Typed, process, disk, memory
    <3>3. OnFreeLooks(k)
      BY <2>5, FreeLooksDoes
    <3>4. Rewakes(k) => Rewakes(k)'
      BY <3>3 DEF OnFreeLooks, Up, Rewakes, Launching, Alive
    <3>5. Full => Full'
      BY <3>1, FullStays
    <3> QED BY <3>1, <3>2, <3>4, <3>5, StillWoken
  <2>6. CASE FreeGives(k)
    BY <1>d, <2>6, Drains, WokenByDrain DEF FreeGives, GiveSlot
  <2> QED BY <1>2, <2>1, <2>2, <2>3, <2>4, <2>5, <2>6 DEF Launch
<1>3. ASSUME NEW k \in Kids, Serve(k) PROVE Woken'
  <2>1. CASE ReadEvent(k)
    <3>0. OnReadEvent(k)
      BY <2>1, ReadEventDoes
    <3>1. CASE GoDrain
      BY <1>d, <3>1, Drains, WokenByDrain
    <3>2. CASE UNCHANGED <<running, drains>>
      <4>1. /\ serve' = serve /\ queue' = queue /\ withdrawing' = withdrawing
            /\ Full' = Full
        BY <2>1, <3>2 DEF ReadEvent, Full
      <4>2. \A j \in Kids \ {k} : OwnKept(j)
        BY <2>1 DEF ReadEvent, OwnKept, Release, Typed, process
      <4>3. Rewakes(k) => Rewakes(k)'
        BY <3>0 DEF OnReadEvent, KidIs, ProcIs, Rewakes, Launching, Alive
      <4> QED BY <3>2, <4>1, <4>2, <4>3, StillWoken
    <3>3. CASE serve = "closing"
      BY <1>s, <3>0, <3>3 DEF OnReadEvent
    <3> QED BY <2>1, <3>1, <3>2, <3>3 DEF ReadEvent, childEvent, SlotBack
  <2>2. CASE Reap(k)
    <3>0. OnReap(k)
      BY <2>2, ReapDoes
    <3>1. CASE GoDrain
      BY <1>d, <3>1, Drains, WokenByDrain
    <3>2. CASE UNCHANGED <<running, drains>>
      <4>1. /\ serve' = serve /\ queue' = queue /\ withdrawing' = withdrawing
            /\ Full' = Full
        BY <2>2, <3>2 DEF Reap, Full
      <4>2. \A j \in Kids \ {k} : OwnKept(j)
        BY <2>2 DEF Reap, OwnKept, Release, Typed, process
      <4>a. CASE kids[k].startFailed /\ kids[k].by = "create"
        <5>1. meta[k].here
          BY <4>a DEF Leased, Launched, Launching
        <5>2. GoDrain \/ serve = "closing"
          BY <2>2, <4>a, <5>1 DEF Reap, childEvent, SlotBack
        <5>3. drains' > 0 \/ serve' # "up"
          BY <1>d, <3>0, <5>2, Drains DEF OnReap
        <5> QED BY <5>3 DEF Woken
      <4>3. CASE ~(kids[k].startFailed /\ kids[k].by = "create")
        <5>1. Rewakes(k) => Rewakes(k)'
          BY <3>0, <4>3 DEF OnReap, KidIs, Rewakes, Launching, Alive
        <5> QED BY <3>2, <4>1, <4>2, <5>1, StillWoken
      <4> QED BY <4>a, <4>3
    <3>3. CASE serve = "closing"
      BY <1>s, <3>0, <3>3 DEF OnReap
    <3> QED BY <2>2, <3>1, <3>2, <3>3 DEF Reap, childEvent, SlotBack
  <2>3. CASE Drop(k)
    <3>0. OnDrop(k)
      BY <2>3, DropDoes
    <3>1. CASE GoDrain
      BY <1>d, <3>1, Drains, WokenByDrain
    <3>2. CASE drains' = drains /\ ~(kids[k].pc = "wait" /\ kids[k].by = "drain")
      <4>1. /\ serve' = serve /\ queue' = queue /\ drains' = drains
            /\ withdrawing' = withdrawing
            /\ running' = running \/ (kids[k].startFailed /\ running' = running \ {k})
        BY <2>3, <3>2 DEF Drop
      <4>2. \A j \in Kids \ {k} : OwnKept(j)
        BY <2>3 DEF Drop, OwnKept, Typed
      <4>3. Rewakes(k) => Rewakes(k)'
        BY <3>0, <3>2 DEF OnDrop, Released, KidIs, ProcIs, Rewakes, Launching, Alive
      <4>4. CASE running' = running
        <5>1. Full' = Full
          BY <4>4 DEF Full
        <5> QED BY <4>1, <4>2, <4>3, <5>1, StillWoken
      <4>5. CASE k \in running /\ running' = running \ {k}
        <5>1. sending[k] = "took"
          BY <3>0, <4>5 DEF OnDrop, Launched
        <5>2. Rewakes(k)'
          BY <3>0, <5>1 DEF OnDrop, Released, KidIs, ProcIs, Rewakes, Alive
        <5> QED BY <5>2 DEF Woken
      <4> QED BY <4>1, <4>4, <4>5
    <3> QED BY <2>3, <3>1, <3>2 DEF Drop
  <2>4. CASE HoldExpires(k)
    <3>1. /\ serve' = serve /\ queue' = queue /\ drains' = drains
          /\ withdrawing' = withdrawing
          /\ running' = running \/ running' = running \cup {k}
      BY <2>4 DEF HoldExpires
    <3>2. \A j \in Kids \ {k} : OwnKept(j)
      BY <2>4 DEF HoldExpires, OwnKept, Typed, process, disk, memory
    <3>3. OnHoldExpires(k)
      BY <2>4, HoldExpiresDoes
    <3>4. Rewakes(k) => Rewakes(k)'
      BY <3>3 DEF OnHoldExpires, KidIs, ProcIs, Live, Alive, Up, Rewakes,
         Launching
    <3>5. Full => Full'
      BY <3>1, FullStays
    <3> QED BY <3>1, <3>2, <3>4, <3>5, StillWoken
  <2> QED BY <1>3, <2>1, <2>2, <2>3, <2>4 DEF Serve
<1>4. ASSUME NEW k \in Kids, Ask(k) PROVE Woken'
  <2>1. ASSUME NEW prompt \in BOOLEAN, CreateChild(k, prompt) PROVE Woken'
    <3>1. CASE GoDrain
      BY <1>d, <3>1, Drains, WokenByDrain
    <3>2. CASE Full /\ running' = running
      BY <3>2 DEF Woken, Full
    <3>3. CASE queue' = <<>>
      BY <3>3 DEF Woken
    <3> QED BY <2>1, <3>1, <3>2, <3>3 DEF CreateChild, Waits
  <2>2. CASE SendStarts(k)
    <3>1. /\ serve' = serve /\ queue' = queue /\ drains' = drains
          /\ withdrawing' = withdrawing
          /\ running' = running \/ running' = running \cup {k}
      BY <2>2 DEF SendStarts
    <3>2. \A j \in Kids \ {k} : OwnKept(j)
      BY <2>2 DEF SendStarts, OwnKept, Typed, process, disk, memory
    <3>3. OnSendStarts(k)
      BY <2>2, SendStartsDoes
    <3>4. Rewakes(k) => Rewakes(k)'
      BY <3>3 DEF OnSendStarts, KidIs, ProcIs, Live, Alive, Rewakes, Launching,
         Leased, NoProcess
    <3>5. Full => Full'
      BY <3>1, FullStays
    <3> QED BY <3>1, <3>2, <3>4, <3>5, StillWoken
  <2>3. CASE SendTakes(k)
    <3>1. /\ serve' = serve /\ queue' = queue /\ drains' = drains
          /\ withdrawing' = withdrawing
          /\ running' = running \/ running' = running \cup {k}
      BY <2>3 DEF SendTakes
    <3>2. \A j \in Kids \ {k} : OwnKept(j)
      BY <2>3 DEF SendTakes, OwnKept, Typed, process, disk, memory
    <3>3. OnSendTakes(k)
      BY <2>3, SendTakesDoes
    <3>4. Rewakes(k) => Rewakes(k)'
      BY <3>3 DEF OnSendTakes, Up, Rewakes, Launching, Alive
    <3>5. Full => Full'
      BY <3>1, FullStays
    <3> QED BY <3>1, <3>2, <3>4, <3>5, StillWoken
  <2>4. CASE SendWrites(k)
    <3>1. CASE GiveSlot(k)
      BY <1>d, <3>1, Drains, WokenByDrain DEF GiveSlot
    <3>2. CASE UNCHANGED <<running, drains>> /\ (sending[k] = "took" => Alive(proc[k]))
      <4>1. /\ serve' = serve /\ queue' = queue /\ withdrawing' = withdrawing
            /\ Full' = Full
        BY <2>4, <3>2 DEF SendWrites, Full
      <4>2. \A j \in Kids \ {k} : OwnKept(j)
        BY <2>4 DEF SendWrites, OwnKept, Typed
      <4>3. OnSendWrites(k)
        BY <2>4, SendWritesDoes
      <4>4. Rewakes(k) => Rewakes(k)'
        BY <3>2, <4>3 DEF OnSendWrites, KidIs, ProcIs, Rewakes, Launching, Alive
      <4> QED BY <3>2, <4>1, <4>2, <4>4, StillWoken
    <3> QED BY <2>4, <3>1, <3>2 DEF SendWrites
  <2>5. CASE stopChild(k)
    <3>1. /\ serve' = serve /\ drains' = drains /\ withdrawing' = withdrawing
          /\ Full' = Full
      BY <2>5 DEF stopChild, Full
    <3>2. queue' # <<>> => queue # <<>>
      <4>1. ASSUME queue = <<>> PROVE queue' = queue
        BY <2>5, <4>1 DEF stopChild, StopDrops, StopBooting, StopPending, StopTurn
      <4> QED BY <4>1
    <3>3. \A j \in Kids \ {k} : OwnKept(j)
      BY <2>5 DEF stopChild, StopDrops, StopBooting, StopPending, StopTurn, Interrupt,
         OwnKept, Typed
    <3>4. OnstopChild(k)
      BY <2>5, stopChildDoes
    <3>5. Rewakes(k) => Rewakes(k)'
      BY <3>4 DEF OnstopChild, KidIs, ProcIs, Dies, Rewakes, Launching, Alive
    <3> QED BY <3>1, <3>2, <3>3, <3>5, StillWoken
  <2>6. CASE WithdrawChild(k)
    BY <2>6 DEF WithdrawChild, Woken
  <2>7. CASE WithdrawKills(k)
    <3>1. /\ serve' = serve /\ queue' = queue /\ drains' = drains
          /\ withdrawing' = withdrawing
          /\ running' = running \/ running' = running \cup {k}
      BY <2>7 DEF WithdrawKills, Kill
    <3>2. \A j \in Kids \ {k} : OwnKept(j)
      BY <2>7 DEF WithdrawKills, OwnKept, Typed, process, disk, memory, Kill
    <3>3. OnWithdrawKills(k)
      BY <2>7, WithdrawKillsDoes
    <3>4. Rewakes(k) => Rewakes(k)'
      BY <3>3 DEF OnWithdrawKills, KidIs, Dies, Live, Alive, Up, Rewakes,
         Launching
    <3>5. Full => Full'
      BY <3>1, FullStays
    <3> QED BY <3>1, <3>2, <3>4, <3>5, StillWoken
  <2>8. CASE WithdrawEnds(k)
    BY <1>d, <2>8, Drains, WokenByDrain DEF WithdrawEnds
  <2> QED BY <1>4, <2>1, <2>2, <2>3, <2>4, <2>5, <2>6, <2>7, <2>8 DEF Ask
<1>5. ASSUME NEW k \in Kids, CloseKills(k) \/ ProcMoves(k) \/ StrayMoves(k) \/ ProcDies(k)
      PROVE  Woken'
  <2>1. CASE CloseKills(k)
    BY <1>s, <2>1 DEF CloseKills
  <2>2. CASE ProcMoves(k)
    <3>1. /\ serve' = serve /\ queue' = queue /\ drains' = drains
          /\ withdrawing' = withdrawing /\ Full' = Full
      BY <2>2 DEF ProcMoves, memory, Full
    <3>2. \A j \in Kids \ {k} : OwnKept(j)
      BY <2>2 DEF ProcMoves, memory, OwnKept, Typed
    <3>3. OnProcMoves(k)
      BY <2>2, ProcMovesDoes
    <3>4. Alive(proc[k])
      <4>1. PICK o : Outcome(proc[k], file[k], o)
        BY <3>3 DEF OnProcMoves
      <4>2. proc[k] \in ProcT
        BY DEF Typed
      <4> QED BY <4>1, <4>2, MovedProcess
    <3>5. Rewakes(k) => Rewakes(k)'
      BY <3>3, <3>4 DEF OnProcMoves, Rewakes, Launching
    <3> QED BY <3>1, <3>2, <3>5, StillWoken
  <2>3. CASE StrayMoves(k)
    <3>1. /\ serve' = serve /\ queue' = queue /\ drains' = drains
          /\ withdrawing' = withdrawing /\ Full' = Full
      BY <2>3 DEF StrayMoves, memory, Full
    <3>2. \A j \in Kids : OwnKept(j)
      BY <2>3 DEF StrayMoves, memory, OwnKept
    <3>3. Rewakes(k) => Rewakes(k)'
      BY <3>2 DEF OwnKept, Rewakes, Launching
    <3> QED BY <3>1, <3>2, <3>3, StillWoken
  <2>4. CASE ProcDies(k)
    <3>1. /\ serve' = serve /\ queue' = queue /\ drains' = drains
          /\ withdrawing' = withdrawing /\ Full' = Full
      BY <2>4 DEF ProcDies, memory, Full
    <3>2. \A j \in Kids \ {k} : OwnKept(j)
      BY <2>4 DEF ProcDies, memory, OwnKept, Typed
    <3>3. OnProcDies(k)
      BY <2>4, ProcDiesDoes
    <3>4. Rewakes(k) => Rewakes(k)'
      BY <3>3 DEF OnProcDies, Dies, Rewakes, Launching, Alive
    <3> QED BY <3>1, <3>2, <3>4, StillWoken
  <2> QED BY <1>5, <2>1, <2>2, <2>3, <2>4
<1>6. ASSUME NEW r \in reports,
             ReportStarts(r) \/ ReportDecides(r) \/ ReportMarks(r) \/ ReportTells(r)
      PROVE  Woken'
  <2>1. /\ serve' = serve /\ queue' = queue /\ drains' = drains
        /\ withdrawing' = withdrawing /\ Full' = Full
        /\ \A j \in Kids : OwnKept(j)
    BY <1>6 DEF ReportStarts, ReportDecides, ReportMarks, ReportTells, process, Full, OwnKept
  <2>2. r.k \in Kids
    BY DEF Typed, IsReport
  <2>3. Rewakes(r.k) => Rewakes(r.k)'
    <3>1. PICK k : k = r.k
      OBVIOUS
    <3>2. Rewakes(k) => Rewakes(k)'
      BY <2>1, <2>2, <3>1 DEF OwnKept, Rewakes, Launching
    <3> QED BY <3>1, <3>2
  <2> QED BY <2>1, <2>2, <2>3, StillWoken
<1>7. CASE DrainQueue
  <2>1. CASE serve = "closing"
    BY <1>s, <1>7, <2>1 DEF DrainQueue
  <2>2. CASE UNCHANGED <<queue, running>> /\ (queue = <<>> \/ Full)
    BY <2>2 DEF Woken, Full
  <2>3. CASE /\ queue # <<>>
             /\ kids' = [kids EXCEPT ![Head(queue)] =
                           newChild("exec", "drain", meta[Head(queue)].prompt)]
    <3>1. PICK k : k = Head(queue)
      OBVIOUS
    <3>2. k \in Kids
      BY <2>3, <3>1, Headed DEF Typed
    <3>3. kids'[k] = newChild("exec", "drain", meta[k].prompt)
      BY <2>3, <3>1, <3>2 DEF Typed
    <3>4. Rewakes(k)'
      BY <3>3 DEF newChild, NoChild, Rewakes, Launching
    <3> QED BY <3>2, <3>4 DEF Woken
  <2> QED BY <1>7, <2>1, <2>2, <2>3 DEF DrainQueue
<1>8. CASE ReportOwed
  <2>1. /\ serve' = serve /\ queue' = queue /\ drains' = drains
        /\ withdrawing' = withdrawing /\ Full' = Full
        /\ \A j \in Kids : OwnKept(j)
    BY <1>8 DEF ReportOwed, process, Full, OwnKept
  <2>2. PICK k : k \in Kids
    BY SomeKids DEF Kids
  <2>3. Rewakes(k) => Rewakes(k)'
    BY <2>1, <2>2 DEF OwnKept, Rewakes, Launching
  <2> QED BY <2>1, <2>2, <2>3, StillWoken
<1>9. CASE Close \/ CloseEnds \/ ServeCrashes
  BY <1>s, <1>9 DEF Close, CloseEnds, ServeCrashes, Forget
<1>10. CASE NewSupervisor
  BY <1>10, NewSupervisorDoes DEF Woken
<1> QED BY <1>1, <1>2, <1>3, <1>4, <1>5, <1>6, <1>7, <1>8, <1>9, <1>10 DEF
   Next, Reports

----------------------------------------------------------------------------
(* The invariant.                                                          *)

LEMMA InitInv ==
  ASSUME Init
  PROVE  IInv
<1>1. Typed
  <2>1. /\ meta \in [Kids -> MetaT] /\ kids \in [Kids -> KidT]
        /\ proc \in [Kids -> ProcT] /\ stray \in [Kids -> ProcT]
    BY NothingTyped DEF Init
  <2>2. /\ out \in [Kids -> Seq(EventT)] /\ file \in [Kids -> Seq(EntryT)]
        /\ told \in [Kids -> Seq(Nat)]
        /\ sending \in [Kids -> {"no", "take", "took", "write"}]
    BY DEF Init
  <2>3. past \in PastT
    BY SomeKids DEF Init, PastT
  <2>4. budget \in [Whats -> Nat]
    BY SomeBounds DEF Init
  <2> QED BY <2>1, <2>2, <2>3, <2>4, SomeSlot DEF Init, Typed
<1>2. InOrder /\ Woken
  BY DEF Init, InOrder, Woken
<1>3. ASSUME NEW k \in Kids
      PROVE  /\ Unborn(k) /\ Forgotten(k) /\ Leased(k) /\ Queued(k) /\ GivenUp(k)
             /\ Files(k) /\ Marked(k) /\ Tasks(k) /\ BootStopped(k) /\ HoldsSlot(k)
             /\ Launched(k) /\ Told(k) /\ Silent(k) /\ Turns(k) /\ Unstarted(k)
             /\ Reported(k) /\ LastWorks(k)
  <2>1. /\ meta[k] = NoMeta /\ kids[k] = NoChild /\ proc[k] = NoProc /\ stray[k] = NoProc
        /\ out[k] = <<>> /\ file[k] = <<>> /\ told[k] = <<>> /\ sending[k] = "no"
        /\ ReportsOf(k) = {} /\ ~InQueue(k) /\ serve = "up"
    BY DEF Init, ReportsOf, InQueue
  <2>2. /\ running = {} /\ freeing = {} /\ waiting = {} /\ waitStops = {}
        /\ withdrawing = {} /\ owed = {}
        /\ past.spawned = 0 /\ past.orphans = {} /\ past.messaged = {}
        /\ past.overtaken = {} /\ past.bootStopped = {} /\ past.withdrawn = {}
        /\ past.cut = {} /\ past.restarted = FALSE /\ past.waitEnded = {}
    BY DEF Init
  <2>3. Unborn(k) /\ Forgotten(k) /\ Leased(k) /\ Queued(k) /\ GivenUp(k)
    BY <2>1, <2>2 DEF Unborn, Forgotten, Leased, Queued, GivenUp, NoMeta, NoChild,
       NoProc, NoProcess, Launching, Blank, Live
  <2>4. Files(k) /\ Marked(k) /\ HoldsSlot(k) /\ Launched(k) /\ LastWorks(k)
    BY <2>1, <2>2 DEF Files, Marked, HoldsSlot, Launched, LastWorks, NoMeta, NoChild,
       NoProc, InTurn, BeforePrompt, OpenTurn, Alive, Launching
  <2>5. Tasks(k) /\ BootStopped(k)
    BY <2>1, <2>2, NewFile DEF Tasks, BootStopped, NoChild, NoProc, Booting, OneTask, HasTask
  <2>6. Told(k) /\ Silent(k) /\ Unstarted(k) /\ Reported(k)
    BY <2>1, <2>2 DEF Told, ToldKey, Silent, Unstarted, Reported, NoMeta
  <2>7. Turns(k)
    BY <2>1 DEF Turns, ToldKey, InTurn, NoProc, ClosesOnce
  <2> QED BY <2>3, <2>4, <2>5, <2>6, <2>7
<1> QED BY <1>1, <1>2, <1>3 DEF IInv

LEMMA NextInv ==
  ASSUME IInv, [Next]_vars
  PROVE  IInv'
<1>1. Typed /\ InOrder /\ Woken
  BY DEF IInv
<1>2. \A k \in Kids : /\ Unborn(k) /\ Queued(k) /\ Leased(k) /\ Launched(k)
  BY DEF IInv
<1>3. Typed' /\ InOrder' /\ Woken'
  BY <1>1, <1>2, NextTyped, NextInOrder, NextWoken
<1>4. ASSUME NEW k \in Kids
      PROVE  /\ Unborn(k)' /\ Forgotten(k)' /\ Leased(k)' /\ Queued(k)' /\ GivenUp(k)'
             /\ Files(k)' /\ Marked(k)' /\ Tasks(k)' /\ BootStopped(k)' /\ HoldsSlot(k)'
             /\ Launched(k)' /\ Told(k)' /\ Silent(k)' /\ Turns(k)' /\ Unstarted(k)'
             /\ Reported(k)' /\ LastWorks(k)'
  <2>1. /\ Unborn(k) /\ Forgotten(k) /\ Leased(k) /\ Queued(k) /\ GivenUp(k)
        /\ Files(k) /\ Marked(k) /\ Tasks(k) /\ BootStopped(k) /\ HoldsSlot(k)
        /\ Launched(k) /\ Told(k) /\ Silent(k) /\ Turns(k) /\ Unstarted(k)
        /\ Reported(k) /\ LastWorks(k)
    BY DEF IInv
  <2>2. Step(k) /\ PastStep(k) /\ TypesOf(k) /\ TypesOf(k)'
    BY <1>1, <1>3, StepCases, PastSteps, TypesOfKid, TypesOfNext
  <2>3. Unborn(k)' /\ Forgotten(k)' /\ GivenUp(k)'
    BY <2>1, <2>2, UnbornStays, ForgottenStays, GivenUpStays
  <2>4. Leased(k)' /\ Queued(k)'
    BY <2>1, <2>2, LeasedStays, QueuedStays
  <2>5. Files(k)' /\ Marked(k)'
    BY <2>1, <2>2, FilesStays, MarkedStays
  <2>6. Tasks(k)' /\ BootStopped(k)'
    BY <2>1, <2>2, TasksStays, BootStoppedStays
  <2>7. HoldsSlot(k)' /\ Launched(k)' /\ LastWorks(k)'
    BY <2>1, <2>2, HoldsSlotStays, LaunchedStays, LastWorksStays
  <2>8. Told(k)' /\ Unstarted(k)' /\ Reported(k)'
    BY <2>1, <2>2, ToldStays, UnstartedStays, ReportedStays
  <2>9. Silent(k)' /\ Turns(k)'
    BY <2>1, <2>2, SilentStays, TurnsStays
  <2> QED BY <2>3, <2>4, <2>5, <2>6, <2>7, <2>8, <2>9
<1> QED BY <1>3, <1>4 DEF IInv

LEMMA InvariantHolds == Spec => []IInv
<1>1. Init => IInv
  BY InitInv
<1>2. IInv /\ [Next]_vars => IInv'
  BY NextInv
<1> QED BY <1>1, <1>2, PTL DEF Spec

(* A room's file may come to be empty only when its process leaves.        *)
LEMMA EmptiedFile ==
  ASSUME NEW p \in ProcT, NEW f \in Seq(EntryT), NEW o, Outcome(p, f, o)
  PROVE  o.file = <<>> => f = <<>> \/ o.proc.st = "dead"
<1>1. /\ Append(f, "done") # <<>> /\ Append(f, "cancelled") # <<>>
      /\ p.pipe # <<>> => Append(f, Head(p.pipe)) # <<>>
      /\ f # <<>> => f \o <<"cancelled", "done">> # <<>>
  <2>1. "done" \in EntryT /\ "cancelled" \in EntryT /\ p.pipe \in Seq(EntryT)
    BY DEF EntryT, ProcT, LineT
  <2>2. p.pipe # <<>> => Head(p.pipe) \in EntryT
    BY <2>1
  <2> QED BY <2>1, <2>2, Appending
<1> QED BY <1>1 DEF Outcome

LEMMA RoomsStays ==
  ASSUME NEW k \in Kids, Step(k), TypesOf(k), Rooms(k),
         ~past.restarted \/ serve' # "down" \/ serve = "down", Leased(k),
         Unborn(k), Queued(k), Files(k), GivenUp(k), Forgotten(k),
         Unstarted(k)
  PROVE  Rooms(k)'
<1>1. CASE Same(k)
  BY <1>1 DEF Same, DiskKept, ProcessKept, MindKept, PastKept, Rooms, Quiet,
     Live, Alive, NoProcess
<1>2. CASE OnLaunchStarts(k)
  BY <1>2 DEF OnLaunchStarts, KidIs, ProcIs, Up, Rooms, Quiet, Live, Alive,
     NoProcess, Leased
<1>3. CASE OnLaunchAbandons(k)
  BY <1>3 DEF OnLaunchAbandons, Released, KidIs, LaunchFails, Erased, Unstarts,
     MetaIs, Adds, Up, Rooms, Quiet, Live, Alive, NoProcess, Queued, Blank,
     Leased
<1>4. CASE OnLaunchChecks(k)
  BY <1>4 DEF OnLaunchChecks, KidIs, MetaIs, Dies, Up, Rooms, Quiet, Live,
     Alive, NoProcess, Unstarted, BeforePrompt
<1>5. CASE OnLaunchPrompts(k)
  BY <1>5 DEF OnLaunchPrompts, KidIs, ProcIs, Alive, Up, Rooms, Quiet, Live,
     NoProcess
<1>6. CASE OnFreeLooks(k)
  BY <1>6 DEF OnFreeLooks, Up, Rooms, Quiet, Live, Alive, NoProcess
<1>7. CASE OnFreeGives(k)
  BY <1>7 DEF OnFreeGives, MetaIs, Up, Rooms, Quiet, Live, Alive, NoProcess
<1>8. CASE OnReadEvent(k)
  BY <1>8 DEF OnReadEvent, KidIs, ProcIs, ChildEvents, MetaIs, Adds, Live,
     Alive, Up, Rooms, Quiet, NoProcess
<1>9. CASE OnReap(k)
  BY <1>9 DEF OnReap, KidIs, ChildEvents, MetaIs, Adds, Live, Up, Rooms, Quiet,
     Alive, NoProcess
<1>10. CASE OnDrop(k)
  BY <1>10 DEF OnDrop, ProcIs, Released, KidIs, LaunchFails, Erased, Unstarts,
     MetaIs, Adds, Up, Rooms, Quiet, Live, Alive, NoProcess, Leased
<1>11. CASE OnHoldExpires(k)
  BY <1>11 DEF OnHoldExpires, KidIs, ProcIs, Live, Alive, Up, Rooms, Quiet,
     NoProcess
<1>12. ASSUME NEW prompt \in BOOLEAN, OnCreateChild(k, prompt) PROVE Rooms(k)'
  BY <1>12, NewFile DEF OnCreateChild, KidIs, MetaIs, Rooms, Quiet, Live,
     Alive, NoProcess, Unborn, Born
<1>13. CASE OnSendStarts(k)
  BY <1>13 DEF OnSendStarts, KidIs, ProcIs, Live, Alive, Rooms, Quiet,
     NoProcess, Queued
<1>14. CASE OnSendTakes(k)
  BY <1>14 DEF OnSendTakes, Up, Rooms, Quiet, Live, Alive, NoProcess
<1>15. CASE OnSendWrites(k)
  BY <1>15 DEF OnSendWrites, KidIs, ProcIs, Live, Alive, Up, Rooms, Quiet,
     NoProcess
<1>16. CASE OnstopChild(k)
  BY <1>16 DEF OnstopChild, KidIs, ProcIs, Dies, Erased, MetaIs, Live, Booting,
     Alive, Rooms, Quiet, NoProcess, Queued
<1>17. CASE OnWithdrawChild(k)
  BY <1>17 DEF OnWithdrawChild, Erased, MetaIs, Rooms, Quiet, Live, Alive,
     NoProcess
<1>18. CASE OnWithdrawKills(k)
  BY <1>18 DEF OnWithdrawKills, KidIs, Dies, Live, Alive, Up, Rooms, Quiet,
     NoProcess
<1>19. CASE OnWithdrawEnds(k)
  BY <1>19 DEF OnWithdrawEnds, Live, Up, Rooms, Quiet, Alive, NoProcess,
     GivenUp, Queued, Blank
<1>20. CASE OnCloseKills(k)
  BY <1>20 DEF OnCloseKills, KidIs, Dies, Live, Alive, Rooms, Quiet, NoProcess
<1>21. CASE OnProcMoves(k)
  <2>1. PICK o : /\ Outcome(proc[k], file[k], o) /\ proc'[k] = o.proc
                 /\ file'[k] = o.file /\ out'[k] = out[k] \o o.say
                 /\ o.say \in Seq(EventT)
    BY <1>21 DEF OnProcMoves
  <2>2. proc[k] \in ProcT /\ file[k] \in Seq(EntryT) /\ out[k] \in Seq(EventT)
    BY DEF TypesOf
  <2>3. /\ o.file = <<>> => o.proc.st = "dead" \/ file[k] = <<>>
        /\ o.proc.int = proc[k].int /\ Alive(proc[k])
        /\ o.proc.pipe # <<>> => proc[k].pipe # <<>>
        /\ NoEntries(file[k]) => ~InTurn(proc[k])
    BY <2>1, <2>2, MovedFile, MovedProcess DEF Files, InTurn
  <2>4. ~meta[k].queued /\ (~past.restarted => NoProcess(stray[k]) \/ TRUE)
    BY <2>3 DEF Queued, Leased, NoProcess, Alive
  <2>5. CASE o.proc.st = "dead"
    BY <1>21, <2>1, <2>3, <2>4, <2>5 DEF OnProcMoves, Rooms, Leased, Forgotten, NoProcess, Alive
  <2>6. CASE o.proc.st # "dead"
    BY <1>21, <2>1, <2>3, <2>4, <2>6 DEF OnProcMoves, Rooms, Leased, NoProcess, Alive
  <2> QED BY <2>5, <2>6
<1>22. CASE OnStrayMoves(k)
  <2>1. PICK o : /\ Outcome(stray[k], file[k], o)
                 /\ \/ o.proc.st = "dead" /\ NoProcess(stray'[k])
                    \/ o.proc.st # "dead" /\ stray'[k] = o.proc
                 /\ file'[k] = file[k] \/ file'[k] = o.file
    BY <1>22 DEF OnStrayMoves
  <2>2. stray[k] \in ProcT /\ file[k] \in Seq(EntryT)
    BY DEF TypesOf
  <2>3. past.restarted /\ Alive(stray[k])
    BY <2>1, <2>2, MovedProcess DEF Leased, NoProcess, Alive
  <2>4. Quiet(stray[k]) => Quiet(stray'[k])
    BY <2>1, <2>2, MovedQuiet DEF Quiet, NoProcess
  <2>5. Quiet(stray[k]) /\ NoEntries(file[k]) => NoEntries(file'[k])
    BY <2>1, <2>2, MovedQuiet, MovedFile
  <2>6. Quiet(stray'[k]) \/ file'[k] # <<>> \/ file[k] = <<>>
    BY <2>1, <2>2, EmptiedFile DEF Quiet, NoProcess
  <2> QED BY <1>22, <2>3, <2>4, <2>5, <2>6 DEF OnStrayMoves, Rooms
<1>23. CASE OnProcDies(k)
  BY <1>23 DEF OnProcDies, Dies, Alive, Rooms, Quiet, Live, NoProcess
<1>24. ASSUME NEW r \in ReportsOf(k), StartsReport(k, r) PROVE Rooms(k)'
  <2>1. file'[k] = file[k] \/ (~NoEntries(file[k]) /\ file'[k] = Append(file[k], "cancelled"))
    BY <1>24, DoneIsThere DEF StartsReport, TypesOf
  <2>2. file[k] \in Seq(EntryT) /\ "cancelled" \in EntryT /\ ~IsInput("cancelled")
    BY DEF TypesOf, EntryT, IsInput
  <2>3. /\ NoEntries(file[k]) => NoEntries(file'[k])
        /\ file[k] # <<>> => file'[k] # <<>>
        /\ file'[k] = <<>> => file[k] = <<>>
    BY <2>1, <2>2, Appending
  <2> QED BY <1>24, <2>3 DEF StartsReport, PastKept, ProcessKept, Rooms
<1>25. ASSUME NEW r \in ReportsOf(k), DecidesReport(k, r) PROVE Rooms(k)'
  BY <1>25 DEF DecidesReport, Adds, Unstarts, MetaIs, ProcessKept, Up, Rooms,
     Quiet, Live, Alive, NoProcess
<1>26. ASSUME NEW r \in ReportsOf(k), MarksReport(k, r) PROVE Rooms(k)'
  BY <1>26 DEF MarksReport, MetaIs, Adds, ProcessKept, Up, Rooms, Quiet, Live,
     Alive, NoProcess
<1>27. ASSUME NEW r \in ReportsOf(k), TellsReport(k, r) PROVE Rooms(k)'
  BY <1>27 DEF TellsReport, ProcessKept, Up, Rooms, Quiet, Live, Alive,
     NoProcess
<1>28. CASE StartsNext(k)
  BY <1>28 DEF StartsNext, KidIs, MetaIs, Rooms, Quiet, Live, Alive, NoProcess,
     Queued, Blank, Leased
<1>29. CASE LooksOwed(k)
  BY <1>29 DEF LooksOwed, Adds, DiskKept, ProcessKept, Live, Rooms, Quiet,
     Alive, NoProcess
<1>30. CASE GivesUpOwed(k)
  BY <1>30 DEF GivesUpOwed, DiskKept, ProcessKept, MindKept, PastKept, Rooms,
     Quiet, Live, Alive, NoProcess
<1>31. CASE Closes(k)
  BY <1>31 DEF Closes, DiskKept, ProcessKept, MindKept, PastKept, Rooms, Quiet,
     Live, Alive, NoProcess
<1>32. CASE Forgets(k)
  <2>1. ~past.restarted
    BY <1>32 DEF Forgets, Up
  <2>2. NoProcess(stray[k])
    BY <2>1 DEF Leased
  <2>3. CASE stray'[k] = stray[k]
    BY <1>32, <2>2, <2>3 DEF Forgets, Released, KidIs, DiskKept, Rooms, Quiet, NoProcess
  <2>4. CASE Alive(proc[k]) /\ stray'[k] = proc[k]
    <3>1. ~meta[k].queued /\ (file[k] = <<>> => ~InTurn(proc[k]))
      BY <2>4, NewFile DEF Queued, Leased, NoProcess, Alive, Files
    <3> QED BY <1>32, <2>1, <2>4, <3>1 DEF Forgets, Released, KidIs, DiskKept, Rooms,
            Quiet, Alive, InTurn, TypesOf, ProcT
  <2> QED BY <1>32, <2>3, <2>4 DEF Forgets, ProcessKept
<1>33. CASE Requeues(k)
  <2>1. meta[k].queued => meta[k].task
    BY DEF Queued
  <2>2. /\ kids[k].pc = "none" /\ sending[k] = "no" /\ k \notin waiting
        /\ proc'[k] = proc[k] /\ stray'[k] = stray[k] /\ kids'[k] = kids[k]
        /\ k \notin waiting' /\ sending'[k] = "no" /\ past'.restarted = past.restarted
        /\ past.restarted /\ serve' = "up" /\ file'[k] = file[k]
    BY <1>33 DEF Requeues, Forgotten, MindKept, ProcessKept, PastKept
  <2>3. meta'[k].queued /\ ~meta'[k].prompt => file[k] = <<>> /\ meta[k].task
    BY <1>33, <2>1 DEF Requeues, MetaIs, Spent, historyExists
  <2>4. meta'[k].here = meta[k].here /\ meta'[k].prompt = meta[k].prompt
    BY <1>33 DEF Requeues, MetaIs
  <2>5. serve = "down"
    BY <1>33 DEF Requeues
  <2> QED BY <2>2, <2>3, <2>4, <2>5, NewFile DEF Rooms, Quiet
<1> QED
  BY <1>1, <1>2, <1>3, <1>4, <1>5, <1>6, <1>7, <1>8, <1>9, <1>10, <1>11, <1>12,
     <1>13, <1>14, <1>15, <1>16, <1>17, <1>18, <1>19, <1>20, <1>21, <1>22,
     <1>23, <1>24, <1>25, <1>26, <1>27, <1>28, <1>29, <1>30, <1>31, <1>32,
     <1>33 DEF Step, CallStep, ReportStep

LEMMA LastHeard ==
  ASSUME NEW o \in Seq(EventT), o # <<>>, Tail(o) = <<>>
  PROVE  o[Len(o)] = Head(o)
<1> DEFINE t == Tail(o)
<1>1. /\ Len(o) \in Nat \ {0} /\ DOMAIN t = 1 .. Len(o) - 1
      /\ Head(o) = o[1]
  OBVIOUS
<1>2. DOMAIN t = {}
  <2> HIDE DEF t
  <2>1. t = <<>>
    BY DEF t
  <2> QED BY <2>1
<1>3. ASSUME NEW n \in Nat \ {0}, 1 \notin 1 .. n - 1 PROVE n = 1
  BY <1>3
<1>4. Len(o) = 1
  <2> HIDE DEF t
  <2>1. 1 \notin 1 .. Len(o) - 1
    BY <1>1, <1>2
  <2> QED BY <1>1, <1>3, <2>1
<1> QED BY <1>1, <1>4

LEMMA NoLeakStays ==
  ASSUME NEW k \in Kids, Step(k), TypesOf(k), NoLeak(k),
         OneRestart => Rooms(k), Leased(k), Unborn(k), Queued(k), Files(k),
         Launched(k), Unstarted(k), LastWorks(k), GivenUp(k)
  PROVE  NoLeak(k)'
<1>1. CASE Same(k)
  BY <1>1 DEF Same, DiskKept, ProcessKept, MindKept, PastKept, NoLeak, HeldBy,
     Live, OpenTurn, Alive
<1>2. CASE OnLaunchStarts(k)
  BY <1>2 DEF OnLaunchStarts, KidIs, ProcIs, Up, NoLeak, HeldBy, Live,
     OpenTurn, Alive, Leased, NoProcess, Launched
<1>3. CASE OnLaunchAbandons(k)
  BY <1>3 DEF OnLaunchAbandons, Released, KidIs, LaunchFails, Erased, Unstarts,
     MetaIs, Adds, Up, NoLeak, HeldBy, Live, OpenTurn, Alive, Leased
<1>4. CASE OnLaunchChecks(k)
  BY <1>4 DEF OnLaunchChecks, KidIs, MetaIs, Dies, Up, NoLeak, HeldBy, Live,
     OpenTurn, Alive, Leased, Launched
<1>5. CASE OnLaunchPrompts(k)
  <2>1. proc[k].pipe \in Seq(LineT)
    BY DEF TypesOf, ProcT
  <2>2. Append(proc[k].pipe, "task") # <<>>
    BY <2>1, PipeGets DEF LineT
  <2>3. kids[k].exited => proc[k].st = "dead"
    BY DEF Leased
  <2> QED BY <1>5, <2>2, <2>3 DEF OnLaunchPrompts, KidIs, ProcIs, NoLeak, HeldBy, Live, OpenTurn, Alive
<1>6. CASE OnFreeLooks(k)
  <2>1. NoEntries(file[k]) => ~\E i \in DOMAIN file[k] : IsInput(file[k][i])
    BY DEF NoEntries, IsInput
  <2> QED BY <1>6, <2>1 DEF OnFreeLooks, NoLeak, HeldBy, Live, OpenTurn
<1>7. CASE OnFreeGives(k)
  BY <1>7 DEF OnFreeGives, MetaIs, Up, NoLeak, HeldBy, Live, OpenTurn, Alive
<1>8. CASE OnReadEvent(k)
  <2>1. ~meta[k].here => k \notin running
    BY DEF Queued
  <2>2. CASE Head(out[k]) # "work"
    <3>1. k \notin running'
      BY <1>8, <2>1, <2>2 DEF OnReadEvent, ChildEvents
    <3> QED BY <3>1 DEF NoLeak
  <2>3. CASE Head(out[k]) = "work"
    <3>1. out[k] \in Seq(EventT)
      BY DEF TypesOf
    <3>2. Tail(out[k]) = <<>> => out[k][Len(out[k])] = "work"
      BY <1>8, <2>3, <3>1, LastHeard DEF OnReadEvent
    <3>3. CASE Tail(out[k]) # <<>>
      BY <1>8, <3>3 DEF OnReadEvent, NoLeak, HeldBy
    <3>4. CASE Tail(out[k]) = <<>>
      <4>1. proc[k].st \in {"turn", "dead"} /\ ~kids[k].exited
        BY <1>8, <3>2, <3>4 DEF OnReadEvent, LastWorks, Leased
      <4>2. proc'[k].st = proc[k].st /\ kids'[k].exited = kids[k].exited
            /\ kids'[k].pc = kids[k].pc
        BY <1>8, <2>3 DEF OnReadEvent, KidIs, ProcIs
      <4> QED BY <1>8, <4>1, <4>2 DEF OnReadEvent, NoLeak, HeldBy, Live, OpenTurn
    <3> QED BY <3>3, <3>4
  <2> QED BY <2>2, <2>3
<1>9. CASE OnReap(k)
  BY <1>9 DEF OnReap, KidIs, ChildEvents, MetaIs, Adds, Live, Up, NoLeak,
     HeldBy, OpenTurn, Alive, Queued
<1>10. CASE OnDrop(k)
  BY <1>10 DEF OnDrop, ProcIs, Released, KidIs, LaunchFails, Erased, Unstarts,
     MetaIs, Adds, Up, NoLeak, HeldBy, Live, OpenTurn, Alive, Leased, Launched,
     Launching
<1>11. CASE OnHoldExpires(k)
  BY <1>11 DEF OnHoldExpires, KidIs, ProcIs, Live, Alive, Up, NoLeak, HeldBy,
     OpenTurn
<1>12. ASSUME NEW prompt \in BOOLEAN, OnCreateChild(k, prompt) PROVE NoLeak(k)'
  BY <1>12, NewFile DEF OnCreateChild, KidIs, MetaIs, NoLeak, HeldBy, Live,
     OpenTurn, Alive, Unborn, Born
<1>13. CASE OnSendStarts(k)
  BY <1>13 DEF OnSendStarts, KidIs, ProcIs, Live, Alive, NoLeak, HeldBy,
     OpenTurn, Leased
<1>14. CASE OnSendTakes(k)
  BY <1>14 DEF OnSendTakes, Up, NoLeak, HeldBy, Live, OpenTurn, Alive
<1>15. CASE OnSendWrites(k)
  <2>1. proc[k].pipe \in Seq(LineT)
    BY DEF TypesOf, ProcT
  <2>2. Append(proc[k].pipe, "msg") # <<>>
    BY <2>1, PipeGets DEF LineT
  <2>3. kids[k].exited => proc[k].st = "dead"
    BY DEF Leased
  <2>4. CASE Live(k) /\ Alive(proc[k])
    BY <1>15, <2>2, <2>3, <2>4 DEF OnSendWrites, KidIs, ProcIs, NoLeak, HeldBy, Live, OpenTurn, Alive
  <2>5. CASE ~(Live(k) /\ Alive(proc[k]))
    BY <1>15, <2>5 DEF OnSendWrites, NoLeak, HeldBy, Live, OpenTurn, Alive
  <2> QED BY <2>4, <2>5
<1>16. CASE OnstopChild(k)
  BY <1>16 DEF OnstopChild, KidIs, ProcIs, Dies, Erased, MetaIs, Live, Booting,
     Alive, NoLeak, HeldBy, OpenTurn, Leased, Launched, Queued
<1>17. CASE OnWithdrawChild(k)
  BY <1>17 DEF OnWithdrawChild, Erased, MetaIs, NoLeak, HeldBy, Live, OpenTurn,
     Alive
<1>18. CASE OnWithdrawKills(k)
  BY <1>18 DEF OnWithdrawKills, KidIs, Dies, Live, Alive, Up, NoLeak, HeldBy,
     OpenTurn, Leased, Launched
<1>19. CASE OnWithdrawEnds(k)
  BY <1>19 DEF OnWithdrawEnds, Live, Up, NoLeak, HeldBy, OpenTurn, Alive,
     Queued, GivenUp
<1>20. CASE OnCloseKills(k)
  BY <1>20 DEF OnCloseKills, KidIs, Dies, Live, Alive, NoLeak, HeldBy,
     OpenTurn, Leased, Launched
<1>21. CASE OnProcMoves(k)
  <2>1. PICK o : /\ Outcome(proc[k], file[k], o) /\ proc'[k] = o.proc
                 /\ file'[k] = o.file /\ out'[k] = out[k] \o o.say
                 /\ o.say \in Seq(EventT)
    BY <1>21 DEF OnProcMoves
  <2>2. proc[k] \in ProcT /\ file[k] \in Seq(EntryT) /\ out[k] \in Seq(EventT)
    BY DEF TypesOf
  <2>3. /\ Alive(proc[k]) /\ ~kids[k].exited /\ Live(k)
    BY <2>1, <2>2, MovedProcess DEF Leased, Alive, NoProcess, Live
  <2>4. /\ out'[k] = <<>> => out[k] = <<>> /\ o.say = <<>>
    BY <2>1, <2>2, Saying
  <2>5. \/ o.proc.st \in {"open", "turn", "dead"} \/ o.say # <<>>
        \/ /\ o.proc.pipe = proc[k].pipe /\ ~OpenTurn(k)
           /\ ~Opens(proc[k], o)
    BY <2>1, Sayings DEF Outcome, OpenTurn, Opens, InTurn
  <2>6. NoEntries(file[k]) /\ ~Opens(proc[k], o) => NoEntries(o.file)
    BY <2>1, <2>2, MovedFile DEF Files
  <2>7. CASE o.proc.st \in {"open", "turn", "dead"} \/ o.say # <<>>
    BY <1>21, <2>1, <2>3, <2>4, <2>7 DEF OnProcMoves, NoLeak, HeldBy, Live, OpenTurn
  <2>8. CASE ~(o.proc.st \in {"open", "turn", "dead"} \/ o.say # <<>>)
    BY <1>21, <2>1, <2>2, <2>3, <2>4, <2>5, <2>6, <2>8, Saying
       DEF OnProcMoves, NoLeak, HeldBy, Live, OpenTurn, Alive
  <2> QED BY <2>7, <2>8
<1>22. CASE OnStrayMoves(k)
  <2>1. PICK o : /\ Outcome(stray[k], file[k], o)
                 /\ \/ o.proc.st = "dead" /\ NoProcess(stray'[k])
                    \/ o.proc.st # "dead" /\ stray'[k] = o.proc
                 /\ file'[k] = file[k] \/ file'[k] = o.file
    BY <1>22 DEF OnStrayMoves
  <2>2. stray[k] \in ProcT /\ file[k] \in Seq(EntryT)
    BY DEF TypesOf
  <2>3. Quiet(stray[k]) /\ NoEntries(file[k]) => NoEntries(file'[k])
    BY <2>1, <2>2, MovedQuiet, MovedFile
  <2>4. k \in running => meta[k].here
    BY DEF Queued
  <2>5. k \in running /\ (meta[k].prompt \/ OneRestart)
          /\ (k \in waiting \/ (kids[k].pc \in {"exec", "check"} /\ ~kids[k].prompt))
          => Quiet(stray[k])
    BY <2>4 DEF Rooms, Unstarted, BeforePrompt
  <2>6. HeldBy(k) => HeldBy(k)'
    BY <1>22 DEF OnStrayMoves, HeldBy, Live, OpenTurn
  <2> QED BY <1>22, <2>3, <2>5, <2>6 DEF OnStrayMoves, NoLeak
<1>23. CASE OnProcDies(k)
  BY <1>23 DEF OnProcDies, Dies, Alive, NoLeak, HeldBy, Live, OpenTurn, Leased,
     NoProcess, Launched
<1>24. ASSUME NEW r \in ReportsOf(k), StartsReport(k, r) PROVE NoLeak(k)'
  <2>1. file'[k] = file[k] \/ (~NoEntries(file[k]) /\ file'[k] = Append(file[k], "cancelled"))
    BY <1>24, DoneIsThere DEF StartsReport, TypesOf
  <2>2. file[k] \in Seq(EntryT) /\ "cancelled" \in EntryT /\ ~IsInput("cancelled")
    BY DEF TypesOf, EntryT, IsInput
  <2>3. NoEntries(file[k]) => NoEntries(file'[k])
    BY <2>1, <2>2, Appending
  <2> QED BY <1>24, <2>3 DEF StartsReport, PastKept, ProcessKept, NoLeak, HeldBy, Live, OpenTurn
<1>25. ASSUME NEW r \in ReportsOf(k), DecidesReport(k, r) PROVE NoLeak(k)'
  BY <1>25 DEF DecidesReport, Adds, Unstarts, MetaIs, ProcessKept, Up, NoLeak,
     HeldBy, Live, OpenTurn, Alive
<1>26. ASSUME NEW r \in ReportsOf(k), MarksReport(k, r) PROVE NoLeak(k)'
  BY <1>26 DEF MarksReport, MetaIs, Adds, ProcessKept, Up, NoLeak, HeldBy,
     Live, OpenTurn, Alive
<1>27. ASSUME NEW r \in ReportsOf(k), TellsReport(k, r) PROVE NoLeak(k)'
  BY <1>27 DEF TellsReport, ProcessKept, Up, NoLeak, HeldBy, Live, OpenTurn,
     Alive
<1>28. CASE StartsNext(k)
  BY <1>28 DEF StartsNext, KidIs, MetaIs, NoLeak, HeldBy, Live, OpenTurn,
     Alive, Rooms, Queued, Blank
<1>29. CASE LooksOwed(k)
  BY <1>29 DEF LooksOwed, Adds, DiskKept, ProcessKept, Live, NoLeak, HeldBy,
     OpenTurn, Alive
<1>30. CASE GivesUpOwed(k)
  BY <1>30 DEF GivesUpOwed, DiskKept, ProcessKept, MindKept, PastKept, NoLeak,
     HeldBy, Live, OpenTurn, Alive
<1>31. CASE Closes(k)
  BY <1>31 DEF Closes, DiskKept, ProcessKept, MindKept, PastKept, NoLeak,
     HeldBy, Live, OpenTurn, Alive
<1>32. CASE Forgets(k)
  BY <1>32 DEF Forgets, Released, KidIs, NoProcess, DiskKept, ProcessKept,
     Live, Alive, Up, NoLeak, HeldBy, OpenTurn
<1>33. CASE Requeues(k)
  BY <1>33 DEF Requeues, MetaIs, ProcessKept, MindKept, PastKept, NoLeak,
     HeldBy, Live, OpenTurn, Alive
<1> QED
  BY <1>1, <1>2, <1>3, <1>4, <1>5, <1>6, <1>7, <1>8, <1>9, <1>10, <1>11, <1>12,
     <1>13, <1>14, <1>15, <1>16, <1>17, <1>18, <1>19, <1>20, <1>21, <1>22,
     <1>23, <1>24, <1>25, <1>26, <1>27, <1>28, <1>29, <1>30, <1>31, <1>32,
     <1>33 DEF Step, CallStep, ReportStep

----------------------------------------------------------------------------
(* The theorems.                                                           *)

LEMMA NothingKnown ==
  ASSUME NEW m \in MetaT, ~m.here, ~m.task, ~m.prompt, ~m.queued,
         m.ended = "no", m.reported = 0
  PROVE  m = NoMeta
BY DEF MetaT, NoMeta

LEMMA TypesFollow == ASSUME IInv PROVE TypeOK
<1>1. Typed /\ InOrder
  BY DEF IInv
<1>2. ASSUME NEW k \in Kids
      PROVE  /\ k \notin past.withdrawn => meta[k].reported \in 0 .. Len(file[k])
             /\ Alive(proc[k]) => Live(k)
             /\ meta[k].queued => meta[k].task /\ ~Launching(k)
             /\ serve = "up" => (meta[k].queued <=> InQueue(k))
             /\ ~meta[k].here => meta[k] = NoMeta
  <2>1. Leased(k) /\ Queued(k) /\ Marked(k)
    BY DEF IInv
  <2>2. /\ file[k] \in Seq(EntryT) /\ meta[k] \in MetaT
        /\ meta[k].reported \in Nat
    BY <1>1 DEF Typed, MetaT
  <2>3. k \notin past.withdrawn => meta[k].reported \in 0 .. Len(file[k])
    BY <2>1, <2>2 DEF Marked, IsEntry
  <2>4. Alive(proc[k]) => Live(k)
    BY <2>1 DEF Leased, NoProcess, Alive, Live
  <2>5. /\ meta[k].queued => meta[k].task /\ ~Launching(k)
        /\ serve = "up" => (meta[k].queued <=> InQueue(k))
    BY <2>1 DEF Queued, Launching
  <2>6. ~meta[k].here => meta[k] = NoMeta
    BY <2>1, <2>2, NothingKnown DEF Queued, Blank
  <2> QED BY <2>3, <2>4, <2>5, <2>6
<1>3. /\ running \subseteq Kids /\ drains \in 0 .. MaxRunning
      /\ waiting \cup freeing \cup waitStops \cup withdrawing \cup owed \subseteq Kids
      /\ \A i, j \in DOMAIN queue : i < j => queue[i] < queue[j]
  BY <1>1 DEF Typed, InOrder
<1> QED BY <1>2, <1>3 DEF TypeOK

(* The variables keep their types, the queue is what meta.json says waits, *)
(* oldest first, and only the process of a leased child runs (ensure,      *)
(* children.go's queue and the leases of supervisor.go).                   *)
THEOREM TypeCorrect == Spec => []TypeOK
<1>1. IInv => TypeOK
  BY TypesFollow
<1> QED BY <1>1, InvariantHolds, PTL

LEMMA TasksOnceFollows == ASSUME IInv PROVE TaskOnce
<1> SUFFICES ASSUME NEW k \in Kids \ past.orphans
             PROVE  Cardinality({i \in DOMAIN file[k] : file[k][i] = "task"}) <= 1
  BY DEF TaskOnce
<1> DEFINE S == {i \in DOMAIN file[k] : file[k][i] = "task"}
<1>1. \A i, j \in S : i = j
  BY DEF IInv, Tasks, OneTask
<1>2. CASE S = {}
  BY <1>2, FS_EmptySet
<1>3. CASE S # {}
  <2>1. PICK x : x \in S
    BY <1>3
  <2>2. S = {x}
    BY <1>1, <2>1
  <2> HIDE DEF S
  <2>3. Cardinality(S) = 1
    BY <2>2, FS_Singleton
  <2> QED BY <2>3 DEF S
<1> QED BY <1>2, <1>3

(* A child's task is read once, over restarts of serve, unless a crash     *)
(* left its process alive (requeueLocked, launch, drainQueue).             *)
THEOREM TasksRunOnce == Spec => []TaskOnce
<1>1. IInv => TaskOnce
  BY TasksOnceFollows
<1> QED BY <1>1, InvariantHolds, PTL

LEMMA StopsFollow == ASSUME IInv PROVE StopsHold
<1>1. ASSUME NEW k \in past.bootStopped \ past.orphans, NEW i \in DOMAIN file[k]
      PROVE  file[k][i] # "task"
  <2>1. k \in Kids
    BY DEF IInv, Typed, PastT
  <2> QED BY <1>1, <2>1 DEF IInv, BootStopped, HasTask
<1>2. ASSUME NEW k \in past.withdrawn
      PROVE  /\ k \notin withdrawing => ~Live(k) /\ k \notin running
             /\ k \notin withdrawing \cup past.cut \cup past.orphans => file[k] = <<>>
             /\ \A i \in DOMAIN told[k] : told[k][i] \in past.heard[k]
  <2>1. k \in Kids
    BY DEF IInv, Typed, PastT
  <2>2. GivenUp(k) /\ Queued(k) /\ Silent(k)
    BY <2>1 DEF IInv
  <2>3. ~Live(k) \/ k \in withdrawing
    BY <1>2, <2>2 DEF GivenUp
  <2>4. k \notin running
    BY <1>2, <2>2 DEF GivenUp, Queued
  <2>5. ASSUME NEW i \in DOMAIN told[k] PROVE told[k][i] \in past.heard[k]
    <3>1. told[k][i] \in Nat
      BY <2>1 DEF IInv, Typed
    <3> QED BY <1>2, <2>2, <3>1 DEF Silent, ToldKey
  <2> QED BY <1>2, <2>2, <2>3, <2>4, <2>5 DEF GivenUp
<1> QED BY <1>1, <1>2 DEF StopsHold, StopWins, WithdrawnGone

(* A child stopped while it booted never reads its task, over restarts of  *)
(* serve too, unless a crash left a process of it alive.  A child its      *)
(* parent gave up is leased no process and holds no slot again; its file   *)
(* goes, unless serve ended before; and its parent is told nothing of it   *)
(* but what was told or marked before (stopChild, launch, WithdrawChild,   *)
(* report).                                                                *)
THEOREM StopsStay == Spec => []StopsHold
<1>1. IInv => StopsHold
  BY StopsFollow
<1> QED BY <1>1, InvariantHolds, PTL

LEMMA ParentFollows == ASSUME IInv PROVE ParentKnows
<1>1. ASSUME NEW k \in Kids \ (past.orphans \cup past.overtaken), AtRest(k), meta[k].here
      PROVE  lastTurn(file[k]).input <= meta[k].reported
  <2>1. ReportsOf(k) = {}
    BY <1>1 DEF AtRest, ReportsOf
  <2>2. NoClose(out[k])
    BY <1>1 DEF AtRest, NoClose
  <2>3. ~ToReport(k)
    BY <1>1, <2>1, <2>2 DEF AtRest, ToReport, OpenTurn
  <2> QED BY <1>1, <2>3 DEF IInv, Reported, LastInput
<1>2. ASSUME NEW k \in Kids \ past.cut, AtRest(k), meta[k].reported > 0
      PROVE  \E i \in DOMAIN told[k] : told[k][i] = meta[k].reported
  <2>1. ReportsOf(k) = {}
    BY <1>2 DEF AtRest, ReportsOf
  <2>2. ToldKey(k, meta[k].reported)
    BY <1>2 DEF IInv, Told
  <2> QED BY <2>1, <2>2 DEF ToldKey
<1>3. ASSUME NEW k \in Kids, NEW i \in DOMAIN told[k], NEW j \in DOMAIN told[k]
      PROVE  LET x == told[k][i]
                 y == told[k][j]
             IN /\ i # j => x # y
                /\ k \notin past.orphans \cup past.withdrawn =>
                     (x \in 1 .. y - 1 /\ SameTurn(file[k], x, y)
                        => IsInput(file[k][x]) \/ k \in past.waitEnded)
  <2> DEFINE f == file[k]
             x == told[k][i]
             y == told[k][j]
  <2>1. i # j => x # y
    BY <1>3 DEF IInv, Told
  <2>2. ASSUME k \notin past.orphans \cup past.withdrawn \cup past.waitEnded,
               x \in 1 .. y - 1, SameTurn(f, x, y), ~IsInput(f[x])
        PROVE  FALSE
    <3>1. x \in Nat /\ y \in Nat /\ f \in Seq(EntryT)
      BY DEF IInv, Typed
    <3>2. ToldKey(k, x) /\ ToldKey(k, y)
      BY <1>3 DEF ToldKey
    <3>3. Turns(k)
      BY DEF IInv
    <3>4. Names(f, x) /\ Names(f, y) /\ ClosesOnce(f)
      BY <2>2, <3>1, <3>2, <3>3 DEF Turns
    <3> HIDE DEF f, x, y
    <3>5. x < y /\ y \in x + 1 .. y
      BY <2>2, <3>1
    <3>6. IsClose(f[x]) /\ IsClose(f[y])
      BY <2>2, <3>1, <3>4, <3>5
         DEF SameTurn, Names, IsEntry, IsClose, IsInput, EntryT
    <3> QED BY <2>2, <3>4, <3>5, <3>6 DEF ClosesOnce, Names, IsEntry
  <2> QED BY <2>1, <2>2
<1>4. ASSUME NEW k \in Kids \ past.bootStopped, AtRest(k), ~Live(k), meta[k].here,
             meta[k].prompt, ~lastTurn(file[k]).hasEntry
      PROVE  meta[k].ended # "no" /\ (told[k] # <<>> \/ k \in past.cut)
  <2>1. ReportsOf(k) = {}
    BY <1>4 DEF AtRest, ReportsOf
  <2>2. file[k] \in Seq(EntryT)
    BY DEF IInv, Typed
  <2>3. NoEntries(file[k])
    BY <1>4, <2>2, HasEntry
  <2>4. ~kids[k].startFailed
    BY <1>4 DEF IInv, Leased, Live
  <2>5. ~ExitTold(k)
    BY <2>1 DEF ExitTold
  <2>6. meta[k].ended # "no"
    <3>1. Unstarted(k)
      BY DEF IInv
    <3> QED BY <1>4, <2>3, <2>4, <2>5, <3>1 DEF AtRest, Unstarted
  <2>7. k \notin past.cut => told[k] # <<>>
    <3>1. k \notin past.cut => \E x \in Nat : ToldKey(k, x)
      BY <2>6 DEF IInv, Told
    <3> QED BY <2>1, <3>1 DEF ToldKey
  <2> QED BY <2>6, <2>7
<1> QED BY <1>1, <1>2, <1>3, <1>4
     DEF ParentKnows, TurnsReported, ParentTold, ToldOnce, UnstartedEnded

(* The parent learns how each of its child's turns ended, over stops,      *)
(* deaths and restarts of serve, and hears of no entry twice.  A turn is   *)
(* told again only if it was open when first told, or if a stop ended a    *)
(* wait; the exceptions stand in ParentKnows' parts (report, markReported, *)
(* endUnstarted, reportOwed).                                              *)
THEOREM ParentsKnow == Spec => []ParentKnows
<1>1. IInv => ParentKnows
  BY ParentFollows
<1> QED BY <1>1, InvariantHolds, PTL

(* Who starts a child: CreateChild, and drainQueue for the next in line.   *)
LEMMA StartedBy ==
  ASSUME Typed, [Next]_vars, NEW k \in Kids, kids'[k].pc = "exec", kids[k].pc # "exec"
  PROVE  \/ \E prompt \in BOOLEAN : CreateChild(k, prompt) /\ queue = <<>>
         \/ /\ DrainQueue /\ serve = "up" /\ queue # <<>> /\ k = Head(queue)
            /\ meta' = [meta EXCEPT ![k].queued = FALSE]
<1>0. kids \in [Kids -> KidT] /\ kids' # kids
  BY DEF Typed
<1>1. CASE UNCHANGED vars
  BY <1>0, <1>1 DEF vars, memory
<1>2. ASSUME NEW l \in Kids, Launch(l) PROVE FALSE
  <2>1. CASE LaunchStarts(l)
    BY <1>0, <2>1 DEF LaunchStarts, KidT
  <2>2. CASE LaunchAbandons(l)
    BY <1>0, <2>2 DEF LaunchAbandons, NoChild, KidT
  <2>3. CASE LaunchChecks(l)
    BY <1>0, <2>3 DEF LaunchChecks, KidT
  <2>4. CASE LaunchPrompts(l)
    BY <1>0, <2>4 DEF LaunchPrompts, KidT
  <2>5. CASE FreeLooks(l)
    BY <1>0, <2>5 DEF FreeLooks, KidT
  <2>6. CASE FreeGives(l)
    BY <1>0, <2>6 DEF FreeGives, KidT
  <2> QED BY <1>2, <2>1, <2>2, <2>3, <2>4, <2>5, <2>6 DEF Launch
<1>3. ASSUME NEW l \in Kids, Serve(l) PROVE FALSE
  <2>1. CASE ReadEvent(l)
    BY <1>0, <2>1 DEF ReadEvent, Release, KidT
  <2>2. CASE Reap(l)
    BY <1>0, <2>2 DEF Reap, KidT
  <2>3. CASE Drop(l)
    BY <1>0, <2>3 DEF Drop, NoChild, KidT
  <2>4. CASE HoldExpires(l)
    BY <1>0, <2>4 DEF HoldExpires, KidT
  <2> QED BY <1>3, <2>1, <2>2, <2>3, <2>4 DEF Serve
<1>4. ASSUME NEW l \in Kids, NEW prompt \in BOOLEAN, CreateChild(l, prompt)
      PROVE  l = k /\ queue = <<>>
  BY <1>0, <1>4 DEF CreateChild, Waits, newChild, NoChild, KidT
<1>5. ASSUME NEW l \in Kids, Ask(l) PROVE \E prompt \in BOOLEAN : CreateChild(l, prompt)
  <2>1. CASE SendStarts(l)
    BY <1>0, <2>1 DEF SendStarts, newChild, NoChild, KidT
  <2>2. CASE SendTakes(l)
    BY <1>0, <2>2 DEF SendTakes, KidT
  <2>3. CASE SendWrites(l)
    BY <1>0, <2>3 DEF SendWrites, KidT
  <2>4. CASE stopChild(l)
    BY <1>0, <2>4 DEF stopChild, StopDrops, StopBooting, StopPending, StopTurn,
       Interrupt, KidT
  <2>5. CASE WithdrawChild(l)
    BY <1>0, <2>5 DEF WithdrawChild, KidT
  <2>6. CASE WithdrawKills(l)
    BY <1>0, <2>6 DEF WithdrawKills, Kill, KidT
  <2>7. CASE WithdrawEnds(l)
    BY <1>0, <2>7 DEF WithdrawEnds, KidT
  <2> QED BY <1>5, <2>1, <2>2, <2>3, <2>4, <2>5, <2>6, <2>7 DEF Ask
<1>6. ASSUME NEW l \in Kids, CloseKills(l) \/ ProcMoves(l) \/ StrayMoves(l) \/ ProcDies(l)
      PROVE  FALSE
  <2>1. CASE CloseKills(l)
    BY <1>0, <2>1 DEF CloseKills, Kill, KidT
  <2>2. CASE ProcMoves(l)
    BY <1>0, <2>2 DEF ProcMoves, memory, KidT
  <2>3. CASE StrayMoves(l)
    BY <1>0, <2>3 DEF StrayMoves, memory, KidT
  <2>4. CASE ProcDies(l)
    BY <1>0, <2>4 DEF ProcDies, memory, KidT
  <2> QED BY <1>6, <2>1, <2>2, <2>3, <2>4
<1>7. ASSUME Reports \/ ReportOwed \/ Close \/ NewSupervisor PROVE FALSE
  <2>1. CASE Reports
    BY <1>0, <2>1 DEF Reports, ReportStarts, ReportDecides, ReportMarks, ReportTells
  <2>2. CASE ReportOwed
    BY <1>0, <2>2 DEF ReportOwed
  <2>3. CASE Close
    BY <1>0, <2>3 DEF Close
  <2>4. CASE NewSupervisor
    BY <1>0, <2>4 DEF NewSupervisor
  <2> QED BY <1>7, <2>1, <2>2, <2>3, <2>4
<1>9. ASSUME CloseEnds \/ ServeCrashes PROVE FALSE
  <2>1. kids' = [l \in Kids |-> NoChild]
    BY <1>9 DEF CloseEnds, ServeCrashes, Forget
  <2> QED BY <2>1 DEF NoChild
<1>8. CASE DrainQueue
  <2>1. /\ serve = "up" /\ queue # <<>>
        /\ meta' = [meta EXCEPT ![Head(queue)].queued = FALSE]
        /\ kids' = [kids EXCEPT ![Head(queue)] =
                      newChild("exec", "drain", meta[Head(queue)].prompt)]
    BY <1>0, <1>8 DEF DrainQueue, Typed, Up
  <2>2. k = Head(queue)
    BY <1>0, <2>1
  <2> QED BY <1>8, <2>1, <2>2
<1> QED BY <1>1, <1>2, <1>3, <1>4, <1>5, <1>6, <1>7, <1>8, <1>9 DEF Next

(* A child starts when none older than it waits (CreateChild, drainQueue). *)
THEOREM StartsByAge == Spec => StartsInOrder
<1>1. ASSUME IInv, [Next]_vars, NEW k \in Kids, kids'[k].pc = "exec", kids[k].pc # "exec",
             NEW j \in 1 .. k - 1
      PROVE  ~meta'[j].queued
  <2>1. j \in Kids /\ j # k /\ j < k /\ k \in Nat
    BY SomeKids DEF Kids
  <2>2. Typed /\ InOrder /\ Queued(j)
    BY <1>1, <2>1 DEF IInv
  <2>3. CASE \E prompt \in BOOLEAN : CreateChild(k, prompt) /\ queue = <<>>
    <3>1. serve = "up" /\ queue = <<>> /\ meta'[j] = meta[j]
      BY <2>1, <2>2, <2>3 DEF CreateChild, Typed
    <3> QED BY <2>2, <3>1 DEF Queued, InQueue
  <2>4. CASE /\ DrainQueue /\ serve = "up" /\ queue # <<>> /\ k = Head(queue)
             /\ meta' = [meta EXCEPT ![k].queued = FALSE]
    <3>1. meta'[j] = meta[j]
      BY <2>1, <2>2, <2>4 DEF Typed
    <3>2. In(queue, j) => k <= j
      BY <2>2, <2>4, Headed DEF Typed, InOrder, Ordered
    <3>3. ~InQueue(j)
      BY <2>1, <3>2 DEF In, InQueue
    <3> QED BY <2>2, <2>4, <3>1, <3>3 DEF Queued
  <2> QED BY <1>1, <2>2, <2>3, <2>4, StartedBy
<1>2. IInv /\ [Next]_vars =>
        [\A k \in Kids : kids'[k].pc = "exec" /\ kids[k].pc # "exec"
           => \A j \in 1 .. k - 1 : ~meta'[j].queued]_vars
  BY <1>1
<1> QED BY <1>2, InvariantHolds, PTL DEF StartsInOrder, Spec

(* The times serve may still end.                                          *)
LEMMA RestartsLeft ==
  ASSUME Typed, [Next]_vars
  PROVE  \/ /\ budget'["restarts"] = budget["restarts"]
            /\ \/ /\ past'.restarted = past.restarted
                  /\ serve' = serve \/ (serve = "down" /\ serve' = "up")
               \/ serve = "closing" /\ serve' = "down" /\ past'.restarted
         \/ /\ budget["restarts"] > 0 /\ budget'["restarts"] = budget["restarts"] - 1
            /\ \/ /\ serve = "up" /\ serve' = "closing"
                  /\ past'.restarted = past.restarted
               \/ serve # "down" /\ serve' = "down" /\ past'.restarted
<1> DEFINE Kept == /\ budget'["restarts"] = budget["restarts"]
                   /\ serve' = serve /\ past'.restarted = past.restarted
<1>0. /\ budget \in [Whats -> Nat] /\ past \in PastT
      /\ \A w \in Whats \ {"restarts"} :
           [budget EXCEPT ![w] = budget[w] - 1]["restarts"] = budget["restarts"]
      /\ "restarts" \in Whats
  BY DEF Typed, Whats
<1>1. CASE UNCHANGED vars
  BY <1>1 DEF vars, memory
<1>2. ASSUME NEW k \in Kids, Launch(k) \/ Serve(k) \/ Ask(k) \/ CloseKills(k)
                             \/ ProcMoves(k) \/ StrayMoves(k) \/ ProcDies(k)
      PROVE  Kept
  <2>1. CASE LaunchStarts(k)
    BY <1>0, <2>1 DEF LaunchStarts
  <2>2. CASE LaunchAbandons(k)
    BY <1>0, <2>2 DEF LaunchAbandons, Spend, Whats
  <2>3. CASE LaunchChecks(k)
    BY <1>0, <2>3 DEF LaunchChecks
  <2>4. CASE LaunchPrompts(k)
    BY <1>0, <2>4 DEF LaunchPrompts
  <2>5. CASE FreeLooks(k)
    BY <1>0, <2>5 DEF FreeLooks
  <2>6. CASE FreeGives(k)
    BY <1>0, <2>6 DEF FreeGives
  <2>7. CASE ReadEvent(k)
    BY <1>0, <2>7 DEF ReadEvent
  <2>8. CASE Reap(k)
    BY <1>0, <2>8 DEF Reap
  <2>9. CASE Drop(k)
    BY <1>0, <2>9 DEF Drop
  <2>10. CASE HoldExpires(k)
    BY <1>0, <2>10 DEF HoldExpires
  <2>11. CASE SendStarts(k)
    BY <1>0, <2>11 DEF SendStarts, Spend, PastT, Whats
  <2>12. CASE SendTakes(k)
    BY <1>0, <2>12 DEF SendTakes
  <2>13. CASE SendWrites(k)
    BY <1>0, <2>13 DEF SendWrites, PastT
  <2>14. CASE stopChild(k)
    BY <1>0, <2>14 DEF stopChild, Spend, StopDrops, StopBooting, StopPending, StopTurn, PastT, Whats
  <2>15. CASE WithdrawChild(k)
    BY <1>0, <2>15 DEF WithdrawChild, Spend, PastT, Whats
  <2>16. CASE WithdrawKills(k)
    BY <1>0, <2>16 DEF WithdrawKills
  <2>17. CASE WithdrawEnds(k)
    BY <1>0, <2>17 DEF WithdrawEnds
  <2>18. CASE CloseKills(k)
    BY <1>0, <2>18 DEF CloseKills
  <2>19. CASE ProcMoves(k)
    BY <1>0, <2>19 DEF ProcMoves, memory
  <2>20. CASE StrayMoves(k)
    BY <1>0, <2>20 DEF StrayMoves, memory
  <2>21. CASE ProcDies(k)
    BY <1>0, <2>21 DEF ProcDies, memory, Spend, Whats
  <2>22. ASSUME NEW prompt \in BOOLEAN, CreateChild(k, prompt) PROVE Kept
    BY <1>0, <2>22 DEF CreateChild, Spend, PastT, Whats
  <2> QED BY <1>2, <2>1, <2>2, <2>3, <2>4, <2>5, <2>6, <2>7, <2>8, <2>9, <2>10,
     <2>11, <2>12, <2>13, <2>14, <2>15, <2>16, <2>17, <2>18, <2>19, <2>20,
     <2>21, <2>22 DEF Launch, Serve, Ask
<1>3. CASE DrainQueue
  BY <1>3 DEF DrainQueue
<1>4. CASE Reports
  <2>1. ASSUME NEW r \in reports, ReportStarts(r) PROVE Kept
    <3>1. past' = past \/ past' = [past EXCEPT !.waitEnded = past.waitEnded \cup {r.k}]
      <4>1. CASE r.k \in waitStops /\ StatusDone(file[r.k])
        BY <2>1, <4>1 DEF ReportStarts
      <4>2. CASE ~(r.k \in waitStops /\ StatusDone(file[r.k]))
        BY <2>1, <4>2 DEF ReportStarts
      <4> QED BY <4>1, <4>2
    <3>2. past'.restarted = past.restarted
      BY <1>0, <3>1 DEF PastT
    <3> QED BY <2>1, <3>2 DEF ReportStarts
  <2> QED BY <1>4, <2>1 DEF Reports, ReportDecides, ReportMarks, ReportTells
<1>5. CASE ReportOwed
  BY <1>5 DEF ReportOwed
<1>6. CASE Close
  BY <1>0, <1>6 DEF Close, Spend
<1>7. CASE CloseEnds
  BY <1>0, <1>7 DEF CloseEnds, Forget, PastServe, PastT
<1>8. CASE ServeCrashes
  BY <1>0, <1>8 DEF ServeCrashes, Forget, Up, Spend, PastServe, PastT
<1>9. CASE NewSupervisor
  BY <1>9 DEF NewSupervisor
<1> QED BY <1>1, <1>2, <1>3, <1>4, <1>5, <1>6, <1>7, <1>8, <1>9 DEF Next

LEMMA LastLifeNext ==
  ASSUME Typed, LastLife, [Next]_vars
  PROVE  /\ LastLife'
         /\ ~past.restarted \/ serve' # "down" \/ serve = "down"
<1>1. budget["restarts"] \in Nat
  BY DEF Typed, Whats
<1> QED BY <1>1, RestartsLeft DEF LastLife

LEMMA SlotsInvInit == Init => SlotsInv
<1> SUFFICES ASSUME Init PROVE SlotsInv
  OBVIOUS
<1>1. OneRestart => LastLife
  <2>1. budget \in Bounds /\ budget \in [Whats -> Nat] /\ "restarts" \in Whats
    BY SomeBounds DEF Init, Whats
  <2>2. serve = "up" /\ ~past.restarted
    BY DEF Init
  <2> QED BY <2>1, <2>2 DEF OneRestart, LastLife
<1>2. ASSUME NEW k \in Kids PROVE Rooms(k) /\ NoLeak(k)
  <2>1. ~meta[k].here /\ k \notin running
    BY DEF Init, NoMeta
  <2> QED BY <2>1 DEF Rooms, NoLeak
<1> QED BY <1>1, <1>2 DEF SlotsInv

LEMMA SlotsInvNext ==
  ASSUME IInv, SlotsInv, [Next]_vars
  PROVE  SlotsInv'
<1>1. Typed /\ InOrder /\ Typed'
  BY NextInv DEF IInv
<1>2. OneRestart =>
        /\ LastLife'
        /\ ~past.restarted \/ serve' # "down" \/ serve = "down"
  BY <1>1, LastLifeNext DEF SlotsInv
<1>3. ASSUME NEW k \in Kids PROVE (OneRestart => Rooms(k)') /\ NoLeak(k)'
  <2>1. /\ Unborn(k) /\ Forgotten(k) /\ Leased(k) /\ Queued(k) /\ GivenUp(k)
        /\ Files(k) /\ Launched(k) /\ Unstarted(k) /\ LastWorks(k)
    BY DEF IInv
  <2>2. Step(k) /\ TypesOf(k)
    BY <1>1, StepCases, TypesOfKid
  <2>3. (OneRestart => Rooms(k)) /\ NoLeak(k)
    BY DEF SlotsInv
  <2>4. OneRestart => Rooms(k)'
    BY <1>2, <2>1, <2>2, <2>3, RoomsStays
  <2>5. NoLeak(k)'
    BY <2>1, <2>2, <2>3, NoLeakStays
  <2> QED BY <2>4, <2>5
<1> QED BY <1>2, <1>3 DEF SlotsInv

LEMMA SlotsInvHolds == Spec => []SlotsInv
<1>1. Init => SlotsInv
  BY SlotsInvInit
<1>2. IInv /\ SlotsInv /\ [Next]_vars => SlotsInv'
  BY SlotsInvNext
<1> QED BY <1>1, <1>2, InvariantHolds, PTL DEF Spec

(* What gives the slot of a child back, if it holds one.                   *)
GivesBack(k) ==
  \/ Launching(k) \/ sending[k] = "took" \/ k \in waiting \cup freeing
  \/ out[k] # <<>>
  \/ Live(k) /\ ~kids[k].exited
       /\ (OpenTurn(k) \/ proc[k].pipe # <<>> \/ proc[k].st = "dead")

LEMMA TurnsHold == ASSUME IInv PROVE TurnHoldsSlot
<1>1. ASSUME NEW k \in Kids, OpenTurn(k), meta[k].here, k \notin past.messaged
      PROVE  k \in running
  BY <1>1 DEF IInv, HoldsSlot
<1> QED BY <1>1 DEF TurnHoldsSlot

LEMMA WakesKept == ASSUME IInv PROVE NoLostWake
<1>1. ASSUME NEW k \in Kids, Rewakes(k)
      PROVE  \/ sending[k] = "took"
             \/ Launching(k) /\ kids[k].by = "drain"
             \/ kids[k].startFailed /\ ~kids[k].exited
  BY <1>1 DEF Rewakes
<1>2. drains \in Nat
  BY SomeSlot DEF IInv, Typed
<1> QED BY <1>1, <1>2 DEF NoLostWake, IInv, Woken

LEMMA SlotsGivenBack ==
  ASSUME SlotsInv, NEW k \in Kids, k \in running, meta[k].prompt \/ OneRestart
  PROVE  GivesBack(k)
BY DEF SlotsInv, NoLeak, GivesBack, HeldBy, Launching

(* The slots, however often serve ends: an open turn of a child nobody     *)
(* messaged holds one, no wake-up of the queue is lost, and the slot of a  *)
(* child with a prompt is not leaked (launch, Send, childEventLocked,      *)
(* freeWhenWritten, drainQueue).                                           *)
THEOREM SlotsOfTasks ==
  Spec => [](/\ TurnHoldsSlot /\ NoLostWake
             /\ \A k \in running : meta[k].prompt => GivesBack(k))
<1>1. IInv /\ SlotsInv =>
        /\ TurnHoldsSlot /\ NoLostWake
        /\ \A k \in running : meta[k].prompt => GivesBack(k)
  <2>1. IInv => running \subseteq Kids
    BY DEF IInv, Typed
  <2> QED BY <2>1, TurnsHold, WakesKept, SlotsGivenBack
<1> QED BY <1>1, InvariantHolds, SlotsInvHolds, PTL

(* ... and the slot of a room neither, if serve ends at most once: after   *)
(* two crashes the process the first left behind may write the room's      *)
(* file, and freeWhenWritten then takes the room for one at work.          *)
THEOREM SlotsRightOnce == OneRestart => (Spec => []SlotsRight)
<1> SUFFICES ASSUME OneRestart PROVE Spec => []SlotsRight
  OBVIOUS
<1>1. IInv /\ SlotsInv => SlotsRight
  <2>1. IInv => running \subseteq Kids
    BY DEF IInv, Typed
  <2>2. ASSUME IInv, SlotsInv PROVE NoLeakedSlot
    BY <2>1, <2>2, SlotsGivenBack DEF NoLeakedSlot, GivesBack
  <2> QED BY <2>2, TurnsHold, WakesKept DEF SlotsRight
<1> QED BY <1>1, InvariantHolds, SlotsInvHolds, PTL

=============================================================================
