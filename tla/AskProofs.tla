----------------------------- MODULE AskProofs -----------------------------
(***************************************************************************)
(* Theorems about module Ask, for any number of calls, Askers, answers,    *)
(* remounts and deaths of the process, proved by TLAPS.                    *)
(***************************************************************************)
EXTENDS Ask, TLAPS, FiniteSetTheorems, WellFoundedInduction

----------------------------------------------------------------------------
(* The inductive invariant.                                                *)

Places ==
  {"idle", "queued", "putting", "placed", "waiting", "answered", "failing",
   "failed", "left", "over", "dead"}
CallT == [at : Places, mount : 0 .. MaxMounts, id : Nat]
LineT == [id : Nat, for : Calls]
EventT ==
  [kind : {"ask", "end", "result", "call", "done", "exit"}, of : Calls \cup {NoCall}]
PostT == [at : {"claim", "write", "broken"}, n : Nat, id : Nat, for : Calls]
PumpT ==
  [at : {"idle"}]
  \cup [at : {"answer"}, line : LineT, to : 0 .. MaxMounts]
  \cup [at : {"send"}, line : LineT, to : Calls]

Typed ==
  /\ kind \in [Calls -> Kinds] /\ budget \in [Whats -> Nat]
  /\ call \in [Calls -> CallT]
  /\ box \in [Calls -> Calls \cup {"empty", "closed"}]
  /\ seq \in [Askers -> Nat]
  /\ pending \in [Askers -> SUBSET Calls]
  /\ slot \in [Askers -> Calls \cup {NoCall}]
  /\ mount \in Askers /\ tool \in 1 .. mount
  /\ answerer \in 0 .. mount
  /\ vm \in Calls \cup {NoCall} /\ hlAsk \in Calls \cup {NoCall}
  /\ arm \in Calls \cup {NoCall}
  /\ events \in Seq(EventT) /\ out \in Seq(EventT) /\ inp \in Seq(LineT)
  /\ pump \in PumpT /\ posts \subseteq PostT
  /\ asked \subseteq Calls /\ closed \subseteq asked /\ stopped \subseteq Calls
  /\ kid \in {"up", "dead", "gone"}
  /\ owed \in BOOLEAN /\ strayed \in BOOLEAN

\* What is left of a remount says whether the ask row is mounted.
Unbuilt ==
  {<<"build", "provide", "uiUp">>, <<"build", "provide", "uiDown", "uiUp">>}
Building ==
  Unbuilt \cup {<<"uiDown", "dispose", "build", "provide", "uiUp">>,
                <<"dispose", "build", "provide", "uiUp">>,
                <<"dispose", "build", "provide", "uiDown", "uiUp">>}
Withdrawn ==
  Unbuilt \cup {<<"provide", "uiUp">>, <<"provide", "uiDown", "uiUp">>}
RowsLeft == Building \cup Withdrawn \cup {<<>>, <<"uiUp">>, <<"uiDown", "uiUp">>}

RowsInStep ==
  /\ rows \in RowsLeft
  /\ rows # <<>> => kid = "up"
  /\ rows \in Building => mount < MaxMounts
  /\ service = IF kid = "up" /\ rows \notin Withdrawn THEN mount ELSE 0

\* A dead process leaves nothing behind, and its successor has newer Askers.
Buried(q) ==
  /\ kid = "up" => call[q].mount < mount
  /\ answerer # 0 => call[q].mount < answerer
  /\ pump.at = "answer" => pump.to = 0 \/ call[q].mount < pump.to
DeadAreGone ==
  /\ kid # "up" => Busy = {} /\ answerer = 0 /\ pump.at = "idle" /\ events = <<>>
  /\ pump.at = "answer" => pump.to <= mount
  /\ \A q \in Calls : call[q].at = "dead" => Buried(q)

\* The exit is the last line of a process.
ExitLast ==
  /\ \A i \in 1 .. Len(events) : events[i].kind # "exit"
  /\ \A i \in 1 .. Len(out) : out[i].kind = "exit" => kid = "dead" /\ i = Len(out)

\* Where a call stands says whether its question has an id, and is recorded.
Asking == {"placed", "waiting", "answered", "failing", "failed"}
CallsInStep ==
  \A q \in Calls :
    /\ call[q].mount <= mount
    /\ call[q].at # "idle" => call[q].mount # 0
    /\ call[q].at \in {"idle", "queued", "putting"} => call[q].id = 0
    /\ call[q].at \in Asking => call[q].id # 0
    /\ call[q].at \in Asking \ {"placed"} => q \in asked
    /\ q \in asked => call[q].id # 0 /\ call[q].at # "placed"
    /\ call[q].id # 0 /\ q \notin asked => call[q].at \in {"placed", "dead"}
    /\ \A m \in Askers : q \in pending[m] => call[q].mount = m /\ call[q].id # 0

\* The ids of an Asker count up, and those of a later one go on after the
\* questions recorded before it.
Numbered == {q \in Calls : call[q].id # 0}
After(p) ==
  /\ \A m \in Askers : call[p].mount <= m /\ m <= mount => call[p].id <= seq[m]
  /\ \A q \in Numbered : call[p].mount < call[q].mount => call[p].id < call[q].id
IdsUp ==
  /\ \A m \in Askers : seq[m] <= Cardinality(Numbered)
  /\ \A q \in Numbered : call[q].id <= seq[call[q].mount]
  /\ \A p, q \in Numbered :
       p # q /\ call[p].mount = call[q].mount => call[p].id # call[q].id
  /\ ~strayed => \A p \in asked : After(p)

\* A line for the child says the id of the question it was written for.
Written(l) == l.for \in asked /\ l.id = Id(l.for)
LinesWritten ==
  /\ \A i \in 1 .. Len(inp) : Written(inp[i])
  /\ \A p \in posts : Written(p)
  /\ pump.at # "idle" => Written(pump.line)

\* What a call is told, or is about to be, was written for its question.
ToldOwn ==
  ~strayed =>
    /\ \A q \in Calls : box[q] \in Calls => box[q] = q
    /\ pump.at = "send" => pump.line.for = pump.to
    /\ \A m \in Askers : \A q \in pending[m] :
         q \in asked \/ m = service \/ call[q].at = "dead"

IInv ==
  /\ Typed /\ RowsInStep /\ DeadAreGone /\ ExitLast /\ CallsInStep /\ IdsUp
  /\ LinesWritten /\ ToldOwn

----------------------------------------------------------------------------
(* The arm, when the calls are all of one kind.                            *)

OneKind == \A s \in Scenes : \A p, q \in Calls : s.kind[p] = s.kind[q]

\* Native calls and approvals take turns by their slot, blocks by the VM.
InSlot == {"putting", "placed", "waiting", "answered", "failing", "failed"}
OneAsks ==
  /\ \A p, q \in Calls : kind[p] = kind[q]
  /\ \A q \in Calls : call[q].at \in InSlot /\ TakesSlot(q) => slot[call[q].mount] = q
  /\ \A p, q \in Busy : p # q => TakesSlot(p)

\* Events and the arm name recorded questions; an arm that is given back
\* names a question of the dead process.
AskedFirst ==
  /\ \A i \in 1 .. Len(events) : events[i].kind \in {"ask", "end"} => events[i].of \in asked
  /\ \A i \in 1 .. Len(out) : out[i].kind \in {"ask", "end"} => out[i].of \in asked
  /\ arm # NoCall => arm \in asked
  /\ \A p \in posts :
       /\ p.at = "broken" => call[p.for].at \in {"dead", "over"}
       /\ p.at = "write" => kid = "up"

\* An event after which the arm stays where it is, on q.
Spares(c, k, q, e) ==
  /\ e.kind = "ask" => e.of = q
  /\ e.kind \notin {"done", "exit"}
  /\ e.kind = "end" => c[e.of].id # c[q].id
  /\ e.kind = "result" => k[q] = "native"
  /\ e.kind = "call" => k[q] = "native" /\ e.of # q
AllSpare(c, k, q, s) == \A i \in 1 .. Len(s) : Spares(c, k, q, s[i])
Shown(q, s) == \E j \in 1 .. Len(s) : s[j] = Event("ask", q)
SpareOnceShown(c, k, q, s) ==
  \A i \in 1 .. Len(s), j \in 1 .. Len(s) :
    s[j] = Event("ask", q) /\ j < i => Spares(c, k, q, s[i])

\* A question that waits keeps its arm over all that is still to be read
\* behind it.
Waits(q) == call[q].at = "waiting" /\ q \in pending[call[q].mount]
ArmOf(q) ==
  /\ call[q].mount = service /\ q \notin closed
  /\ SpareOnceShown(call, kind, q, out) /\ SpareOnceShown(call, kind, q, events)
  /\ arm = q => AllSpare(call, kind, q, out)
  /\ arm = q \/ Shown(q, out) => AllSpare(call, kind, q, events)
ArmSafe == ~strayed => \A q \in Calls : Waits(q) => ArmOf(q)

KInv == IInv /\ OneAsks /\ AskedFirst /\ ArmSafe

----------------------------------------------------------------------------
(* Lemmas about the operators.                                             *)

LEMMA MaxExists ==
  ASSUME NEW m \in Nat, NEW S, S \subseteq 0 .. m, S # {}
  PROVE  \E x \in S : \A y \in S : x >= y
<1> DEFINE T == {t \in Nat : m - t \in S}
<1>1. T \subseteq Nat /\ T # {}
  <2>1. PICK x \in S : TRUE
    OBVIOUS
  <2>2. x \in 0 .. m /\ m - (m - x) = x /\ m - x \in Nat
    OBVIOUS
  <2>3. m - x \in T
    BY <2>2
  <2> QED BY <2>3
<1>2. PICK t \in T : \A u \in T : <<u, t>> \notin OpToRel(<, Nat)
  BY <1>1, NatLessThanWellFounded, WFMin
<1>3. \A u \in T : ~(u < t)
  BY <1>1, <1>2 DEF OpToRel
<1>4. ASSUME NEW y \in S PROVE m - t >= y
  <2>1. y \in 0 .. m /\ m - (m - y) = y /\ m - y \in Nat
    OBVIOUS
  <2>2. m - y \in T
    BY <2>1
  <2>3. ~(m - y < t)
    BY <1>3, <2>2
  <2> QED BY <2>1, <2>3
<1> QED BY <1>4

LEMMA CallIs ==
  ASSUME Typed, NEW q \in Calls
  PROVE  /\ call[q] \in CallT /\ call[q].at \in Places /\ call[q].mount \in 0 .. MaxMounts
         /\ call[q].id \in Nat /\ DOMAIN call = Calls
  BY DEF Typed, CallT

LEMMA Mounts == MaxMounts \in Nat /\ MaxMounts > 0 /\ Askers = 1 .. MaxMounts
  BY AskAssumption DEF Askers

\* The highest id recorded is one that was given.
LEMMA LastAskIs ==
  ASSUME Typed, IdsUp, CallsInStep
  PROVE  /\ LastAskSeq \in Nat /\ LastAskSeq <= Cardinality(Numbered)
         /\ Cardinality(Numbered) \in Nat
         /\ \A q \in asked : call[q].id <= LastAskSeq
<1>1. IsFiniteSet(Numbered) /\ Cardinality(Numbered) \in Nat
  <2>1. Numbered \subseteq Calls
    BY DEF Numbered
  <2> QED BY <2>1, AskAssumption, FS_Subset, FS_CardinalityType
<1>2. \A q \in Numbered : call[q].id \in 0 .. Cardinality(Numbered)
  <2> TAKE q \in Numbered
  <2>1. q \in Calls /\ call[q].id \in Nat /\ call[q].id # 0 /\ call[q].mount \in Askers
    <3>1. q \in Calls /\ call[q].id # 0
      BY DEF Numbered
    <3>2. call[q].at # "idle" /\ call[q].mount # 0
      BY <3>1 DEF CallsInStep
    <3> QED BY <3>1, <3>2, CallIs, Mounts
  <2>2. seq[call[q].mount] \in Nat
    BY <2>1 DEF Typed
  <2> QED BY <1>1, <2>1, <2>2 DEF IdsUp
<1>3. \A q \in asked : q \in Numbered
  BY DEF Typed, CallsInStep, Numbered
<1>4. CASE asked = {}
  BY <1>1, <1>4 DEF LastAskSeq
<1>5. CASE asked # {}
  <2> DEFINE S == {Id(q) : q \in asked}
  <2>1. S \subseteq 0 .. Cardinality(Numbered) /\ S # {}
    BY <1>2, <1>3, <1>5 DEF Id
  <2>2. PICK x \in S : \A y \in S : x >= y
    BY <1>1, <2>1, MaxExists
  <2>3. \E n \in S : \A q \in asked : Id(q) <= n
    BY <1>1, <2>1, <2>2
  <2>4. LastAskSeq \in S /\ \A q \in asked : Id(q) <= LastAskSeq
    BY <1>5, <2>3 DEF LastAskSeq
  <2> QED BY <1>1, <2>1, <2>4 DEF Id
<1> QED BY <1>4, <1>5

LEMMA RoutedIs ==
  ASSUME NEW q \in Calls \cup {NoCall}, NEW e \in EventT
  PROVE  Routed(q, e) \in Calls \cup {NoCall}
  BY DEF Routed, EventT

LEMMA HeadTail ==
  ASSUME NEW C, NEW s \in Seq(C), s # <<>>
  PROVE  Head(s) \in C /\ Tail(s) \in Seq(C)
  OBVIOUS

LEMMA Appends ==
  ASSUME NEW C, NEW s \in Seq(C), NEW c \in C
  PROVE  Append(s, c) \in Seq(C)
  OBVIOUS

LEMMA EmitTyped ==
  ASSUME Typed, NEW e \in EventT, Emit(e)
  PROVE  events' \in Seq(EventT)
  BY DEF Typed, Emit

LEMMA AtTyped ==
  ASSUME Typed, NEW q \in Calls, NEW pc \in Places, At(q, pc)
  PROVE  call' \in [Calls -> CallT]
  BY DEF Typed, At, CallT

----------------------------------------------------------------------------
(* A remount's steps.                                                      *)

LEMMA PlansDiffer ==
  /\ \A r \in Building : Len(r) \in {3, 4, 5} /\ (Len(r) = 3 => r[1] = "build")
  /\ \A r \in Withdrawn : Len(r) # 1 /\ Len(r) # 0 /\ r[1] \in {"build", "provide"}
  BY DEF Building, Withdrawn, Unbuilt

LEMMA NoRows == <<>> \in RowsLeft /\ <<>> \notin Building /\ <<>> \notin Withdrawn
<1>1. Len(<<>>) = 0
  OBVIOUS
<1>2. <<>> \notin Building /\ <<>> \notin Withdrawn
  BY <1>1, PlansDiffer
<1> QED BY <1>2 DEF RowsLeft

\* What a step h of a plan r leaves, t.
Leaves(r, h, t) ==
  /\ t \in RowsLeft
  /\ h = "dispose" => r \in Building /\ r \notin Withdrawn /\ t \in Unbuilt
  /\ h = "build" => r \in Unbuilt /\ t \in Withdrawn /\ t \notin Building
  /\ h = "provide" => r \in Withdrawn /\ t \notin Building /\ t \notin Withdrawn
  /\ h = "uiDown" => /\ r \notin Withdrawn /\ t \notin Withdrawn
                     /\ t \in Building => r \in Building
  /\ h = "uiUp" => r \notin Withdrawn /\ t = <<>>

LEMMA PlanSteps ==
  ASSUME NEW r \in RowsLeft, r # <<>>
  PROVE  Leaves(r, Head(r), Tail(r))
<1>1. CASE r = <<"build", "provide", "uiUp">>
  <2> DEFINE t == <<"provide", "uiUp">>
  <2>1. Head(r) = "build" /\ r[1] = "build" /\ Tail(r) = t
    BY <1>1
  <2>2. t \in RowsLeft /\ t \in Withdrawn
    BY DEF RowsLeft, Building, Withdrawn, Unbuilt
  <2>3. Len(t) = 2 /\ t[1] = "provide"
    OBVIOUS
  <2>4. r \in Unbuilt /\ r \in Building /\ r \in Withdrawn
    BY <1>1 DEF Building, Withdrawn, Unbuilt
  <2> HIDE DEF t
  <2>5. t \notin Building
    BY <2>3, PlansDiffer
  <2>8. Leaves(r, "build", t)
    BY <2>2, <2>4, <2>5 DEF Leaves
  <2> QED BY <2>1, <2>8
<1>2. CASE r = <<"build", "provide", "uiDown", "uiUp">>
  <2> DEFINE t == <<"provide", "uiDown", "uiUp">>
  <2>1. Head(r) = "build" /\ r[1] = "build" /\ Tail(r) = t
    BY <1>2
  <2>2. t \in RowsLeft /\ t \in Withdrawn
    BY DEF RowsLeft, Building, Withdrawn, Unbuilt
  <2>3. Len(t) = 3 /\ t[1] = "provide"
    OBVIOUS
  <2>4. r \in Unbuilt /\ r \in Building /\ r \in Withdrawn
    BY <1>2 DEF Building, Withdrawn, Unbuilt
  <2> HIDE DEF t
  <2>5. t \notin Building
    BY <2>3, PlansDiffer
  <2>8. Leaves(r, "build", t)
    BY <2>2, <2>4, <2>5 DEF Leaves
  <2> QED BY <2>1, <2>8
<1>3. CASE r = <<"uiDown", "dispose", "build", "provide", "uiUp">>
  <2> DEFINE t == <<"dispose", "build", "provide", "uiUp">>
  <2>1. Head(r) = "uiDown" /\ r[1] = "uiDown" /\ Tail(r) = t
    BY <1>3
  <2>2. t \in RowsLeft /\ t \in Building
    BY DEF RowsLeft, Building, Withdrawn, Unbuilt
  <2>3. Len(t) = 4 /\ t[1] = "dispose"
    OBVIOUS
  <2>4. r \in Building
    BY <1>3 DEF Building, Withdrawn, Unbuilt
  <2> HIDE DEF t
  <2>5. t \notin Withdrawn
    BY <2>3, PlansDiffer
  <2>6. r \notin Withdrawn
    BY <2>1, PlansDiffer
  <2>8. Leaves(r, "uiDown", t)
    BY <2>2, <2>4, <2>5, <2>6 DEF Leaves
  <2> QED BY <2>1, <2>8
<1>4. CASE r = <<"dispose", "build", "provide", "uiUp">>
  <2> DEFINE t == <<"build", "provide", "uiUp">>
  <2>1. Head(r) = "dispose" /\ r[1] = "dispose" /\ Tail(r) = t
    BY <1>4
  <2>2. t \in RowsLeft /\ t \in Unbuilt /\ t \in Building /\ t \in Withdrawn
    BY DEF RowsLeft, Building, Withdrawn, Unbuilt
  <2>4. r \in Building
    BY <1>4 DEF Building, Withdrawn, Unbuilt
  <2> HIDE DEF t
  <2>6. r \notin Withdrawn
    BY <2>1, PlansDiffer
  <2>8. Leaves(r, "dispose", t)
    BY <2>2, <2>4, <2>6 DEF Leaves
  <2> QED BY <2>1, <2>8
<1>5. CASE r = <<"dispose", "build", "provide", "uiDown", "uiUp">>
  <2> DEFINE t == <<"build", "provide", "uiDown", "uiUp">>
  <2>1. Head(r) = "dispose" /\ r[1] = "dispose" /\ Tail(r) = t
    BY <1>5
  <2>2. t \in RowsLeft /\ t \in Unbuilt /\ t \in Building /\ t \in Withdrawn
    BY DEF RowsLeft, Building, Withdrawn, Unbuilt
  <2>4. r \in Building
    BY <1>5 DEF Building, Withdrawn, Unbuilt
  <2> HIDE DEF t
  <2>6. r \notin Withdrawn
    BY <2>1, PlansDiffer
  <2>8. Leaves(r, "dispose", t)
    BY <2>2, <2>4, <2>6 DEF Leaves
  <2> QED BY <2>1, <2>8
<1>6. CASE r = <<"provide", "uiUp">>
  <2> DEFINE t == <<"uiUp">>
  <2>1. Head(r) = "provide" /\ r[1] = "provide" /\ Tail(r) = t
    BY <1>6
  <2>2. t \in RowsLeft
    BY DEF RowsLeft, Building, Withdrawn, Unbuilt
  <2>3. Len(t) = 1 /\ t[1] = "uiUp"
    OBVIOUS
  <2>4. r \in Withdrawn
    BY <1>6 DEF Building, Withdrawn, Unbuilt
  <2> HIDE DEF t
  <2>5. t \notin Building /\ t \notin Withdrawn
    BY <2>3, PlansDiffer
  <2>8. Leaves(r, "provide", t)
    BY <2>2, <2>4, <2>5 DEF Leaves
  <2> QED BY <2>1, <2>8
<1>7. CASE r = <<"provide", "uiDown", "uiUp">>
  <2> DEFINE t == <<"uiDown", "uiUp">>
  <2>1. Head(r) = "provide" /\ r[1] = "provide" /\ Tail(r) = t
    BY <1>7
  <2>2. t \in RowsLeft
    BY DEF RowsLeft, Building, Withdrawn, Unbuilt
  <2>3. Len(t) = 2 /\ t[1] = "uiDown"
    OBVIOUS
  <2>4. r \in Withdrawn
    BY <1>7 DEF Building, Withdrawn, Unbuilt
  <2> HIDE DEF t
  <2>5. t \notin Building /\ t \notin Withdrawn
    BY <2>3, PlansDiffer
  <2>8. Leaves(r, "provide", t)
    BY <2>2, <2>4, <2>5 DEF Leaves
  <2> QED BY <2>1, <2>8
<1>8. CASE r = <<"uiUp">>
  <2> DEFINE t == <<>>
  <2>1. Head(r) = "uiUp" /\ r[1] = "uiUp" /\ Tail(r) = t
    BY <1>8
  <2>2. t \in RowsLeft
    BY DEF RowsLeft, Building, Withdrawn, Unbuilt
  <2>3. Len(t) = 0
    OBVIOUS
  <2> HIDE DEF t
  <2>5. t \notin Building /\ t \notin Withdrawn
    BY <2>3, PlansDiffer
  <2>6. r \notin Withdrawn
    BY <2>1, PlansDiffer
  <2>7. t = <<>>
    BY DEF t
  <2>8. Leaves(r, "uiUp", t)
    BY <2>2, <2>5, <2>6, <2>7 DEF Leaves
  <2> QED BY <2>1, <2>8
<1>9. CASE r = <<"uiDown", "uiUp">>
  <2> DEFINE t == <<"uiUp">>
  <2>1. Head(r) = "uiDown" /\ r[1] = "uiDown" /\ Tail(r) = t
    BY <1>9
  <2>2. t \in RowsLeft
    BY DEF RowsLeft, Building, Withdrawn, Unbuilt
  <2>3. Len(t) = 1 /\ t[1] = "uiUp"
    OBVIOUS
  <2> HIDE DEF t
  <2>5. t \notin Building /\ t \notin Withdrawn
    BY <2>3, PlansDiffer
  <2>6. r \notin Withdrawn
    BY <2>1, PlansDiffer
  <2>8. Leaves(r, "uiDown", t)
    BY <2>2, <2>5, <2>6 DEF Leaves
  <2> QED BY <2>1, <2>8
<1> QED BY <1>1, <1>2, <1>3, <1>4, <1>5, <1>6, <1>7, <1>8, <1>9 DEF RowsLeft, Building, Withdrawn, Unbuilt

LEMMA PlansAre ==
  ASSUME NEW r \in Plans
  PROVE  /\ r \in RowsLeft /\ r \notin Withdrawn /\ r # <<>>
         /\ r \in Building => Contains(r, "build")
<1>1. r[1] \in {"uiDown", "dispose"} /\ Len(r) > 0
  BY DEF Plans
<1>2. r \notin Withdrawn /\ r # <<>>
  BY <1>1, PlansDiffer
<1>3. r \in RowsLeft
  BY DEF Plans, RowsLeft, Building
<1>4. CASE r = <<"uiDown", "uiUp">>
  <2>1. Len(r) = 2
    BY <1>4
  <2>2. r \notin Building
    BY <2>1, PlansDiffer
  <2> QED BY <1>2, <1>3, <2>2
<1>5. CASE r = <<"uiDown", "dispose", "build", "provide", "uiUp">>
  <2>1. 3 \in 1 .. Len(r) /\ r[3] = "build"
    BY <1>5
  <2> QED BY <1>2, <1>3, <2>1 DEF Contains
<1>6. CASE r = <<"dispose", "build", "provide", "uiDown", "uiUp">>
  <2>1. 2 \in 1 .. Len(r) /\ r[2] = "build"
    BY <1>6
  <2> QED BY <1>2, <1>3, <2>1 DEF Contains
<1> QED BY <1>4, <1>5, <1>6 DEF Plans

----------------------------------------------------------------------------
(* The types.                                                              *)

LEMMA Budgets ==
  ASSUME Typed, NEW what \in Whats, Spend(what)
  PROVE  budget' \in [Whats -> Nat]
  BY DEF Typed, Spend

LEMMA Heads ==
  ASSUME Typed
  PROVE  /\ events # <<>> => Head(events) \in EventT /\ Tail(events) \in Seq(EventT)
         /\ out # <<>> => Head(out) \in EventT /\ Tail(out) \in Seq(EventT)
         /\ inp # <<>> => Head(inp) \in LineT /\ Tail(inp) \in Seq(LineT)
  BY HeadTail DEF Typed

LEMMA EventsTyped ==
  ASSUME NEW k \in {"ask", "end", "result", "call", "done", "exit"}, NEW q \in Calls \cup {NoCall}
  PROVE  Event(k, q) \in EventT
  BY DEF Event, EventT

LEMMA TypedStep ==
  ASSUME IInv, [Next]_vars
  PROVE  Typed'
<1>a. Typed /\ RowsInStep /\ DeadAreGone /\ CallsInStep /\ IdsUp /\ LinesWritten
  BY DEF IInv
<1>b. /\ MaxMounts \in Nat /\ Askers = 1 .. MaxMounts /\ mount \in 1 .. MaxMounts
      /\ kid \in {"up", "dead", "gone"} /\ service \in 0 .. mount
  BY <1>a, Mounts DEF Typed, RowsInStep
<1>c. ASSUME NEW q \in Calls, call[q].at # "idle" PROVE call[q].mount \in Askers
  BY <1>a, <1>b, <1>c, CallIs DEF CallsInStep
<1>1. ASSUME NEW q \in Calls, StartCall(q) PROVE Typed'
  <2>1. service \in 0 .. MaxMounts /\ tool \in 0 .. MaxMounts
    BY <1>a, <1>b DEF Typed
  <2>2. PICK pc \in Places, m \in 0 .. MaxMounts :
          call' = [call EXCEPT ![q].at = pc, ![q].mount = m]
    BY <1>1, <2>1 DEF StartCall, Places
  <2>3. call' \in [Calls -> CallT]
    BY <1>a, <2>2 DEF Typed, CallT
  <2>4. vm' \in Calls \cup {NoCall} /\ owed' \in BOOLEAN
    BY <1>1, <1>a DEF Typed, StartCall
  <2> QED BY <1>1, <1>a, <2>3, <2>4 DEF Typed, StartCall, asker, router, history, serve
<1>2. ASSUME NEW q \in Calls, TakeSlot(q) PROVE Typed'
  <2>1. call' \in [Calls -> CallT]
    <3>1. At(q, "putting") \/ At(q, "left")
      BY <1>2 DEF TakeSlot
    <3> QED BY <1>a, <3>1, AtTyped DEF Places
  <2>2. slot' \in [Askers -> Calls \cup {NoCall}]
    <3>1. slot' = slot \/ slot' = [slot EXCEPT ![call[q].mount] = q]
      BY <1>2 DEF TakeSlot
    <3> QED BY <1>a, <3>1 DEF Typed
  <2>3. UNCHANGED <<kind, box, seq, pending, mount, kernel, router, inp, out,
                    history, owed, stopped, serve, strayed, budget>>
    BY <1>2 DEF TakeSlot
  <2> QED BY <1>a, <2>1, <2>2, <2>3 DEF Typed, kernel, router, history, serve
<1>3. ASSUME NEW q \in Calls, Register(q) PROVE Typed'
  <2>1. call[q].mount \in Askers
    BY <1>3, <1>c DEF Register
  <2>2. seq' \in [Askers -> Nat] /\ seq'[call[q].mount] \in Nat
    BY <1>3, <1>a, <2>1 DEF Typed, Register
  <2>3. pending' \in [Askers -> SUBSET Calls]
    BY <1>3, <1>a, <2>1 DEF Typed, Register
  <2>4. call' \in [Calls -> CallT]
    <3>1. PICK n \in Nat : call' = [call EXCEPT ![q].at = "placed", ![q].id = n]
      BY <1>3, <2>2 DEF Register
    <3> QED BY <1>a, <3>1 DEF Typed, CallT, Places
  <2>5. strayed' \in BOOLEAN
    BY <1>3, <1>a DEF Typed, Register
  <2>6. UNCHANGED <<kind, box, slot, mount, kernel, router, inp, out, history,
                    owed, stopped, serve, budget>>
    BY <1>3 DEF Register
  <2> QED BY <1>a, <2>2, <2>3, <2>4, <2>5, <2>6 DEF Typed, kernel, router, history, serve
<1>4. ASSUME NEW q \in Calls, Announce(q) PROVE Typed'
  <2>1. call' \in [Calls -> CallT]
    <3>1. At(q, "waiting")
      BY <1>4 DEF Announce
    <3> QED BY <1>a, <3>1, AtTyped DEF Places
  <2>2. events' \in Seq(EventT)
    BY <1>4, <1>a, EventsTyped, EmitTyped DEF Announce
  <2>3. asked' \subseteq Calls /\ closed' \subseteq asked' /\ vm' \in Calls \cup {NoCall}
    BY <1>4, <1>a DEF Typed, Announce
  <2>4. strayed' \in BOOLEAN
    BY <1>4, <1>a DEF Typed, Announce
  <2> QED BY <1>4, <1>a, <2>1, <2>2, <2>3, <2>4 DEF Typed, Announce, asker, serve
<1>5. ASSUME NEW q \in Calls, Choose(q) PROVE Typed'
  <2>1. call' \in [Calls -> CallT]
    <3>1. At(q, "answered") \/ At(q, "failing")
      BY <1>5 DEF Choose
    <3> QED BY <1>a, <3>1, AtTyped DEF Places
  <2> QED BY <1>5, <1>a, <2>1 DEF Typed, Choose, asker, kernel, router, history, serve
<1>6. ASSUME NEW q \in Calls, GiveUp(q) PROVE Typed'
  <2>1. call' \in [Calls -> CallT]
    <3>1. At(q, "failed")
      BY <1>6 DEF GiveUp
    <3> QED BY <1>a, <3>1, AtTyped DEF Places
  <2>2. events' \in Seq(EventT)
    BY <1>6, <1>a, EventsTyped, EmitTyped DEF GiveUp
  <2>3. pending' \in [Askers -> SUBSET Calls]
    BY <1>6, <1>a DEF Typed, GiveUp
  <2> QED BY <1>6, <1>a, <2>1, <2>2, <2>3 DEF Typed, GiveUp, kernel, history, serve
<1>7. ASSUME NEW q \in Calls, Leave(q) PROVE Typed'
  <2>1. call' \in [Calls -> CallT]
    <3>1. At(q, "left")
      BY <1>7 DEF Leave
    <3> QED BY <1>a, <3>1, AtTyped DEF Places
  <2>2. slot' \in [Askers -> Calls \cup {NoCall}] /\ vm' \in Calls \cup {NoCall}
    BY <1>7, <1>a DEF Typed, Leave
  <2> QED BY <1>7, <1>a, <2>1, <2>2 DEF Typed, Leave, router, history, serve
<1>8. ASSUME NEW q \in Calls, RecordEnd(q) PROVE Typed'
  <2>1. call' \in [Calls -> CallT]
    <3>1. At(q, "over")
      BY <1>8 DEF RecordEnd
    <3> QED BY <1>a, <3>1, AtTyped DEF Places
  <2>2. \A k \in {"call", "result"} : Event(k, q) \in EventT
    BY EventsTyped
  <2>3. events' \in Seq(EventT) /\ closed' \subseteq asked
    <3>1. CASE kind[q] = "rule"
      BY <1>8, <1>a, <3>1 DEF RecordEnd, Typed
    <3>2. CASE kind[q] # "rule"
      <4>1. PICK e \in EventT : closed' = closed \cup Closes(e) /\ Emit(e)
        BY <1>8, <2>2, <3>2 DEF RecordEnd
      <4> QED BY <1>a, <4>1, EmitTyped DEF Typed, Closes
    <3> QED BY <3>1, <3>2
  <2>4. vm' \in Calls \cup {NoCall} /\ asked' = asked
    BY <1>8, <1>a DEF Typed, RecordEnd
  <2> QED BY <1>8, <1>a, <2>1, <2>3, <2>4 DEF Typed, RecordEnd, asker, serve
<1>9. CASE TurnDone
  <2>1. events' \in Seq(EventT)
    BY <1>9, <1>a, EventsTyped, EmitTyped DEF TurnDone
  <2> QED BY <1>9, <1>a, <2>1 DEF Typed, TurnDone, asker, kernel, serve
<1>10. CASE StopTurn
  <2>1. budget' \in [Whats -> Nat] /\ stopped' \subseteq Calls
    BY <1>10, <1>a, Budgets DEF StopTurn, Busy, Typed, Whats
  <2> QED BY <1>10, <1>a, <2>1 DEF Typed, StopTurn, asker, kernel, router, history, serve
<1>11. CASE Reload
  <2>1. budget' \in [Whats -> Nat]
    BY <1>11, <1>a, Budgets DEF Reload, Whats
  <2> QED BY <1>11, <1>a, <2>1 DEF Typed, Reload, asker, router, history, serve
<1>12. CASE Dispose
  <2>1. box' \in [Calls -> Calls \cup {"empty", "closed"}]
    BY <1>12, <1>a DEF Typed, Dispose
  <2>2. pending' \in [Askers -> SUBSET Calls]
    BY <1>12, <1>a DEF Typed, Dispose
  <2> QED BY <1>12, <1>a, <2>1, <2>2 DEF Typed, Dispose, router, history, serve
<1>13. CASE Build
  <2>1. rows \in Building
    <3>1. rows \in RowsLeft /\ rows # <<>> /\ Head(rows) = "build"
      BY <1>13, <1>a DEF Build, RowStep, RowsInStep
    <3>2. Leaves(rows, "build", Tail(rows))
      BY <3>1, PlanSteps
    <3> QED BY <3>2 DEF Leaves, Building
  <2>2. mount' \in Askers /\ mount' = mount + 1 /\ mount < MaxMounts
    BY <1>13, <1>a, <1>b, <2>1 DEF Build, RowsInStep
  <2>3. seq' \in [Askers -> Nat]
    BY <1>13, <1>a, <2>2, LastAskIs DEF Typed, Build
  <2>4. tool \in 1 .. mount' /\ answerer \in 0 .. mount'
    BY <1>a, <1>b, <2>2 DEF Typed
  <2> QED BY <1>13, <1>a, <2>2, <2>3, <2>4 DEF Typed, Build, router, history, serve
<1>14. CASE Provide
  <2>1. tool' \in 1 .. mount
    BY <1>14, <1>b DEF Provide
  <2> QED BY <1>14, <1>a, <2>1 DEF Typed, Provide, asker, router, history, serve
<1>15. CASE UiDown
  BY <1>15, <1>a, <1>b DEF Typed, UiDown, asker, history, serve
<1>16. CASE UiUp
  BY <1>16, <1>a, <1>b DEF Typed, UiUp, asker, history, serve
<1>17. CASE HlPrint
  <2>1. Head(events) \in EventT /\ Tail(events) \in Seq(EventT)
    BY <1>17, <1>a, Heads DEF HlPrint
  <2>2. out' \in Seq(EventT) /\ events' \in Seq(EventT) /\ hlAsk' \in Calls \cup {NoCall}
    BY <1>17, <1>a, <2>1, RoutedIs, Appends DEF HlPrint, Typed
  <2> QED BY <1>17, <1>a, <2>2 DEF Typed, HlPrint, asker, kernel, history, serve
<1>18. CASE ReadLine
  <2>1. Head(inp) \in LineT /\ Tail(inp) \in Seq(LineT) /\ answerer \in 0 .. MaxMounts
    BY <1>18, <1>a, <1>b, Heads DEF ReadLine, Typed
  <2>2. pump' \in PumpT /\ inp' \in Seq(LineT) /\ hlAsk' \in Calls \cup {NoCall}
    BY <1>18, <1>a, <2>1 DEF ReadLine, Typed, PumpT
  <2> QED BY <1>18, <1>a, <2>2 DEF Typed, ReadLine, asker, kernel, history, serve
<1>19. CASE Answer
  <2> DEFINE m == IF pump.to # 0 THEN pump.to ELSE answerer
             held == {q \in pending[m] : Id(q) = pump.line.id}
  <2>1. pump.line \in LineT /\ m \in Askers
    BY <1>19, <1>a, <1>b DEF Answer, Typed, PumpT
  <2>2. pending[m] \subseteq Calls /\ held \subseteq Calls
    BY <1>a, <2>1 DEF Typed
  <2>3. pending' = [pending EXCEPT ![m] = @ \ held]
        /\ closed' = closed \cup UNION {SameId(q) : q \in held}
        /\ pump' = IF held = {} THEN [at |-> "idle"]
                   ELSE [at |-> "send", line |-> pump.line, to |-> CHOOSE q \in held : TRUE]
    BY <1>19 DEF Answer
  <2> HIDE DEF held, m
  <2>4. pending' \in [Askers -> SUBSET Calls]
    BY <1>a, <2>1, <2>3 DEF Typed
  <2>5. closed' \subseteq asked
    BY <1>a, <2>2, <2>3 DEF Typed, SameId
  <2>6. pump' \in PumpT
    <3>1. held # {} => (CHOOSE q \in held : TRUE) \in Calls
      BY <2>2
    <3> QED BY <2>1, <2>3, <3>1 DEF PumpT
  <2> QED BY <1>19, <1>a, <2>4, <2>5, <2>6 DEF Typed, Answer, kernel, serve
<1>20. CASE Send
  <2>1. pump.line.for \in Calls /\ pump.to \in Calls
    BY <1>20, <1>a DEF Send, Typed, PumpT, LineT
  <2>2. box' \in [Calls -> Calls \cup {"empty", "closed"}] /\ pump' \in PumpT
    BY <1>20, <1>a, <2>1 DEF Send, Typed, PumpT
  <2> QED BY <1>20, <1>a, <2>2 DEF Typed, Send, asker, kernel, history, serve
<1>21. CASE Scan
  <2>1. Head(out) \in EventT /\ Tail(out) \in Seq(EventT)
    BY <1>21, <1>a, Heads DEF Scan
  <2>2. out' \in Seq(EventT) /\ arm' \in Calls \cup {NoCall} /\ kid' \in {"up", "dead", "gone"}
    BY <1>21, <1>a, <2>1, RoutedIs DEF Scan, Typed
  <2> QED BY <1>21, <1>a, <2>2 DEF Typed, Scan, asker, kernel, router, history
<1>22. CASE PendingAsk
  BY <1>22, <1>a DEF Typed, PendingAsk, Refresh, asker, kernel, router, history
<1>23. ASSUME NEW q \in Calls, PostAnswer(q) PROVE Typed'
  <2>1. budget' \in [Whats -> Nat] /\ arm' \in Calls \cup {NoCall} /\ budget["posts"] \in Nat
    BY <1>23, <1>a, Budgets DEF PostAnswer, Refresh, Typed, Whats
  <2>2. call[q].id \in Nat
    BY <1>a, CallIs
  <2>3. [at |-> "claim", n |-> budget["posts"], id |-> Id(q), for |-> q] \in PostT
    BY <2>1, <2>2 DEF PostT, Id
  <2>4. posts' \subseteq PostT
    BY <1>23, <1>a, <2>3 DEF PostAnswer, Typed
  <2> QED BY <1>23, <1>a, <2>1, <2>4 DEF Typed, PostAnswer, asker, kernel, router, history
<1>24. ASSUME NEW p \in posts, ClaimArm(p) PROVE Typed'
  <2>1. p \in PostT /\ Pipe \in {"write", "broken"}
    BY <1>a DEF Typed, Pipe
  <2>2. [p EXCEPT !.at = Pipe] \in PostT
    BY <2>1 DEF PostT
  <2>3. posts' \subseteq PostT /\ arm' \in Calls \cup {NoCall}
    BY <1>24, <1>a, <2>2 DEF ClaimArm, Typed
  <2> QED BY <1>24, <1>a, <2>3 DEF Typed, ClaimArm, asker, kernel, router, history
<1>25. ASSUME NEW p \in posts, WriteAnswer(p) PROVE Typed'
  <2>1. p \in PostT
    BY <1>a DEF Typed
  <2>2. [id |-> p.id, for |-> p.for] \in LineT /\ p.for \in Calls
    BY <2>1 DEF PostT, LineT
  <2>3. posts' \subseteq PostT /\ arm' \in Calls \cup {NoCall}
    BY <1>25, <1>a, <2>2 DEF WriteAnswer, Typed
  <2>4. inp' \in Seq(LineT)
    <3>1. inp' = inp \/ \E l \in LineT : inp' = Append(inp, l)
      BY <1>25, <2>2 DEF WriteAnswer
    <3>2. inp \in Seq(LineT)
      BY <1>a DEF Typed
    <3> QED BY <3>1, <3>2, Appends
  <2> QED BY <1>25, <1>a, <2>3, <2>4 DEF Typed, WriteAnswer, asker, kernel, router, history
<1>26. CASE Die
  <2>1. budget' \in [Whats -> Nat]
    BY <1>26, <1>a, Budgets DEF Die, Whats
  <2>2. call' \in [Calls -> CallT]
    BY <1>26, <1>a DEF Die, Typed, CallT, Places
  <2>3. out' \in Seq(EventT)
    BY <1>26, <1>a, EventsTyped, Appends DEF Die, Typed
  <2>4. posts' \subseteq PostT
    <3>1. \A p \in posts : [p EXCEPT !.at = "broken"] \in PostT /\ p \in PostT
      BY <1>a DEF Typed, PostT
    <3>2. posts' = {IF p.at = "write" THEN [p EXCEPT !.at = "broken"] ELSE p : p \in posts}
      BY <1>26 DEF Die
    <3>3. ASSUME NEW x \in posts' PROVE x \in PostT
      <4>1. PICK p \in posts : x = IF p.at = "write" THEN [p EXCEPT !.at = "broken"] ELSE p
        BY <3>2
      <4> QED BY <3>1, <4>1
    <3> QED BY <3>3
  <2>5. UNCHANGED <<kind, box, asker, tool, history, stopped, arm, strayed>>
    BY <1>26 DEF Die
  <2>6. /\ kid' = "dead" /\ vm' = NoCall /\ answerer' = 0 /\ hlAsk' = NoCall
        /\ events' = <<>> /\ pump' = [at |-> "idle"] /\ inp' = <<>> /\ owed' = FALSE
    BY <1>26 DEF Die
  <2>7. pump' \in PumpT /\ answerer' \in 0 .. mount
    BY <1>b, <2>6 DEF PumpT
  <2>8. /\ vm' \in Calls \cup {NoCall} /\ hlAsk' \in Calls \cup {NoCall}
        /\ events' \in Seq(EventT) /\ inp' \in Seq(LineT) /\ kid' \in {"up", "dead", "gone"}
        /\ owed' \in BOOLEAN
    <3>1. <<>> \in Seq(EventT) /\ <<>> \in Seq(LineT)
      OBVIOUS
    <3>2. FALSE \in BOOLEAN /\ "dead" \in {"up", "dead", "gone"}
      OBVIOUS
    <3> QED BY <2>6, <3>1, <3>2, Zenon
  <2>9. /\ UNCHANGED <<kind, box, seq, pending, slot, mount, tool, asked, closed>>
        /\ UNCHANGED <<stopped, arm, strayed>>
    BY <2>5 DEF asker, history
  <2> QED BY <1>a, <2>1, <2>2, <2>3, <2>4, <2>7, <2>8, <2>9 DEF Typed
<1>27. CASE Respawn
  <2>1. mount' \in Askers /\ mount' = mount + 1
    BY <1>27, <1>a, <1>b DEF Respawn
  <2>2. seq' \in [Askers -> Nat]
    BY <1>27, <1>a, <2>1, LastAskIs DEF Typed, Respawn
  <2>3. tool' \in 1 .. mount' /\ answerer' \in 0 .. mount'
    BY <1>27, <1>b, <2>1 DEF Respawn
  <2> QED BY <1>27, <1>a, <2>1, <2>2, <2>3 DEF Typed, Respawn, history
<1>28. CASE UNCHANGED vars
  BY <1>28, <1>a DEF Typed, vars, asker, kernel, router, history, serve
<1> QED
  BY <1>1, <1>2, <1>3, <1>4, <1>5, <1>6, <1>7, <1>8, <1>9, <1>10, <1>11, <1>12, <1>13,
     <1>14, <1>15, <1>16, <1>17, <1>18, <1>19, <1>20, <1>21, <1>22, <1>23, <1>24, <1>25,
     <1>26, <1>27, <1>28
  DEF Next, CallStep, Remounts, Child, Supervise

----------------------------------------------------------------------------
(* The rows and the process.                                               *)

\* A call that goes on to pc.
Moves(q, pc) ==
  \A p \in Calls :
    /\ call'[p].at = IF p = q THEN pc ELSE call[p].at
    /\ call'[p].mount = call[p].mount /\ call'[p].id = call[p].id

LEMMA AtMoves ==
  ASSUME Typed, NEW q \in Calls, NEW pc, At(q, pc)
  PROVE  Moves(q, pc)
  BY DEF Typed, At, Moves, CallT

LEMMA RowsSame ==
  ASSUME RowsInStep, UNCHANGED <<rows, kid, mount, service>>
  PROVE  RowsInStep'
  BY DEF RowsInStep

LEMMA RowsStep ==
  ASSUME IInv, [Next]_vars
  PROVE  RowsInStep'
<1>a. Typed /\ RowsInStep /\ ExitLast
  BY DEF IInv
<1>b. /\ MaxMounts \in Nat /\ mount \in 1 .. MaxMounts
      /\ rows # <<>> => kid = "up" /\ Leaves(rows, Head(rows), Tail(rows))
  BY <1>a, Mounts, PlanSteps DEF Typed, RowsInStep
<1>1. ASSUME NEW q \in Calls, StartCall(q) PROVE RowsInStep'
  BY <1>a, <1>1, RowsSame DEF StartCall, asker, router, history, serve
<1>2. ASSUME NEW q \in Calls, TakeSlot(q) PROVE RowsInStep'
  BY <1>a, <1>2, RowsSame DEF TakeSlot, kernel, router, history, serve
<1>3. ASSUME NEW q \in Calls, Register(q) PROVE RowsInStep'
  BY <1>a, <1>3, RowsSame DEF Register, kernel, router, history, serve
<1>4. ASSUME NEW q \in Calls, Announce(q) PROVE RowsInStep'
  BY <1>a, <1>4, RowsSame DEF Announce, asker, serve
<1>5. ASSUME NEW q \in Calls, Choose(q) PROVE RowsInStep'
  BY <1>a, <1>5, RowsSame DEF Choose, asker, kernel, router, history, serve
<1>6. ASSUME NEW q \in Calls, GiveUp(q) PROVE RowsInStep'
  BY <1>a, <1>6, RowsSame DEF GiveUp, kernel, history, serve
<1>7. ASSUME NEW q \in Calls, Leave(q) PROVE RowsInStep'
  BY <1>a, <1>7, RowsSame DEF Leave, router, history, serve
<1>8. ASSUME NEW q \in Calls, RecordEnd(q) PROVE RowsInStep'
  BY <1>a, <1>8, RowsSame DEF RecordEnd, asker, serve
<1>9. CASE TurnDone
  BY <1>a, <1>9, RowsSame DEF TurnDone, asker, kernel, serve
<1>10. CASE StopTurn
  BY <1>a, <1>10, RowsSame DEF StopTurn, asker, kernel, router, history, serve
<1>11. CASE Reload
  <2>1. rows' \in Plans /\ (Contains(rows', "build") => mount < MaxMounts) /\ rows = <<>>
        /\ kid = "up" /\ UNCHANGED <<kid, mount, service>>
    BY <1>11 DEF Reload, asker, serve
  <2>2. rows' \in RowsLeft /\ rows' \notin Withdrawn /\ (rows' \in Building => mount < MaxMounts)
    BY <2>1, PlansAre
  <2>3. service = mount
    BY <1>a, <2>1, NoRows DEF RowsInStep
  <2> QED BY <2>1, <2>2, <2>3 DEF RowsInStep
<1>12. CASE Dispose
  <2>1. rows # <<>> /\ Head(rows) = "dispose" /\ rows' = Tail(rows)
    BY <1>12 DEF Dispose, RowStep
  <2>2. Leaves(rows, "dispose", rows') /\ kid = "up" /\ rows \in RowsLeft
    BY <1>a, <1>b, <2>1 DEF RowsInStep
  <2>3. UNCHANGED <<kid, mount>> /\ service' = 0
    BY <1>12 DEF Dispose, serve
  <2>4. rows' \in RowsLeft /\ rows' \in Withdrawn /\ rows \in Building
    BY <2>2 DEF Leaves, Withdrawn
  <2> QED BY <1>a, <2>2, <2>3, <2>4 DEF RowsInStep
<1>13. CASE Build
  <2>1. rows # <<>> /\ Head(rows) = "build" /\ rows' = Tail(rows)
    BY <1>13 DEF Build, RowStep
  <2>2. Leaves(rows, "build", rows') /\ kid = "up" /\ rows \in RowsLeft
    BY <1>a, <1>b, <2>1 DEF RowsInStep
  <2>3. UNCHANGED <<kid, service>>
    BY <1>13 DEF Build, serve
  <2>4. rows' \in RowsLeft /\ rows' \in Withdrawn /\ rows' \notin Building /\ rows \in Withdrawn
    BY <2>2 DEF Leaves, Withdrawn
  <2> QED BY <1>a, <2>2, <2>3, <2>4 DEF RowsInStep
<1>14. CASE Provide
  <2>1. rows # <<>> /\ Head(rows) = "provide" /\ rows' = Tail(rows)
    BY <1>14 DEF Provide, RowStep
  <2>2. Leaves(rows, "provide", rows') /\ kid = "up" /\ rows \in RowsLeft
    BY <1>a, <1>b, <2>1 DEF RowsInStep
  <2>3. UNCHANGED <<kid, mount>> /\ service' = mount
    BY <1>14 DEF Provide, asker, serve
  <2>4. rows' \in RowsLeft /\ rows' \notin Withdrawn /\ rows' \notin Building
    BY <2>2 DEF Leaves
  <2> QED BY <1>a, <2>2, <2>3, <2>4 DEF RowsInStep
<1>15. CASE UiDown
  <2>1. rows # <<>> /\ Head(rows) = "uiDown" /\ rows' = Tail(rows)
    BY <1>15 DEF UiDown, RowStep
  <2>2. Leaves(rows, "uiDown", rows') /\ kid = "up" /\ rows \in RowsLeft
    BY <1>a, <1>b, <2>1 DEF RowsInStep
  <2>3. UNCHANGED <<kid, mount, service>>
    BY <1>15 DEF UiDown, asker, serve
  <2>4. /\ rows' \in RowsLeft /\ rows' \notin Withdrawn /\ rows \notin Withdrawn
        /\ rows' \in Building => rows \in Building
    BY <2>2 DEF Leaves
  <2> QED BY <1>a, <2>2, <2>3, <2>4 DEF RowsInStep
<1>16. CASE UiUp
  <2>1. rows # <<>> /\ Head(rows) = "uiUp" /\ rows' = Tail(rows)
    BY <1>16 DEF UiUp, RowStep
  <2>2. Leaves(rows, "uiUp", rows') /\ kid = "up" /\ rows \in RowsLeft
    BY <1>a, <1>b, <2>1 DEF RowsInStep
  <2>3. UNCHANGED <<kid, mount, service>>
    BY <1>16 DEF UiUp, asker, serve
  <2>4. /\ rows' \in RowsLeft /\ rows' \notin Withdrawn /\ rows \notin Withdrawn
        /\ rows' \notin Building
    BY <2>2, NoRows DEF Leaves
  <2> QED BY <1>a, <2>2, <2>3, <2>4 DEF RowsInStep
<1>17. CASE HlPrint
  BY <1>a, <1>17, RowsSame DEF HlPrint, asker, kernel, history, serve
<1>18. CASE ReadLine
  BY <1>a, <1>18, RowsSame DEF ReadLine, asker, kernel, history, serve
<1>19. CASE Answer
  BY <1>a, <1>19, RowsSame DEF Answer, kernel, serve
<1>20. CASE Send
  BY <1>a, <1>20, RowsSame DEF Send, asker, kernel, history, serve
<1>21. CASE Scan
  <2>1. UNCHANGED <<rows, mount, service>> /\ out # <<>>
        /\ kid' = IF Head(out).kind = "exit" THEN "gone" ELSE kid
    BY <1>21 DEF Scan, asker, kernel
  <2>2. Head(out).kind = "exit" => kid = "dead"
    <3>1. 1 \in 1 .. Len(out) /\ Head(out) = out[1]
      BY <1>a, <2>1 DEF Typed
    <3> QED BY <1>a, <3>1 DEF ExitLast
  <2> QED BY <1>a, <2>1, <2>2 DEF RowsInStep
<1>22. CASE PendingAsk
  BY <1>a, <1>22, RowsSame DEF PendingAsk, asker, kernel, router, history
<1>23. ASSUME NEW q \in Calls, PostAnswer(q) PROVE RowsInStep'
  BY <1>a, <1>23, RowsSame DEF PostAnswer, asker, kernel, router, history
<1>24. ASSUME NEW p \in posts, ClaimArm(p) PROVE RowsInStep'
  BY <1>a, <1>24, RowsSame DEF ClaimArm, asker, kernel, router, history
<1>25. ASSUME NEW p \in posts, WriteAnswer(p) PROVE RowsInStep'
  BY <1>a, <1>25, RowsSame DEF WriteAnswer, asker, kernel, router, history
<1>26. CASE Die
  <2>1. rows' = <<>> /\ kid' = "dead" /\ mount' = mount /\ service' = 0
    BY <1>26 DEF Die, asker
  <2> QED BY <2>1, NoRows DEF RowsInStep
<1>27. CASE Respawn
  <2>1. rows' = rows /\ kid' = "up" /\ mount' = mount + 1 /\ service' = mount' /\ kid = "gone"
    BY <1>27 DEF Respawn
  <2>2. rows = <<>>
    BY <1>a, <2>1 DEF RowsInStep
  <2> QED BY <2>1, <2>2, NoRows DEF RowsInStep
<1>28. CASE UNCHANGED vars
  BY <1>a, <1>28, RowsSame DEF vars, asker, kernel, router, history, serve
<1> QED
  BY <1>1, <1>2, <1>3, <1>4, <1>5, <1>6, <1>7, <1>8, <1>9, <1>10, <1>11, <1>12, <1>13,
     <1>14, <1>15, <1>16, <1>17, <1>18, <1>19, <1>20, <1>21, <1>22, <1>23, <1>24, <1>25,
     <1>26, <1>27, <1>28
  DEF Next, CallStep, Remounts, Child, Supervise

LEMMA ExitSame ==
  ASSUME ExitLast, UNCHANGED <<events, out, kid>>
  PROVE  ExitLast'
  BY DEF ExitLast

LEMMA EmitsNoExit ==
  ASSUME Typed, ExitLast, NEW e \in EventT, Emit(e), e.kind # "exit", UNCHANGED <<out, kid>>
  PROVE  ExitLast'
<1>1. events' = events \/ events' = Append(events, e)
  BY DEF Emit
<1>2. events \in Seq(EventT)
  BY DEF Typed
<1>3. ASSUME NEW i \in 1 .. Len(events') PROVE events'[i].kind # "exit"
  <2>1. CASE events' = events
    BY <2>1 DEF ExitLast
  <2>2. CASE events' = Append(events, e)
    <3>1. (i \in 1 .. Len(events) /\ events'[i] = events[i]) \/ events'[i] = e
      BY <1>2, <2>2
    <3> QED BY <3>1 DEF ExitLast
  <2> QED BY <1>1, <2>1, <2>2
<1> QED BY <1>3 DEF ExitLast

LEMMA ExitStep ==
  ASSUME IInv, [Next]_vars
  PROVE  ExitLast'
<1>a. Typed /\ ExitLast /\ DeadAreGone
  BY DEF IInv
<1>b. events \in Seq(EventT) /\ out \in Seq(EventT)
  BY <1>a DEF Typed
<1>1. ASSUME NEW q \in Calls, StartCall(q) PROVE ExitLast'
  BY <1>a, <1>1, ExitSame DEF StartCall, asker, router, history, serve
<1>2. ASSUME NEW q \in Calls, TakeSlot(q) PROVE ExitLast'
  BY <1>a, <1>2, ExitSame DEF TakeSlot, kernel, router, history, serve
<1>3. ASSUME NEW q \in Calls, Register(q) PROVE ExitLast'
  BY <1>a, <1>3, ExitSame DEF Register, kernel, router, history, serve
<1>4. ASSUME NEW q \in Calls, Announce(q) PROVE ExitLast'
  <2>1. Emit(Event("ask", q)) /\ UNCHANGED <<out, kid>>
    BY <1>4 DEF Announce, asker, serve
  <2>2. Event("ask", q) \in EventT /\ Event("ask", q).kind # "exit"
    BY EventsTyped DEF Event
  <2> QED BY <1>a, <2>1, <2>2, EmitsNoExit
<1>5. ASSUME NEW q \in Calls, Choose(q) PROVE ExitLast'
  BY <1>a, <1>5, ExitSame DEF Choose, asker, kernel, router, history, serve
<1>6. ASSUME NEW q \in Calls, GiveUp(q) PROVE ExitLast'
  <2>1. Emit(Event("end", q)) /\ UNCHANGED <<out, kid>>
    BY <1>6 DEF GiveUp, kernel, history, serve
  <2>2. Event("end", q) \in EventT /\ Event("end", q).kind # "exit"
    BY EventsTyped DEF Event
  <2> QED BY <1>a, <2>1, <2>2, EmitsNoExit
<1>7. ASSUME NEW q \in Calls, Leave(q) PROVE ExitLast'
  BY <1>a, <1>7, ExitSame DEF Leave, router, history, serve
<1>8. ASSUME NEW q \in Calls, RecordEnd(q) PROVE ExitLast'
  <2>1. UNCHANGED <<out, kid>>
    BY <1>8 DEF RecordEnd, asker, serve
  <2>2. CASE kind[q] = "rule"
    BY <1>8, <1>a, <2>1, <2>2, ExitSame DEF RecordEnd
  <2>3. CASE kind[q] # "rule"
    <3>1. \A k \in {"call", "result"} : Event(k, q) \in EventT /\ Event(k, q).kind # "exit"
      BY EventsTyped DEF Event
    <3>2. PICK e \in EventT : Emit(e) /\ e.kind # "exit"
      BY <1>8, <2>3, <3>1 DEF RecordEnd
    <3> QED BY <1>a, <2>1, <3>2, EmitsNoExit
  <2> QED BY <2>2, <2>3
<1>9. CASE TurnDone
  <2>1. Emit(Event("done", NoCall)) /\ UNCHANGED <<out, kid>>
    BY <1>9 DEF TurnDone, asker, kernel, serve
  <2>2. Event("done", NoCall) \in EventT /\ Event("done", NoCall).kind # "exit"
    BY EventsTyped DEF Event
  <2> QED BY <1>a, <2>1, <2>2, EmitsNoExit
<1>10. CASE StopTurn
  BY <1>a, <1>10, ExitSame DEF StopTurn, asker, kernel, router, history, serve
<1>11. CASE Reload
  BY <1>a, <1>11, ExitSame DEF Reload, asker, router, history, serve
<1>12. CASE Dispose
  BY <1>a, <1>12, ExitSame DEF Dispose, router, history, serve
<1>13. CASE Build
  BY <1>a, <1>13, ExitSame DEF Build, router, history, serve
<1>14. CASE Provide
  BY <1>a, <1>14, ExitSame DEF Provide, asker, router, history, serve
<1>15. CASE UiDown
  BY <1>a, <1>15, ExitSame DEF UiDown, asker, history, serve
<1>16. CASE UiUp
  BY <1>a, <1>16, ExitSame DEF UiUp, asker, history, serve
<1>17. CASE HlPrint
  <2>1. events # <<>> /\ out' = Append(out, Head(events)) /\ events' = Tail(events) /\ kid' = kid
    BY <1>17 DEF HlPrint, asker, kernel, history, serve
  <2>2. kid = "up"
    BY <1>a, <2>1 DEF DeadAreGone, Typed
  <2>3. ASSUME NEW i \in 1 .. Len(events') PROVE events'[i].kind # "exit"
    <3>1. i + 1 \in 1 .. Len(events) /\ events'[i] = events[i + 1]
      BY <1>b, <2>1
    <3> QED BY <1>a, <3>1 DEF ExitLast
  <2>4. ASSUME NEW i \in 1 .. Len(out') PROVE out'[i].kind # "exit"
    <3>1. 1 \in 1 .. Len(events) /\ Head(events) = events[1]
      BY <1>b, <2>1
    <3>2. (i \in 1 .. Len(out) /\ out'[i] = out[i]) \/ out'[i] = Head(events)
      BY <1>b, <2>1, HeadTail
    <3> QED BY <1>a, <2>2, <3>1, <3>2 DEF ExitLast
  <2> QED BY <2>3, <2>4 DEF ExitLast
<1>18. CASE ReadLine
  BY <1>a, <1>18, ExitSame DEF ReadLine, asker, kernel, history, serve
<1>19. CASE Answer
  BY <1>a, <1>19, ExitSame DEF Answer, kernel, serve
<1>20. CASE Send
  BY <1>a, <1>20, ExitSame DEF Send, asker, kernel, history, serve
<1>21. CASE Scan
  <2>1. out # <<>> /\ out' = Tail(out) /\ events' = events
        /\ kid' = IF Head(out).kind = "exit" THEN "gone" ELSE kid
    BY <1>21 DEF Scan, asker, kernel, router, history
  <2>2. 1 \in 1 .. Len(out) /\ Head(out) = out[1]
    BY <1>b, <2>1
  <2>3. ASSUME NEW i \in 1 .. Len(out'), out'[i].kind = "exit"
        PROVE  kid' = "dead" /\ i = Len(out')
    <3>1. i + 1 \in 1 .. Len(out) /\ out'[i] = out[i + 1] /\ Len(out') = Len(out) - 1
      BY <1>b, <2>1
    <3>2. kid = "dead" /\ i + 1 = Len(out)
      BY <1>a, <2>3, <3>1 DEF ExitLast
    <3>3. Head(out).kind # "exit"
      <4>1. Len(out') \in Nat /\ i \in Nat /\ i > 0
        BY <1>b, <2>1
      <4>2. Len(out) # 1
        BY <3>2, <4>1
      <4> QED BY <1>a, <2>2, <4>2 DEF ExitLast
    <3>4. Len(out) \in Nat /\ i \in Nat
      BY <1>b, <2>1
    <3>5. kid' = "dead"
      BY <2>1, <3>2, <3>3
    <3>6. i = Len(out')
      BY <3>1, <3>2, <3>4
    <3> QED BY <3>5, <3>6
  <2> QED BY <1>a, <2>1, <2>3 DEF ExitLast
<1>22. CASE PendingAsk
  BY <1>a, <1>22, ExitSame DEF PendingAsk, asker, kernel, router, history
<1>23. ASSUME NEW q \in Calls, PostAnswer(q) PROVE ExitLast'
  BY <1>a, <1>23, ExitSame DEF PostAnswer, asker, kernel, router, history
<1>24. ASSUME NEW p \in posts, ClaimArm(p) PROVE ExitLast'
  BY <1>a, <1>24, ExitSame DEF ClaimArm, asker, kernel, router, history
<1>25. ASSUME NEW p \in posts, WriteAnswer(p) PROVE ExitLast'
  BY <1>a, <1>25, ExitSame DEF WriteAnswer, asker, kernel, router, history
<1>26. CASE Die
  <2>1. kid = "up" /\ kid' = "dead" /\ events' = <<>> /\ out' = Append(out, Event("exit", NoCall))
    BY <1>26 DEF Die
  <2>2. Event("exit", NoCall) \in EventT
    BY EventsTyped
  <2>3. ASSUME NEW i \in 1 .. Len(out'), out'[i].kind = "exit"
        PROVE  i = Len(out')
    <3>1. (i \in 1 .. Len(out) /\ out'[i] = out[i]) \/ i = Len(out')
      BY <1>b, <2>1, <2>2
    <3> QED BY <1>a, <2>1, <2>3, <3>1 DEF ExitLast
  <2>4. 1 .. Len(events') = {}
    BY <2>1
  <2> QED BY <2>1, <2>3, <2>4 DEF ExitLast
<1>27. CASE Respawn
  <2>1. UNCHANGED <<events, out>> /\ kid = "gone"
    BY <1>27 DEF Respawn
  <2> QED BY <1>a, <2>1 DEF ExitLast
<1>28. CASE UNCHANGED vars
  BY <1>a, <1>28, ExitSame DEF vars, asker, kernel, router, history, serve
<1> QED
  BY <1>1, <1>2, <1>3, <1>4, <1>5, <1>6, <1>7, <1>8, <1>9, <1>10, <1>11, <1>12, <1>13,
     <1>14, <1>15, <1>16, <1>17, <1>18, <1>19, <1>20, <1>21, <1>22, <1>23, <1>24, <1>25,
     <1>26, <1>27, <1>28
  DEF Next, CallStep, Remounts, Child, Supervise

LEMMA DeadSame ==
  ASSUME DeadAreGone, UNCHANGED <<call, kid, answerer, pump, mount, events>>
  PROVE  DeadAreGone'
  BY DEF DeadAreGone, Buried, Busy

\* A call of a living process goes on.
LEMMA DeadMoves ==
  ASSUME Typed, DeadAreGone, NEW q \in Busy, NEW pc \in Places, pc # "dead", Moves(q, pc),
         UNCHANGED <<kid, answerer, pump, mount>>
  PROVE  DeadAreGone'
<1>1. kid = "up"
  BY DEF DeadAreGone
<1>2. \A p \in Calls : call'[p].at = "dead" => Buried(p)'
  BY DEF DeadAreGone, Buried, Moves
<1> QED BY <1>1, <1>2 DEF DeadAreGone

LEMMA DeadStep ==
  ASSUME IInv, [Next]_vars
  PROVE  DeadAreGone'
<1>a. Typed /\ DeadAreGone /\ RowsInStep /\ CallsInStep
  BY DEF IInv
<1>b. /\ MaxMounts \in Nat /\ mount \in 1 .. MaxMounts /\ mount \in Nat
      /\ answerer \in 0 .. mount /\ answerer \in Nat
  BY <1>a, Mounts DEF Typed
<1>c. \A q \in Calls : call[q].mount \in Nat /\ call[q].mount <= mount
  BY <1>a, <1>b, CallIs DEF CallsInStep
<1>d. pump.at = "answer" => pump.to \in Nat
  BY <1>a, <1>b DEF Typed, PumpT
<1>1. ASSUME NEW q \in Calls, StartCall(q) PROVE DeadAreGone'
  <2>1. kid = "up" /\ UNCHANGED <<kid, answerer, pump, mount>> /\ call[q].at = "idle"
    BY <1>1 DEF StartCall, asker, router, history, serve
  <2>2. \A p \in Calls : call'[p].at = "dead" => p # q /\ call'[p] = call[p]
    BY <1>1, <1>a DEF StartCall, Typed, CallT
  <2>3. \A p \in Calls : call'[p].at = "dead" => Buried(p)'
    BY <1>a, <2>1, <2>2 DEF DeadAreGone, Buried
  <2> QED BY <1>a, <2>1, <2>3 DEF DeadAreGone
<1>2. ASSUME NEW q \in Calls, TakeSlot(q) PROVE DeadAreGone'
  <2>1. At(q, "putting") \/ At(q, "left")
    BY <1>2 DEF TakeSlot
  <2>2. Moves(q, "putting") \/ Moves(q, "left")
    BY <1>a, <2>1, AtMoves
  <2>3. q \in Busy /\ UNCHANGED <<kid, answerer, pump, mount>>
    BY <1>2 DEF Busy, TakeSlot, kernel, router, history, serve
  <2> QED BY <1>a, <2>2, <2>3, DeadMoves DEF Places
<1>3. ASSUME NEW q \in Calls, Register(q) PROVE DeadAreGone'
  <2>1. \A p \in Calls : /\ call'[p].at = IF p = q THEN "placed" ELSE call[p].at
                         /\ call'[p].mount = call[p].mount
    BY <1>3, <1>a DEF Register, Typed, CallT
  <2>2. q \in Busy /\ UNCHANGED <<kid, answerer, pump, mount>>
    BY <1>3 DEF Busy, Register, kernel, router, history, serve
  <2>3. \A p \in Calls : call'[p].at = "dead" => Buried(p)'
    BY <1>a, <2>1, <2>2 DEF DeadAreGone, Buried
  <2> QED BY <1>a, <2>2, <2>3 DEF DeadAreGone
<1>4. ASSUME NEW q \in Calls, Announce(q) PROVE DeadAreGone'
  <2>1. At(q, "waiting")
    BY <1>4 DEF Announce
  <2>2. Moves(q, "waiting")
    BY <1>a, <2>1, AtMoves
  <2>3. q \in Busy /\ UNCHANGED <<kid, answerer, pump, mount>>
    BY <1>4 DEF Busy, Announce, asker, serve
  <2> QED BY <1>a, <2>2, <2>3, DeadMoves DEF Places
<1>5. ASSUME NEW q \in Calls, Choose(q) PROVE DeadAreGone'
  <2>1. At(q, "answered") \/ At(q, "failing")
    BY <1>5 DEF Choose
  <2>2. Moves(q, "answered") \/ Moves(q, "failing")
    BY <1>a, <2>1, AtMoves
  <2>3. q \in Busy /\ UNCHANGED <<kid, answerer, pump, mount>>
    BY <1>5 DEF Busy, Choose, asker, kernel, router, history, serve
  <2> QED BY <1>a, <2>2, <2>3, DeadMoves DEF Places
<1>6. ASSUME NEW q \in Calls, GiveUp(q) PROVE DeadAreGone'
  <2>1. At(q, "failed")
    BY <1>6 DEF GiveUp
  <2>2. Moves(q, "failed")
    BY <1>a, <2>1, AtMoves
  <2>3. q \in Busy /\ UNCHANGED <<kid, answerer, pump, mount>>
    BY <1>6 DEF Busy, GiveUp, kernel, history, serve
  <2> QED BY <1>a, <2>2, <2>3, DeadMoves DEF Places
<1>7. ASSUME NEW q \in Calls, Leave(q) PROVE DeadAreGone'
  <2>1. At(q, "left")
    BY <1>7 DEF Leave
  <2>2. Moves(q, "left")
    BY <1>a, <2>1, AtMoves
  <2>3. q \in Busy /\ UNCHANGED <<kid, answerer, pump, mount>>
    BY <1>7 DEF Busy, Leave, router, history, serve
  <2> QED BY <1>a, <2>2, <2>3, DeadMoves DEF Places
<1>8. ASSUME NEW q \in Calls, RecordEnd(q) PROVE DeadAreGone'
  <2>1. At(q, "over")
    BY <1>8 DEF RecordEnd
  <2>2. Moves(q, "over")
    BY <1>a, <2>1, AtMoves
  <2>3. q \in Busy /\ UNCHANGED <<kid, answerer, pump, mount>>
    BY <1>8 DEF Busy, RecordEnd, asker, serve
  <2> QED BY <1>a, <2>2, <2>3, DeadMoves DEF Places
<1>9. CASE TurnDone
  <2>1. kid = "up" /\ UNCHANGED <<call, kid, answerer, pump, mount>>
    BY <1>9 DEF TurnDone, asker, kernel, serve
  <2> QED BY <1>a, <2>1 DEF DeadAreGone, Buried
<1>10. CASE StopTurn
  BY <1>a, <1>10, DeadSame DEF StopTurn, asker, kernel, router, history, serve
<1>11. CASE Reload
  BY <1>a, <1>11, DeadSame DEF Reload, asker, router, history, serve
<1>12. CASE Dispose
  BY <1>a, <1>12, DeadSame DEF Dispose, router, history, serve
<1>13. CASE Build
  <2>1. kid = "up" /\ mount' = mount + 1 /\ UNCHANGED <<call, kid, answerer, pump, events>>
    BY <1>13, <1>a DEF RowStep, RowsInStep, Build, router, history, serve
  <2>2. \A q \in Calls : call'[q].at = "dead" => Buried(q)'
    BY <1>a, <1>b, <1>c, <2>1 DEF DeadAreGone, Buried
  <2> QED BY <1>a, <1>b, <1>d, <2>1, <2>2 DEF DeadAreGone
<1>14. CASE Provide
  BY <1>a, <1>14, DeadSame DEF Provide, asker, router, history, serve
<1>15. CASE UiDown
  <2>1. kid = "up" /\ answerer' = 0 /\ UNCHANGED <<call, kid, mount, pump, events>>
    BY <1>15, <1>a DEF RowStep, RowsInStep, UiDown, asker, history, serve
  <2> QED BY <1>a, <2>1 DEF DeadAreGone, Buried
<1>16. CASE UiUp
  <2>1. kid = "up" /\ answerer' = service /\ UNCHANGED <<call, kid, mount, pump, events>>
    BY <1>16, <1>a DEF RowStep, RowsInStep, UiUp, asker, history, serve
  <2>2. service = 0 \/ service = mount
    BY <1>a DEF RowsInStep
  <2> QED BY <1>a, <2>1, <2>2 DEF DeadAreGone, Buried
<1>17. CASE HlPrint
  <2>1. events # <<>> /\ UNCHANGED <<call, kid, mount, pump, answerer>>
    BY <1>17 DEF HlPrint, asker, kernel, history, serve
  <2> QED BY <1>a, <2>1 DEF DeadAreGone, Buried
<1>18. CASE ReadLine
  <2>1. /\ kid = "up" /\ UNCHANGED <<call, kid, mount, answerer, events>>
        /\ pump' = pump \/ (pump'.at = "answer" /\ pump'.to = answerer)
    BY <1>18 DEF ReadLine, asker, kernel, history, serve
  <2> QED BY <1>a, <1>b, <2>1 DEF DeadAreGone, Buried
<1>19. CASE Answer
  <2>1. pump.at = "answer" /\ UNCHANGED <<call, kid, mount, answerer, events>>
    BY <1>19 DEF Answer, kernel, serve
  <2>2. pump'.at \in {"idle", "send"}
    BY <1>19 DEF Answer
  <2> QED BY <1>a, <2>1, <2>2 DEF DeadAreGone, Buried
<1>20. CASE Send
  <2>1. pump'.at = "idle" /\ UNCHANGED <<call, kid, mount, answerer, events>>
    BY <1>20 DEF Send, asker, kernel, history, serve
  <2> QED BY <1>a, <2>1 DEF DeadAreGone, Buried, Busy
<1>21. CASE Scan
  <2>1. UNCHANGED <<call, mount, answerer, events, pump>>
        /\ kid' = IF Head(out).kind = "exit" THEN "gone" ELSE kid
    BY <1>21 DEF Scan, asker, kernel, router, history
  <2>2. kid' = "up" => kid = "up"
    BY <2>1
  <2>3. kid' # "up" => kid # "up"
    <3>1. Head(out) = out[1] /\ 1 \in 1 .. Len(out)
      BY <1>21, <1>a DEF Scan, Typed
    <3> QED BY <2>1, <3>1 DEF IInv, ExitLast
  <2> QED BY <1>a, <2>1, <2>2, <2>3 DEF DeadAreGone, Buried, Busy
<1>22. CASE PendingAsk
  BY <1>a, <1>22, DeadSame DEF PendingAsk, asker, kernel, router, history
<1>23. ASSUME NEW q \in Calls, PostAnswer(q) PROVE DeadAreGone'
  BY <1>a, <1>23, DeadSame DEF PostAnswer, asker, kernel, router, history
<1>24. ASSUME NEW p \in posts, ClaimArm(p) PROVE DeadAreGone'
  BY <1>a, <1>24, DeadSame DEF ClaimArm, asker, kernel, router, history
<1>25. ASSUME NEW p \in posts, WriteAnswer(p) PROVE DeadAreGone'
  BY <1>a, <1>25, DeadSame DEF WriteAnswer, asker, kernel, router, history
<1>26. CASE Die
  <2>1. kid' = "dead" /\ answerer' = 0 /\ pump'.at = "idle" /\ events' = <<>>
    BY <1>26 DEF Die
  <2>2. call' = [q \in Calls |-> IF q \in Busy THEN [call[q] EXCEPT !.at = "dead"] ELSE call[q]]
    BY <1>26 DEF Die
  <2>3. \A q \in Calls : q \notin Busy'
    BY <1>a, <2>2 DEF Busy, Typed, CallT
  <2> QED BY <2>1, <2>3 DEF DeadAreGone, Buried, Busy
<1>27. CASE Respawn
  <2>1. /\ kid = "gone" /\ kid' = "up" /\ mount' = mount + 1 /\ answerer' = mount'
        /\ UNCHANGED <<call, pump>>
    BY <1>27 DEF Respawn, history
  <2>2. pump.at = "idle"
    BY <1>a, <2>1 DEF DeadAreGone
  <2> QED BY <1>b, <1>c, <2>1, <2>2 DEF DeadAreGone, Buried
<1>28. CASE UNCHANGED vars
  BY <1>a, <1>28, DeadSame DEF vars, asker, kernel, router, history, serve
<1> QED
  BY <1>1, <1>2, <1>3, <1>4, <1>5, <1>6, <1>7, <1>8, <1>9, <1>10, <1>11, <1>12, <1>13,
     <1>14, <1>15, <1>16, <1>17, <1>18, <1>19, <1>20, <1>21, <1>22, <1>23, <1>24, <1>25,
     <1>26, <1>27, <1>28
  DEF Next, CallStep, Remounts, Child, Supervise

----------------------------------------------------------------------------
(* The calls and their ids.                                                *)

LEMMA CallsSame ==
  ASSUME CallsInStep, UNCHANGED <<call, mount, asked, pending>>
  PROVE  CallsInStep'
  BY DEF CallsInStep

\* What CallsInStep says of one call.
CallInStep(q) ==
  /\ call[q].mount <= mount
  /\ call[q].at # "idle" => call[q].mount # 0
  /\ call[q].at \in {"idle", "queued", "putting"} => call[q].id = 0
  /\ call[q].at \in Asking => call[q].id # 0
  /\ call[q].at \in Asking \ {"placed"} => q \in asked
  /\ q \in asked => call[q].id # 0 /\ call[q].at # "placed"
  /\ call[q].id # 0 /\ q \notin asked => call[q].at \in {"placed", "dead"}
  /\ \A m \in Askers : q \in pending[m] => call[q].mount = m /\ call[q].id # 0

LEMMA CallsInEach ==
  ASSUME CallsInStep, NEW q \in Calls
  PROVE  CallInStep(q)
  BY DEF CallsInStep, CallInStep

LEMMA EachCallIn ==
  ASSUME \A q \in Calls : CallInStep(q)'
  PROVE  CallsInStep'
  BY DEF CallsInStep, CallInStep

LEMMA CallsMove ==
  ASSUME CallsInStep, NEW q \in Calls, NEW pc, Moves(q, pc), UNCHANGED <<mount, asked>>,
         \A m \in Askers : pending'[m] \subseteq pending[m],
         call[q].at # "idle", pc # "idle",
         pc \in {"queued", "putting"} => call[q].id = 0,
         pc \in Asking => call[q].id # 0 /\ q \in asked /\ pc # "placed",
         call[q].id # 0 /\ q \notin asked => pc = "dead"
  PROVE  CallsInStep'
<1>1. ASSUME NEW p \in Calls PROVE CallInStep(p)'
  <2>1. CallInStep(p)
    BY CallsInEach
  <2>2. \A m \in Askers : p \in pending'[m] => call'[p].mount = m /\ call'[p].id # 0
    BY <2>1 DEF CallInStep, Moves
  <2>3. CASE p # q
    BY <2>1, <2>2, <2>3 DEF CallInStep, Moves
  <2>4. CASE p = q
    <3>1. call'[q].at = pc /\ call'[q].mount = call[q].mount /\ call'[q].id = call[q].id
      BY DEF Moves
    <3>2. "placed" \in Asking
      BY DEF Asking
    <3> QED BY <2>1, <2>2, <2>4, <3>1, <3>2 DEF CallInStep
  <2> QED BY <2>3, <2>4
<1> QED BY <1>1, EachCallIn

LEMMA CallsStep ==
  ASSUME IInv, [Next]_vars
  PROVE  CallsInStep'
<1>a. Typed /\ RowsInStep /\ CallsInStep
  BY DEF IInv
<1>b. /\ MaxMounts \in Nat /\ mount \in 1 .. MaxMounts /\ mount \in Nat
      /\ \A q \in Calls : call[q].mount \in Nat
  BY <1>a, Mounts, CallIs DEF Typed
<1>1. ASSUME NEW q \in Calls, StartCall(q) PROVE CallsInStep'
  <2>1. /\ call[q].at = "idle" /\ UNCHANGED <<mount, asked, pending>> /\ kid = "up"
        /\ IF TakesSlot(q) THEN service # 0 ELSE TRUE
    BY <1>1 DEF StartCall, asker, router, history, serve
  <2>2. service = 0 \/ service = mount
    BY <1>a DEF RowsInStep
  <2>3. tool \in 1 .. mount
    BY <1>a DEF Typed
  <2>4. PICK pc \in {"queued", "putting"}, m \in 1 .. mount :
          call' = [call EXCEPT ![q].at = pc, ![q].mount = m]
    BY <1>1, <1>b, <2>1, <2>2, <2>3 DEF StartCall
  <2>5. /\ call'[q].at = pc /\ call'[q].mount = m /\ call'[q].id = call[q].id
        /\ \A p \in Calls : p # q => call'[p] = call[p]
    BY <1>a, <2>4 DEF Typed, CallT
  <2>6. ASSUME NEW p \in Calls PROVE CallInStep(p)'
    <3>1. CallInStep(p)
      BY <1>a, CallsInEach
    <3>2. CASE p # q
      BY <2>1, <2>5, <3>1, <3>2 DEF CallInStep
    <3>3. CASE p = q
      <4>1. call[q].id = 0 /\ q \notin asked /\ \A k \in Askers : q \notin pending[k]
        BY <2>1, <3>1, <3>3 DEF CallInStep
      <4>2. pc \notin Asking /\ m # 0 /\ m <= mount
        BY <1>b, <2>4 DEF Asking
      <4> QED BY <2>1, <2>5, <3>3, <4>1, <4>2 DEF CallInStep
    <3> QED BY <3>2, <3>3
  <2> QED BY <2>6, EachCallIn
<1>2. ASSUME NEW q \in Calls, TakeSlot(q) PROVE CallsInStep'
  <2>1. At(q, "putting") \/ At(q, "left")
    BY <1>2 DEF TakeSlot
  <2>2. Moves(q, "putting") \/ Moves(q, "left")
    BY <1>a, <2>1, AtMoves
  <2>3. UNCHANGED <<mount, asked>> /\ \A m \in Askers : pending'[m] \subseteq pending[m]
    BY <1>2 DEF TakeSlot, kernel, router, history, serve
  <2>4. CallInStep(q)
    BY <1>a, CallsInEach
  <2> QED BY <1>2, <1>a, <2>2, <2>3, <2>4, CallsMove DEF CallInStep, Asking, TakeSlot
<1>3. ASSUME NEW q \in Calls, Register(q) PROVE CallsInStep'
  <2>1. CallInStep(q) /\ call[q].at = "putting" /\ UNCHANGED <<mount, asked>>
    BY <1>3, <1>a, CallsInEach DEF Register, history
  <2>2. q \notin asked /\ call[q].mount \in Askers
    BY <1>b, <2>1, Mounts DEF CallInStep
  <2>3. seq'[call[q].mount] \in Nat /\ seq'[call[q].mount] # 0
    BY <1>3, <1>a, <2>2 DEF Typed, Register
  <2>4. PICK n \in Nat : n # 0 /\ call' = [call EXCEPT ![q].at = "placed", ![q].id = n]
    BY <1>3, <2>3 DEF Register
  <2>5. /\ call'[q].at = "placed" /\ call'[q].mount = call[q].mount /\ call'[q].id = n
        /\ \A p \in Calls : p # q => call'[p] = call[p]
    BY <1>a, <2>4 DEF Typed, CallT
  <2>6. pending' = [pending EXCEPT ![call[q].mount] = pending[call[q].mount] \cup {q}]
    BY <1>3 DEF Register
  <2>7. \A m \in Askers : pending'[m] = IF m = call[q].mount THEN pending[m] \cup {q}
                                     ELSE pending[m]
    BY <1>a, <2>2, <2>6 DEF Typed
  <2>8. ASSUME NEW p \in Calls PROVE CallInStep(p)'
    <3>1. CallInStep(p)
      BY <1>a, CallsInEach
    <3>2. CASE p # q
      <4>1. \A m \in Askers : p \in pending'[m] => p \in pending[m]
        BY <2>7, <3>2
      <4>2. call'[p] = call[p]
        BY <2>5, <3>2
      <4> QED BY <2>1, <3>1, <4>1, <4>2 DEF CallInStep
    <3>3. CASE p = q
      <4>1. \A m \in Askers : q \in pending'[m] => call'[q].mount = m /\ call'[q].id # 0
        BY <2>1, <2>4, <2>5, <2>7 DEF CallInStep
      <4> QED BY <2>1, <2>2, <2>4, <2>5, <3>1, <3>3, <4>1 DEF CallInStep, Asking
    <3> QED BY <3>2, <3>3
  <2> QED BY <2>8, EachCallIn
<1>4. ASSUME NEW q \in Calls, Announce(q) PROVE CallsInStep'
  <2>1. /\ CallInStep(q) /\ call[q].at = "placed" /\ UNCHANGED <<mount, pending>>
        /\ asked' = asked \cup {q} /\ At(q, "waiting")
    BY <1>4, <1>a, CallsInEach DEF Announce, asker, serve
  <2>2. Moves(q, "waiting")
    BY <1>a, <2>1, AtMoves
  <2>3. ASSUME NEW p \in Calls PROVE CallInStep(p)'
    <3>1. CallInStep(p)
      BY <1>a, CallsInEach
    <3>2. CASE p # q
      BY <2>1, <2>2, <3>1, <3>2 DEF CallInStep, Moves
    <3>3. CASE p = q
      BY <2>1, <2>2, <3>3 DEF CallInStep, Asking, Moves
    <3> QED BY <3>2, <3>3
  <2> QED BY <2>3, EachCallIn
<1>5. ASSUME NEW q \in Calls, Choose(q) PROVE CallsInStep'
  <2>1. At(q, "answered") \/ At(q, "failing")
    BY <1>5 DEF Choose
  <2>2. Moves(q, "answered") \/ Moves(q, "failing")
    BY <1>a, <2>1, AtMoves
  <2>3. UNCHANGED <<mount, asked>> /\ \A m \in Askers : pending'[m] \subseteq pending[m]
    BY <1>5 DEF Choose, asker, kernel, router, history, serve
  <2>4. CallInStep(q)
    BY <1>a, CallsInEach
  <2> QED BY <1>5, <1>a, <2>2, <2>3, <2>4, CallsMove DEF CallInStep, Asking, Choose
<1>6. ASSUME NEW q \in Calls, GiveUp(q) PROVE CallsInStep'
  <2>1. At(q, "failed")
    BY <1>6 DEF GiveUp
  <2>2. Moves(q, "failed")
    BY <1>a, <2>1, AtMoves
  <2>3. UNCHANGED <<mount, asked>> /\ \A m \in Askers : pending'[m] \subseteq pending[m]
    BY <1>6, <1>a DEF Typed, GiveUp, kernel, history, serve
  <2>4. CallInStep(q)
    BY <1>a, CallsInEach
  <2> QED BY <1>6, <1>a, <2>2, <2>3, <2>4, CallsMove DEF CallInStep, Asking, GiveUp
<1>7. ASSUME NEW q \in Calls, Leave(q) PROVE CallsInStep'
  <2>1. At(q, "left")
    BY <1>7 DEF Leave
  <2>2. Moves(q, "left")
    BY <1>a, <2>1, AtMoves
  <2>3. UNCHANGED <<mount, asked>> /\ \A m \in Askers : pending'[m] \subseteq pending[m]
    BY <1>7 DEF Leave, router, history, serve
  <2>4. CallInStep(q)
    BY <1>a, CallsInEach
  <2> QED BY <1>7, <1>a, <2>2, <2>3, <2>4, CallsMove DEF CallInStep, Asking, Leave
<1>8. ASSUME NEW q \in Calls, RecordEnd(q) PROVE CallsInStep'
  <2>1. At(q, "over")
    BY <1>8 DEF RecordEnd
  <2>2. Moves(q, "over")
    BY <1>a, <2>1, AtMoves
  <2>3. UNCHANGED <<mount, asked>> /\ \A m \in Askers : pending'[m] \subseteq pending[m]
    BY <1>8 DEF RecordEnd, asker, serve
  <2>4. CallInStep(q)
    BY <1>a, CallsInEach
  <2> QED BY <1>8, <1>a, <2>2, <2>3, <2>4, CallsMove DEF CallInStep, Asking, RecordEnd
<1>9. CASE TurnDone
  BY <1>a, <1>9, CallsSame DEF TurnDone, asker, kernel, serve
<1>10. CASE StopTurn
  BY <1>a, <1>10, CallsSame DEF StopTurn, asker, kernel, router, history, serve
<1>11. CASE Reload
  BY <1>a, <1>11, CallsSame DEF Reload, asker, router, history, serve
<1>12. CASE Dispose
  <2>1. UNCHANGED <<call, mount, asked>>
    BY <1>12 DEF Dispose, router, history, serve
  <2>2. \A m \in Askers : pending'[m] \subseteq pending[m]
    BY <1>12, <1>a DEF Typed, Dispose, router, history, serve
  <2>3. ASSUME NEW p \in Calls PROVE CallInStep(p)'
    <3>1. CallInStep(p)
      BY <1>a, CallsInEach
    <3> QED BY <2>1, <2>2, <3>1 DEF CallInStep
  <2> QED BY <2>3, EachCallIn
<1>13. CASE Build
  <2>1. UNCHANGED <<call, asked, pending>> /\ mount' = mount + 1
    BY <1>13 DEF Build, router, history, serve
  <2>2. ASSUME NEW p \in Calls PROVE CallInStep(p)'
    <3>1. CallInStep(p)
      BY <1>a, CallsInEach
    <3> QED BY <1>b, <2>1, <3>1 DEF CallInStep
  <2> QED BY <2>2, EachCallIn
<1>14. CASE Provide
  BY <1>a, <1>14, CallsSame DEF Provide, asker, router, history, serve
<1>15. CASE UiDown
  BY <1>a, <1>15, CallsSame DEF UiDown, asker, history, serve
<1>16. CASE UiUp
  BY <1>a, <1>16, CallsSame DEF UiUp, asker, history, serve
<1>17. CASE HlPrint
  BY <1>a, <1>17, CallsSame DEF HlPrint, asker, kernel, history, serve
<1>18. CASE ReadLine
  BY <1>a, <1>18, CallsSame DEF ReadLine, asker, kernel, history, serve
<1>19. CASE Answer
  <2>1. UNCHANGED <<call, mount, asked>>
    BY <1>19 DEF Answer, kernel, serve
  <2>2. \A m \in Askers : pending'[m] \subseteq pending[m]
    <3>1. PICK m, held : pending' = [pending EXCEPT ![m] = pending[m] \ held]
      BY <1>19 DEF Answer
    <3> QED BY <1>a, <3>1 DEF Typed
  <2>3. ASSUME NEW p \in Calls PROVE CallInStep(p)'
    <3>1. CallInStep(p)
      BY <1>a, CallsInEach
    <3> QED BY <2>1, <2>2, <3>1 DEF CallInStep
  <2> QED BY <2>3, EachCallIn
<1>20. CASE Send
  BY <1>a, <1>20, CallsSame DEF Send, asker, kernel, history, serve
<1>21. CASE Scan
  BY <1>a, <1>21, CallsSame DEF Scan, asker, kernel, router, history
<1>22. CASE PendingAsk
  BY <1>a, <1>22, CallsSame DEF PendingAsk, asker, kernel, router, history
<1>23. ASSUME NEW q \in Calls, PostAnswer(q) PROVE CallsInStep'
  BY <1>a, <1>23, CallsSame DEF PostAnswer, asker, kernel, router, history
<1>24. ASSUME NEW p \in posts, ClaimArm(p) PROVE CallsInStep'
  BY <1>a, <1>24, CallsSame DEF ClaimArm, asker, kernel, router, history
<1>25. ASSUME NEW p \in posts, WriteAnswer(p) PROVE CallsInStep'
  BY <1>a, <1>25, CallsSame DEF WriteAnswer, asker, kernel, router, history
<1>26. CASE Die
  <2>1. UNCHANGED <<mount, asked, pending>>
    BY <1>26 DEF Die, asker, history
  <2>2. call' = [q \in Calls |-> IF q \in Busy THEN [call[q] EXCEPT !.at = "dead"] ELSE call[q]]
    BY <1>26 DEF Die
  <2>3. ASSUME NEW p \in Calls PROVE CallInStep(p)'
    <3>1. CallInStep(p) /\ call[p] \in CallT
      BY <1>a, CallsInEach, CallIs
    <3>2. CASE p \notin Busy
      <4>1. call'[p] = call[p]
        BY <2>2, <3>2
      <4> QED BY <2>1, <3>1, <4>1 DEF CallInStep
    <3>3. CASE p \in Busy
      <4>1. call'[p].at = "dead" /\ call'[p].mount = call[p].mount /\ call'[p].id = call[p].id
        BY <2>2, <3>1, <3>3 DEF CallT
      <4>2. call[p].at # "idle"
        BY <3>3 DEF Busy
      <4> QED BY <2>1, <3>1, <4>1, <4>2 DEF CallInStep, Asking
    <3> QED BY <3>2, <3>3
  <2> QED BY <2>3, EachCallIn
<1>27. CASE Respawn
  <2>1. UNCHANGED <<call, asked, pending>> /\ mount' = mount + 1
    BY <1>27 DEF Respawn, history
  <2>2. ASSUME NEW p \in Calls PROVE CallInStep(p)'
    <3>1. CallInStep(p)
      BY <1>a, CallsInEach
    <3> QED BY <1>b, <2>1, <3>1 DEF CallInStep
  <2> QED BY <2>2, EachCallIn
<1>28. CASE UNCHANGED vars
  BY <1>a, <1>28, CallsSame DEF vars, asker, kernel, router, history, serve
<1> QED
  BY <1>1, <1>2, <1>3, <1>4, <1>5, <1>6, <1>7, <1>8, <1>9, <1>10, <1>11, <1>12, <1>13,
     <1>14, <1>15, <1>16, <1>17, <1>18, <1>19, <1>20, <1>21, <1>22, <1>23, <1>24, <1>25,
     <1>26, <1>27, <1>28
  DEF Next, CallStep, Remounts, Child, Supervise

LEMMA IdsStay ==
  ASSUME IdsUp, asked \subseteq Calls,
         \A q \in Calls : call'[q].id = call[q].id /\ call'[q].mount = call[q].mount,
         UNCHANGED <<seq, mount, asked, strayed>>
  PROVE  IdsUp'
<1>1. Numbered' = Numbered /\ Numbered \subseteq Calls
  BY DEF Numbered
<1>2. \A m \in Askers : seq'[m] <= Cardinality(Numbered')
  BY <1>1 DEF IdsUp
<1>3. \A q \in Numbered' : call'[q].id <= seq'[call'[q].mount]
  BY <1>1 DEF IdsUp
<1>4. \A p, q \in Numbered' :
        p # q /\ call'[p].mount = call'[q].mount => call'[p].id # call'[q].id
  BY <1>1 DEF IdsUp
<1>5. ASSUME NEW p \in Calls, After(p) PROVE After(p)'
  BY <1>1, <1>5 DEF After
<1>6. ~strayed' => \A p \in asked' : After(p)'
  BY <1>5 DEF IdsUp
<1> QED BY <1>2, <1>3, <1>4, <1>6 DEF IdsUp

LEMMA IdsSame ==
  ASSUME IdsUp, asked \subseteq Calls, UNCHANGED <<call, seq, mount, asked, strayed>>
  PROVE  IdsUp'
  BY IdsStay

LEMMA IdsMove ==
  ASSUME IdsUp, asked \subseteq Calls, NEW q \in Calls, NEW pc, Moves(q, pc),
         UNCHANGED <<seq, mount, asked, strayed>>
  PROVE  IdsUp'
  BY IdsStay DEF Moves

\* A new Asker goes on after the ids recorded.
LEMMA IdsNew ==
  ASSUME Typed, CallsInStep, IdsUp, mount < MaxMounts,
         mount' = mount + 1, seq' = [seq EXCEPT ![mount'] = LastAskSeq],
         UNCHANGED <<call, asked, strayed>>
  PROVE  IdsUp'
<1>1. /\ MaxMounts \in Nat /\ mount \in Nat /\ mount' \in Askers /\ asked \subseteq Calls
      /\ \A m \in Askers : seq[m] \in Nat /\ m \in Nat
      /\ \A q \in Calls : /\ call[q].id \in Nat /\ call[q].mount \in Nat
                          /\ call[q].mount <= mount
  BY Mounts, CallIs DEF Typed, CallsInStep
<1>2. \A m \in Askers : seq'[m] = IF m = mount' THEN LastAskSeq ELSE seq[m]
  BY <1>1 DEF Typed
<1>3. Numbered' = Numbered /\ Numbered \subseteq Calls
  BY DEF Numbered
<1>4. \A m \in Askers : seq'[m] <= Cardinality(Numbered')
  BY <1>2, <1>3, LastAskIs DEF IdsUp
<1>5. \A q \in Numbered : call[q].mount \in Askers /\ call[q].mount # mount'
  <2> TAKE q \in Numbered
  <2>1. q \in Calls /\ call[q].id # 0
    BY DEF Numbered
  <2>2. call[q].mount # 0
    BY <2>1 DEF CallsInStep
  <2> QED BY <1>1, <2>1, <2>2, Mounts
<1>6. \A q \in Numbered' : call'[q].id <= seq'[call'[q].mount]
  BY <1>2, <1>3, <1>5 DEF IdsUp
<1>7. \A p, q \in Numbered' :
        p # q /\ call'[p].mount = call'[q].mount => call'[p].id # call'[q].id
  BY <1>3 DEF IdsUp
<1>8. ASSUME NEW p \in asked, After(p) PROVE After(p)'
  <2>1. ASSUME NEW m \in Askers, call[p].mount <= m, m <= mount' PROVE call[p].id <= seq'[m]
    <3>1. CASE m = mount'
      BY <1>2, <3>1, LastAskIs
    <3>2. CASE m # mount'
      <4>1. m <= mount
        BY <1>1, <2>1, <3>2
      <4> QED BY <1>2, <1>8, <2>1, <3>2, <4>1 DEF After
    <3> QED BY <3>1, <3>2
  <2>2. \A q \in Numbered' : call'[p].mount < call'[q].mount => call'[p].id < call'[q].id
    BY <1>3, <1>8 DEF After
  <2> QED BY <2>1, <2>2 DEF After
<1>9. ~strayed' => \A p \in asked' : After(p)'
  BY <1>8 DEF IdsUp
<1> QED BY <1>4, <1>6, <1>7, <1>9 DEF IdsUp

LEMMA IdsStep ==
  ASSUME IInv, [Next]_vars
  PROVE  IdsUp'
<1>a. Typed /\ RowsInStep /\ CallsInStep /\ IdsUp /\ asked \subseteq Calls
  BY DEF IInv, Typed
<1>b. /\ MaxMounts \in Nat /\ mount \in 1 .. MaxMounts /\ mount \in Nat
      /\ \A q \in Calls : call[q].mount \in 0 .. mount /\ call[q].id \in Nat
  BY <1>a, Mounts, CallIs DEF Typed, CallsInStep
<1>c. /\ IsFiniteSet(Numbered) /\ Cardinality(Numbered) \in Nat /\ Numbered \subseteq Calls
      /\ asked \subseteq Numbered
  <2>1. Numbered \subseteq Calls /\ asked \subseteq Numbered
    BY <1>a DEF Numbered, CallsInStep
  <2> QED BY <2>1, AskAssumption, FS_Subset, FS_CardinalityType
<1>d. \A q \in Numbered : call[q].mount \in Askers /\ call[q].mount # 0
  BY <1>a, <1>b, CallIs, Mounts DEF CallsInStep, Numbered
<1>1. ASSUME NEW q \in Calls, StartCall(q) PROVE IdsUp'
  <2>1. call[q].at = "idle" /\ UNCHANGED <<seq, mount, asked, strayed>>
    BY <1>1 DEF StartCall, asker, router, history, serve
  <2>2. PICK pc, n : call' = [call EXCEPT ![q].at = pc, ![q].mount = n]
    BY <1>1 DEF StartCall
  <2>3. \A p \in Calls : call'[p].id = call[p].id /\ (p # q => call'[p] = call[p])
    BY <1>a, <2>2 DEF Typed, CallT
  <2>4. q \notin Numbered /\ Numbered' = Numbered
    BY <1>a, <2>1, <2>3 DEF Numbered, CallsInStep
  <2>5. \A p \in Numbered : call'[p] = call[p]
    BY <1>c, <2>3, <2>4
  <2>6. ASSUME NEW p \in asked, After(p) PROVE After(p)'
    <3>1. p \in Numbered
      BY <1>c
    <3> QED BY <2>1, <2>4, <2>5, <2>6, <3>1 DEF After
  <2>7. ~strayed' => \A p \in asked' : After(p)'
    BY <1>a, <2>1, <2>6 DEF IdsUp
  <2>8. \A k \in Askers : seq'[k] <= Cardinality(Numbered')
    BY <1>a, <2>1, <2>4 DEF IdsUp
  <2>9. \A p \in Numbered' : call'[p].id <= seq'[call'[p].mount]
    BY <1>a, <2>1, <2>4, <2>5 DEF IdsUp
  <2>10. \A p, r \in Numbered' :
           p # r /\ call'[p].mount = call'[r].mount => call'[p].id # call'[r].id
    BY <1>a, <2>4, <2>5 DEF IdsUp
  <2> QED BY <2>7, <2>8, <2>9, <2>10 DEF IdsUp
<1>2. ASSUME NEW q \in Calls, TakeSlot(q) PROVE IdsUp'
  <2>1. At(q, "putting") \/ At(q, "left")
    BY <1>2 DEF TakeSlot
  <2>2. Moves(q, "putting") \/ Moves(q, "left")
    BY <1>a, <2>1, AtMoves
  <2>3. UNCHANGED <<seq, mount, asked, strayed>>
    BY <1>2 DEF TakeSlot, kernel, router, history, serve
  <2> QED BY <1>a, <2>2, <2>3, IdsMove
<1>3. ASSUME NEW q \in Calls, Register(q) PROVE IdsUp'
  <2> DEFINE m == call[q].mount
  <2>1. /\ call[q].at = "putting" /\ UNCHANGED <<mount, asked>> /\ (strayed => strayed')
        /\ seq' = [seq EXCEPT ![m] = seq[m] + 1]
    BY <1>3 DEF Register, history
  <2>2. m \in Askers /\ call[q].id = 0 /\ q \notin Numbered /\ seq[m] \in Nat
    <3>1. m # 0 /\ call[q].id = 0
      BY <1>a, <2>1 DEF CallsInStep
    <3>2. m \in Askers
      BY <1>b, <3>1, Mounts
    <3> QED BY <1>a, <3>1, <3>2 DEF Numbered, Typed
  <2>3. \A k \in Askers : /\ seq[k] \in Nat /\ seq'[k] \in Nat
                         /\ seq'[k] = IF k = m THEN seq[m] + 1 ELSE seq[k]
    BY <1>a, <2>1, <2>2 DEF Typed
  <2>4. call' = [call EXCEPT ![q].at = "placed", ![q].id = seq'[m]]
    BY <1>3 DEF Register
  <2>5. /\ call'[q].mount = m /\ call'[q].id = seq'[m]
        /\ \A p \in Calls : p # q => call'[p] = call[p]
    BY <1>a, <2>4 DEF Typed, CallT
  <2> HIDE DEF m
  <2>6. call'[q].id = seq[m] + 1
    BY <2>2, <2>3, <2>5
  <2>7. Numbered' = Numbered \cup {q}
    BY <2>2, <2>5, <2>6 DEF Numbered
  <2>8. Cardinality(Numbered') = Cardinality(Numbered) + 1
    BY <1>c, <2>2, <2>7, FS_AddElement
  <2>9. \A k \in Askers : seq'[k] <= Cardinality(Numbered')
    BY <1>a, <1>c, <2>2, <2>3, <2>8 DEF IdsUp
  <2>10. \A p \in Numbered : call'[p] = call[p] /\ call[p].id \in Nat /\ call[p].mount \in Askers
                            /\ call[p].id <= seq[call[p].mount]
    BY <1>a, <1>b, <1>c, <1>d, <2>2, <2>5 DEF IdsUp
  <2>11. \A p \in Numbered' : call'[p].id <= seq'[call'[p].mount]
    BY <2>2, <2>3, <2>5, <2>7, <2>10
  <2>12. \A p, r \in Numbered' :
           p # r /\ call'[p].mount = call'[r].mount => call'[p].id # call'[r].id
    <3>1. \A p \in Numbered : call[p].mount = m => call[p].id # call'[q].id
      BY <2>2, <2>6, <2>10
    <3>2. \A p, r \in Numbered : p # r /\ call[p].mount = call[r].mount => call[p].id # call[r].id
      BY <1>a DEF IdsUp
    <3> QED BY <2>5, <2>7, <2>10, <3>1, <3>2
  <2>13. ASSUME NEW p \in asked, After(p) PROVE After(p)'
    <3>1. p \in Numbered /\ call'[p] = call[p] /\ call[p].id \in Nat
      BY <1>c, <2>10
    <3>2. ASSUME NEW k \in Askers, call[p].mount <= k, k <= mount PROVE call[p].id <= seq'[k]
      <4>1. call[p].id <= seq[k]
        BY <2>13, <3>2 DEF After
      <4> QED BY <2>3, <3>1, <4>1
    <3>3. ASSUME NEW r \in Numbered', call[p].mount < call'[r].mount
          PROVE  call[p].id < call'[r].id
      <4>1. CASE r \in Numbered
        BY <2>10, <2>13, <3>3, <4>1 DEF After
      <4>2. CASE r = q
        <5>1. call[p].mount <= m /\ m <= mount
          <6>1. call[p].mount < m
            BY <2>5, <3>3, <4>2
          <6>2. m \in Nat /\ m <= mount
            BY <1>b DEF m
          <6>3. call[p].mount \in Nat
            BY <2>10, <3>1, Mounts
          <6> QED BY <6>1, <6>2, <6>3
        <5>2. call[p].id <= seq[m]
          BY <2>2, <2>13, <5>1 DEF After
        <5> QED BY <2>2, <2>6, <3>1, <4>2, <5>2
      <4> QED BY <2>7, <4>1, <4>2
    <3> QED BY <2>1, <3>1, <3>2, <3>3 DEF After
  <2>14. ~strayed' => \A p \in asked' : After(p)'
    BY <1>a, <2>1, <2>13 DEF IdsUp
  <2> QED BY <2>9, <2>11, <2>12, <2>14 DEF IdsUp
<1>4. ASSUME NEW q \in Calls, Announce(q) PROVE IdsUp'
  <2>1. /\ call[q].at = "placed" /\ asked' = asked \cup {q} /\ UNCHANGED <<seq, mount>>
        /\ strayed' = (strayed \/ call[q].mount # service)
    BY <1>4 DEF Announce, asker, serve
  <2>2. At(q, "waiting")
    BY <1>4 DEF Announce
  <2>3. \A p \in Calls : call'[p].id = call[p].id /\ call'[p].mount = call[p].mount
    BY <1>a, <2>2, AtMoves DEF Moves
  <2>4. Numbered' = Numbered /\ q \in Numbered
    BY <1>a, <2>1, <2>3 DEF Numbered, CallsInStep, Asking
  <2>5. ASSUME NEW p \in Calls, After(p) PROVE After(p)'
    BY <1>c, <2>1, <2>3, <2>4, <2>5 DEF After
  <2>6. ASSUME ~strayed' PROVE After(q)
    <3>1. call[q].mount = mount
      BY <1>a, <1>d, <2>1, <2>4, <2>6 DEF RowsInStep
    <3>2. \A m \in Askers : call[q].mount <= m /\ m <= mount => m = mount
      BY <1>b, <3>1, Mounts
    <3>3. call[q].id <= seq[mount]
      BY <1>a, <2>4, <3>1 DEF IdsUp
    <3>4. \A p \in Numbered : ~(call[q].mount < call[p].mount)
      BY <1>b, <1>c, <3>1
    <3> QED BY <3>2, <3>3, <3>4 DEF After
  <2>7. ~strayed' => \A p \in asked' : After(p)'
    BY <1>a, <2>1, <2>5, <2>6 DEF IdsUp
  <2>8. \A m \in Askers : seq'[m] <= Cardinality(Numbered')
    BY <1>a, <2>1, <2>4 DEF IdsUp
  <2>9. \A p \in Numbered' : call'[p].id <= seq'[call'[p].mount]
    BY <1>a, <1>c, <2>1, <2>3, <2>4 DEF IdsUp
  <2>10. \A p, r \in Numbered' :
           p # r /\ call'[p].mount = call'[r].mount => call'[p].id # call'[r].id
    BY <1>a, <1>c, <2>3, <2>4 DEF IdsUp
  <2> QED BY <2>7, <2>8, <2>9, <2>10 DEF IdsUp
<1>5. ASSUME NEW q \in Calls, Choose(q) PROVE IdsUp'
  <2>1. At(q, "answered") \/ At(q, "failing")
    BY <1>5 DEF Choose
  <2>2. Moves(q, "answered") \/ Moves(q, "failing")
    BY <1>a, <2>1, AtMoves
  <2>3. UNCHANGED <<seq, mount, asked, strayed>>
    BY <1>5 DEF Choose, asker, kernel, router, history, serve
  <2> QED BY <1>a, <2>2, <2>3, IdsMove
<1>6. ASSUME NEW q \in Calls, GiveUp(q) PROVE IdsUp'
  <2>1. At(q, "failed")
    BY <1>6 DEF GiveUp
  <2>2. Moves(q, "failed")
    BY <1>a, <2>1, AtMoves
  <2>3. UNCHANGED <<seq, mount, asked, strayed>>
    BY <1>6 DEF GiveUp, kernel, history, serve
  <2> QED BY <1>a, <2>2, <2>3, IdsMove
<1>7. ASSUME NEW q \in Calls, Leave(q) PROVE IdsUp'
  <2>1. At(q, "left")
    BY <1>7 DEF Leave
  <2>2. Moves(q, "left")
    BY <1>a, <2>1, AtMoves
  <2>3. UNCHANGED <<seq, mount, asked, strayed>>
    BY <1>7 DEF Leave, router, history, serve
  <2> QED BY <1>a, <2>2, <2>3, IdsMove
<1>8. ASSUME NEW q \in Calls, RecordEnd(q) PROVE IdsUp'
  <2>1. At(q, "over")
    BY <1>8 DEF RecordEnd
  <2>2. Moves(q, "over")
    BY <1>a, <2>1, AtMoves
  <2>3. UNCHANGED <<seq, mount, asked, strayed>>
    BY <1>8 DEF RecordEnd, asker, serve
  <2> QED BY <1>a, <2>2, <2>3, IdsMove
<1>9. CASE TurnDone
  BY <1>a, <1>9, IdsSame DEF TurnDone, asker, kernel, serve
<1>10. CASE StopTurn
  BY <1>a, <1>10, IdsSame DEF StopTurn, asker, kernel, router, history, serve
<1>11. CASE Reload
  BY <1>a, <1>11, IdsSame DEF Reload, asker, router, history, serve
<1>12. CASE Dispose
  BY <1>a, <1>12, IdsSame DEF Dispose, router, history, serve
<1>13. CASE Build
  <2>1. /\ mount' = mount + 1 /\ seq' = [seq EXCEPT ![mount'] = LastAskSeq]
        /\ UNCHANGED <<call, asked, strayed>>
    BY <1>13 DEF Build, router, history, serve
  <2>2. mount < MaxMounts
    <3>1. rows \in RowsLeft /\ rows # <<>> /\ Head(rows) = "build"
      BY <1>13, <1>a DEF Build, RowStep, RowsInStep
    <3>2. rows \in Building
      BY <3>1, PlanSteps DEF Leaves, Building
    <3> QED BY <1>a, <3>2 DEF RowsInStep
  <2> QED BY <1>a, <2>1, <2>2, IdsNew
<1>14. CASE Provide
  BY <1>a, <1>14, IdsSame DEF Provide, asker, router, history, serve
<1>15. CASE UiDown
  BY <1>a, <1>15, IdsSame DEF UiDown, asker, history, serve
<1>16. CASE UiUp
  BY <1>a, <1>16, IdsSame DEF UiUp, asker, history, serve
<1>17. CASE HlPrint
  BY <1>a, <1>17, IdsSame DEF HlPrint, asker, kernel, history, serve
<1>18. CASE ReadLine
  BY <1>a, <1>18, IdsSame DEF ReadLine, asker, kernel, history, serve
<1>19. CASE Answer
  BY <1>a, <1>19, IdsSame DEF Answer, kernel, serve
<1>20. CASE Send
  BY <1>a, <1>20, IdsSame DEF Send, asker, kernel, history, serve
<1>21. CASE Scan
  BY <1>a, <1>21, IdsSame DEF Scan, asker, kernel, router, history
<1>22. CASE PendingAsk
  BY <1>a, <1>22, IdsSame DEF PendingAsk, asker, kernel, router, history
<1>23. ASSUME NEW q \in Calls, PostAnswer(q) PROVE IdsUp'
  BY <1>a, <1>23, IdsSame DEF PostAnswer, asker, kernel, router, history
<1>24. ASSUME NEW p \in posts, ClaimArm(p) PROVE IdsUp'
  BY <1>a, <1>24, IdsSame DEF ClaimArm, asker, kernel, router, history
<1>25. ASSUME NEW p \in posts, WriteAnswer(p) PROVE IdsUp'
  BY <1>a, <1>25, IdsSame DEF WriteAnswer, asker, kernel, router, history
<1>26. CASE Die
  <2>1. UNCHANGED <<seq, mount, asked, strayed>>
    BY <1>26 DEF Die, asker, history
  <2>2. call' = [q \in Calls |-> IF q \in Busy THEN [call[q] EXCEPT !.at = "dead"] ELSE call[q]]
    BY <1>26 DEF Die
  <2>3. \A p \in Calls : call'[p].id = call[p].id /\ call'[p].mount = call[p].mount
    BY <1>a, <2>2 DEF Typed, CallT
  <2> QED BY <1>a, <2>1, <2>3, IdsStay
<1>27. CASE Respawn
  <2>1. /\ mount' = mount + 1 /\ seq' = [seq EXCEPT ![mount'] = LastAskSeq]
        /\ UNCHANGED <<call, asked, strayed>> /\ mount < MaxMounts
    BY <1>27 DEF Respawn, history
  <2> QED BY <1>a, <2>1, IdsNew
<1>28. CASE UNCHANGED vars
  BY <1>a, <1>28, IdsSame DEF vars, asker, kernel, router, history, serve
<1> QED
  BY <1>1, <1>2, <1>3, <1>4, <1>5, <1>6, <1>7, <1>8, <1>9, <1>10, <1>11, <1>12, <1>13,
     <1>14, <1>15, <1>16, <1>17, <1>18, <1>19, <1>20, <1>21, <1>22, <1>23, <1>24, <1>25,
     <1>26, <1>27, <1>28
  DEF Next, CallStep, Remounts, Child, Supervise

----------------------------------------------------------------------------
(* The answers.                                                            *)

\* A question recorded stays, with its id.
AskedKept ==
  asked \subseteq asked' /\ \A q \in asked : call'[q].id = call[q].id

LEMMA AskedSame ==
  ASSUME UNCHANGED <<call, asked>>
  PROVE  AskedKept
  BY DEF AskedKept

LEMMA AskedMove ==
  ASSUME Typed, NEW q \in Calls, NEW pc, Moves(q, pc), asked \subseteq asked'
  PROVE  AskedKept
  BY DEF AskedKept, Moves, Typed

LEMMA AskedStays ==
  ASSUME IInv, [Next]_vars
  PROVE  AskedKept
<1>a. Typed /\ CallsInStep /\ asked \subseteq Calls
  BY DEF IInv, Typed
<1>1. ASSUME NEW q \in Calls, StartCall(q) PROVE AskedKept
  <2>1. asked' = asked
    BY <1>1 DEF StartCall, asker, router, history, serve
  <2>2. PICK pc, m : call' = [call EXCEPT ![q].at = pc, ![q].mount = m]
    BY <1>1 DEF StartCall
  <2>3. \A p \in Calls : call'[p].id = call[p].id
    BY <1>a, <2>2 DEF Typed, CallT
  <2> QED BY <1>a, <2>1, <2>3 DEF AskedKept
<1>2. ASSUME NEW q \in Calls, TakeSlot(q) PROVE AskedKept
  <2>1. At(q, "putting") \/ At(q, "left")
    BY <1>2 DEF TakeSlot
  <2>2. Moves(q, "putting") \/ Moves(q, "left")
    BY <1>a, <2>1, AtMoves
  <2>3. asked \subseteq asked'
    BY <1>2 DEF TakeSlot, kernel, router, history, serve
  <2> QED BY <1>a, <2>2, <2>3, AskedMove
<1>3. ASSUME NEW q \in Calls, Register(q) PROVE AskedKept
  <2>1. asked' = asked /\ q \notin asked
    <3>1. call[q].at = "putting" /\ asked' = asked
      BY <1>3 DEF Register, kernel, router, history, serve
    <3>2. call[q].id = 0
      BY <1>a, <3>1 DEF CallsInStep
    <3> QED BY <1>a, <3>1, <3>2 DEF CallsInStep
  <2>2. PICK n : call' = [call EXCEPT ![q].at = "placed", ![q].id = n]
    BY <1>3 DEF Register
  <2>3. \A p \in Calls : p # q => call'[p] = call[p]
    BY <1>a, <2>2 DEF Typed
  <2> QED BY <1>a, <2>1, <2>3 DEF AskedKept
<1>4. ASSUME NEW q \in Calls, Announce(q) PROVE AskedKept
  <2>1. At(q, "waiting")
    BY <1>4 DEF Announce
  <2>2. Moves(q, "waiting")
    BY <1>a, <2>1, AtMoves
  <2>3. asked \subseteq asked'
    BY <1>4 DEF Announce, asker, serve
  <2> QED BY <1>a, <2>2, <2>3, AskedMove
<1>5. ASSUME NEW q \in Calls, Choose(q) PROVE AskedKept
  <2>1. At(q, "answered") \/ At(q, "failing")
    BY <1>5 DEF Choose
  <2>2. Moves(q, "answered") \/ Moves(q, "failing")
    BY <1>a, <2>1, AtMoves
  <2>3. asked \subseteq asked'
    BY <1>5 DEF Choose, asker, kernel, router, history, serve
  <2> QED BY <1>a, <2>2, <2>3, AskedMove
<1>6. ASSUME NEW q \in Calls, GiveUp(q) PROVE AskedKept
  <2>1. At(q, "failed")
    BY <1>6 DEF GiveUp
  <2>2. Moves(q, "failed")
    BY <1>a, <2>1, AtMoves
  <2>3. asked \subseteq asked'
    BY <1>6 DEF GiveUp, kernel, history, serve
  <2> QED BY <1>a, <2>2, <2>3, AskedMove
<1>7. ASSUME NEW q \in Calls, Leave(q) PROVE AskedKept
  <2>1. At(q, "left")
    BY <1>7 DEF Leave
  <2>2. Moves(q, "left")
    BY <1>a, <2>1, AtMoves
  <2>3. asked \subseteq asked'
    BY <1>7 DEF Leave, router, history, serve
  <2> QED BY <1>a, <2>2, <2>3, AskedMove
<1>8. ASSUME NEW q \in Calls, RecordEnd(q) PROVE AskedKept
  <2>1. At(q, "over")
    BY <1>8 DEF RecordEnd
  <2>2. Moves(q, "over")
    BY <1>a, <2>1, AtMoves
  <2>3. asked \subseteq asked'
    BY <1>8 DEF RecordEnd, asker, serve
  <2> QED BY <1>a, <2>2, <2>3, AskedMove
<1>9. CASE TurnDone
  BY <1>a, <1>9, AskedSame DEF TurnDone, asker, kernel, serve
<1>10. CASE StopTurn
  BY <1>a, <1>10, AskedSame DEF StopTurn, asker, kernel, router, history, serve
<1>11. CASE Reload
  BY <1>a, <1>11, AskedSame DEF Reload, asker, router, history, serve
<1>12. CASE Dispose
  BY <1>a, <1>12, AskedSame DEF Dispose, router, history, serve
<1>13. CASE Build
  BY <1>a, <1>13, AskedSame DEF Build, router, history, serve
<1>14. CASE Provide
  BY <1>a, <1>14, AskedSame DEF Provide, asker, router, history, serve
<1>15. CASE UiDown
  BY <1>a, <1>15, AskedSame DEF UiDown, asker, history, serve
<1>16. CASE UiUp
  BY <1>a, <1>16, AskedSame DEF UiUp, asker, history, serve
<1>17. CASE HlPrint
  BY <1>a, <1>17, AskedSame DEF HlPrint, asker, kernel, history, serve
<1>18. CASE ReadLine
  BY <1>a, <1>18, AskedSame DEF ReadLine, asker, kernel, history, serve
<1>19. CASE Answer
  BY <1>a, <1>19, AskedSame DEF Answer, kernel, serve
<1>20. CASE Send
  BY <1>a, <1>20, AskedSame DEF Send, asker, kernel, history, serve
<1>21. CASE Scan
  BY <1>a, <1>21, AskedSame DEF Scan, asker, kernel, router, history
<1>22. CASE PendingAsk
  BY <1>a, <1>22, AskedSame DEF PendingAsk, asker, kernel, router, history
<1>23. ASSUME NEW q \in Calls, PostAnswer(q) PROVE AskedKept
  BY <1>a, <1>23, AskedSame DEF PostAnswer, asker, kernel, router, history
<1>24. ASSUME NEW p \in posts, ClaimArm(p) PROVE AskedKept
  BY <1>a, <1>24, AskedSame DEF ClaimArm, asker, kernel, router, history
<1>25. ASSUME NEW p \in posts, WriteAnswer(p) PROVE AskedKept
  BY <1>a, <1>25, AskedSame DEF WriteAnswer, asker, kernel, router, history
<1>26. CASE Die
  <2>1. asked' = asked
    BY <1>26 DEF Die, asker, history
  <2>2. call' = [q \in Calls |-> IF q \in Busy THEN [call[q] EXCEPT !.at = "dead"] ELSE call[q]]
    BY <1>26 DEF Die
  <2>3. \A p \in Calls : call'[p].id = call[p].id
    BY <1>a, <2>2 DEF Typed, CallT
  <2> QED BY <1>a, <2>1, <2>3 DEF AskedKept
<1>27. CASE Respawn
  BY <1>a, <1>27, AskedSame DEF Respawn, history
<1>28. CASE UNCHANGED vars
  BY <1>a, <1>28, AskedSame DEF vars, asker, kernel, router, history, serve
<1> QED
  BY <1>1, <1>2, <1>3, <1>4, <1>5, <1>6, <1>7, <1>8, <1>9, <1>10, <1>11, <1>12, <1>13,
     <1>14, <1>15, <1>16, <1>17, <1>18, <1>19, <1>20, <1>21, <1>22, <1>23, <1>24, <1>25,
     <1>26, <1>27, <1>28
  DEF Next, CallStep, Remounts, Child, Supervise

LEMMA WrittenStays ==
  ASSUME AskedKept, NEW l, Written(l)
  PROVE  l.for \in asked' /\ l.id = call'[l.for].id
  BY DEF AskedKept, Written, Id

LEMMA LinesStay ==
  ASSUME LinesWritten, AskedKept, UNCHANGED <<inp, posts, pump>>
  PROVE  LinesWritten'
<1>1. \A i \in 1 .. Len(inp) : Written(inp[i])'
  BY DEF LinesWritten, Written, Id, AskedKept
<1>2. \A p \in posts : p.for \in asked' /\ p.id = call'[p.for].id
  BY WrittenStays DEF LinesWritten
<1>3. pump.at # "idle" => pump.line.for \in asked' /\ pump.line.id = call'[pump.line.for].id
  BY WrittenStays DEF LinesWritten
<1> QED BY <1>1, <1>2, <1>3 DEF LinesWritten, Written, Id

LEMMA LinesStep ==
  ASSUME IInv, [Next]_vars
  PROVE  LinesWritten'
<1>a. Typed /\ LinesWritten
  BY DEF IInv
<1>b. AskedKept
  BY AskedStays
<1>c. inp \in Seq(LineT)
  BY <1>a DEF Typed
<1>d. \A l : Written(l) => l.for \in asked' /\ l.id = call'[l.for].id
  BY <1>b, WrittenStays
<1>e. \A i \in 1 .. Len(inp) : inp[i].for \in asked' /\ inp[i].id = call'[inp[i].for].id
  BY <1>a, <1>d DEF LinesWritten
<1>f. \A p \in posts : p.for \in asked' /\ p.id = call'[p.for].id
  BY <1>a, <1>d DEF LinesWritten
<1>g. pump.at # "idle" => pump.line.for \in asked' /\ pump.line.id = call'[pump.line.for].id
  BY <1>a, <1>d DEF LinesWritten
<1>1. ASSUME NEW q \in Calls, StartCall(q) PROVE LinesWritten'
  BY <1>a, <1>b, <1>1, LinesStay DEF StartCall, asker, router, history, serve
<1>2. ASSUME NEW q \in Calls, TakeSlot(q) PROVE LinesWritten'
  BY <1>a, <1>b, <1>2, LinesStay DEF TakeSlot, kernel, router, history, serve
<1>3. ASSUME NEW q \in Calls, Register(q) PROVE LinesWritten'
  BY <1>a, <1>b, <1>3, LinesStay DEF Register, kernel, router, history, serve
<1>4. ASSUME NEW q \in Calls, Announce(q) PROVE LinesWritten'
  BY <1>a, <1>b, <1>4, LinesStay DEF Announce, asker, serve
<1>5. ASSUME NEW q \in Calls, Choose(q) PROVE LinesWritten'
  BY <1>a, <1>b, <1>5, LinesStay DEF Choose, asker, kernel, router, history, serve
<1>6. ASSUME NEW q \in Calls, GiveUp(q) PROVE LinesWritten'
  BY <1>a, <1>b, <1>6, LinesStay DEF GiveUp, kernel, history, serve
<1>7. ASSUME NEW q \in Calls, Leave(q) PROVE LinesWritten'
  BY <1>a, <1>b, <1>7, LinesStay DEF Leave, router, history, serve
<1>8. ASSUME NEW q \in Calls, RecordEnd(q) PROVE LinesWritten'
  BY <1>a, <1>b, <1>8, LinesStay DEF RecordEnd, asker, serve
<1>9. CASE TurnDone
  BY <1>a, <1>b, <1>9, LinesStay DEF TurnDone, asker, kernel, serve
<1>10. CASE StopTurn
  BY <1>a, <1>b, <1>10, LinesStay DEF StopTurn, asker, kernel, router, history, serve
<1>11. CASE Reload
  BY <1>a, <1>b, <1>11, LinesStay DEF Reload, asker, router, history, serve
<1>12. CASE Dispose
  BY <1>a, <1>b, <1>12, LinesStay DEF Dispose, router, history, serve
<1>13. CASE Build
  BY <1>a, <1>b, <1>13, LinesStay DEF Build, router, history, serve
<1>14. CASE Provide
  BY <1>a, <1>b, <1>14, LinesStay DEF Provide, asker, router, history, serve
<1>15. CASE UiDown
  BY <1>a, <1>b, <1>15, LinesStay DEF UiDown, asker, history, serve
<1>16. CASE UiUp
  BY <1>a, <1>b, <1>16, LinesStay DEF UiUp, asker, history, serve
<1>17. CASE HlPrint
  BY <1>a, <1>b, <1>17, LinesStay DEF HlPrint, asker, kernel, history, serve
<1>18. CASE ReadLine
  <2>1. /\ inp # <<>> /\ inp' = Tail(inp) /\ posts' = posts
        /\ pump' = pump \/ (pump'.line = Head(inp))
    BY <1>18 DEF ReadLine, asker, kernel, history, serve
  <2>2. 1 \in 1 .. Len(inp) /\ Head(inp) = inp[1]
    BY <1>c, <2>1
  <2>3. \A i \in 1 .. Len(inp') : i + 1 \in 1 .. Len(inp) /\ inp'[i] = inp[i + 1]
    BY <1>c, <2>1
  <2>4. \A i \in 1 .. Len(inp') : inp'[i].for \in asked' /\ inp'[i].id = call'[inp'[i].for].id
    BY <1>e, <2>3
  <2>5. pump'.at # "idle" => pump'.line.for \in asked' /\ pump'.line.id = call'[pump'.line.for].id
    BY <1>e, <1>g, <2>1, <2>2
  <2> QED BY <1>f, <2>1, <2>4, <2>5 DEF LinesWritten, Written, Id
<1>19. CASE Answer
  <2>1. /\ pump.at = "answer" /\ UNCHANGED <<inp, posts>>
        /\ pump'.at = "idle" \/ pump'.line = pump.line
    BY <1>19 DEF Answer, kernel, serve
  <2> QED BY <1>e, <1>f, <1>g, <2>1 DEF LinesWritten, Written, Id
<1>20. CASE Send
  <2>1. pump'.at = "idle" /\ UNCHANGED <<inp, posts>>
    BY <1>20 DEF Send, asker, kernel, history, serve
  <2> QED BY <1>e, <1>f, <2>1 DEF LinesWritten, Written, Id
<1>21. CASE Scan
  BY <1>a, <1>b, <1>21, LinesStay DEF Scan, asker, kernel, router, history
<1>22. CASE PendingAsk
  BY <1>a, <1>b, <1>22, LinesStay DEF PendingAsk, asker, kernel, router, history
<1>23. ASSUME NEW q \in Calls, PostAnswer(q) PROVE LinesWritten'
  <2>1. /\ UNCHANGED <<inp, pump, call, asked>> /\ q \in asked
        /\ posts' = posts \cup {[at |-> "claim", n |-> budget["posts"], id |-> Id(q), for |-> q]}
    BY <1>23 DEF PostAnswer, asker, kernel, router, history
  <2>2. \A p \in posts' : p.for \in asked' /\ p.id = call'[p.for].id
    BY <1>f, <2>1 DEF Id
  <2> QED BY <1>e, <1>g, <2>1, <2>2 DEF LinesWritten, Written, Id
<1>24. ASSUME NEW p \in posts, ClaimArm(p) PROVE LinesWritten'
  <2>1. UNCHANGED <<inp, pump>>
    BY <1>24 DEF ClaimArm, asker, kernel, router, history
  <2>2. posts' \subseteq posts \cup {[p EXCEPT !.at = Pipe]}
    BY <1>24 DEF ClaimArm
  <2>3. [p EXCEPT !.at = Pipe].for = p.for /\ [p EXCEPT !.at = Pipe].id = p.id
    BY <1>a DEF Typed, PostT
  <2>4. \A r \in posts' : r.for \in asked' /\ r.id = call'[r.for].id
    BY <1>f, <2>2, <2>3
  <2> QED BY <1>e, <1>g, <2>1, <2>4 DEF LinesWritten, Written, Id
<1>25. ASSUME NEW p \in posts, WriteAnswer(p) PROVE LinesWritten'
  <2>1. /\ posts' = posts \ {p} /\ pump' = pump
        /\ inp' = inp \/ inp' = Append(inp, [id |-> p.id, for |-> p.for])
    BY <1>25 DEF WriteAnswer, asker, kernel, router, history
  <2>2. ASSUME NEW i \in 1 .. Len(inp')
        PROVE  inp'[i].for \in asked' /\ inp'[i].id = call'[inp'[i].for].id
    <3>1. CASE inp' = inp
      BY <1>e, <3>1
    <3>2. CASE inp' = Append(inp, [id |-> p.id, for |-> p.for])
      <4>1. [id |-> p.id, for |-> p.for] \in LineT
        BY <1>a DEF Typed, PostT, LineT
      <4>2. (i \in 1 .. Len(inp) /\ inp'[i] = inp[i]) \/ inp'[i] = [id |-> p.id, for |-> p.for]
        BY <1>c, <3>2, <4>1
      <4> QED BY <1>e, <1>f, <4>2
    <3> QED BY <2>1, <3>1, <3>2
  <2>3. \A r \in posts' : r.for \in asked' /\ r.id = call'[r.for].id
    BY <1>f, <2>1
  <2> QED BY <1>g, <2>1, <2>2, <2>3 DEF LinesWritten, Written, Id
<1>26. CASE Die
  <2>1. inp' = <<>> /\ pump'.at = "idle"
    BY <1>26 DEF Die
  <2>2. posts' = {IF p.at = "write" THEN [p EXCEPT !.at = "broken"] ELSE p : p \in posts}
    BY <1>26 DEF Die
  <2>3. ASSUME NEW r \in posts' PROVE r.for \in asked' /\ r.id = call'[r.for].id
    <3>1. PICK p \in posts : r = IF p.at = "write" THEN [p EXCEPT !.at = "broken"] ELSE p
      BY <2>2
    <3>2. r.for = p.for /\ r.id = p.id
      BY <1>a, <3>1 DEF Typed, PostT
    <3> QED BY <1>f, <3>2
  <2>4. 1 .. Len(inp') = {}
    BY <2>1
  <2> QED BY <2>1, <2>3, <2>4 DEF LinesWritten, Written, Id
<1>27. CASE Respawn
  BY <1>a, <1>b, <1>27, LinesStay DEF Respawn, history
<1>28. CASE UNCHANGED vars
  BY <1>a, <1>b, <1>28, LinesStay DEF vars, asker, kernel, router, history, serve
<1> QED
  BY <1>1, <1>2, <1>3, <1>4, <1>5, <1>6, <1>7, <1>8, <1>9, <1>10, <1>11, <1>12, <1>13,
     <1>14, <1>15, <1>16, <1>17, <1>18, <1>19, <1>20, <1>21, <1>22, <1>23, <1>24, <1>25,
     <1>26, <1>27, <1>28
  DEF Next, CallStep, Remounts, Child, Supervise

\* A held question whose id an answer names is the one that it was written
\* for.
LEMMA AnswerFits ==
  ASSUME IInv, ~strayed, pump.at = "answer", pump.to # 0 \/ answerer # 0,
         NEW k \in Askers, k = IF pump.to # 0 THEN pump.to ELSE answerer,
         NEW q \in pending[k], Id(q) = pump.line.id
  PROVE  pump.line.for = q
<1> DEFINE p == pump.line.for
<1>a. Typed /\ RowsInStep /\ CallsInStep /\ ToldOwn
  BY DEF IInv
<1>b. /\ MaxMounts \in Nat /\ Askers = 1 .. MaxMounts /\ mount \in 1 .. MaxMounts
      /\ answerer \in 0 .. mount /\ pump.to \in 0 .. MaxMounts
      /\ \A r \in Calls : call[r].mount \in 0 .. MaxMounts
  BY <1>a, Mounts, CallIs DEF Typed, PumpT
<1>1. call[q].id = pump.line.id /\ q \in Calls
  BY <1>a DEF Id, Typed
<1>2. p \in asked /\ call[p].id = pump.line.id /\ p \in Calls
  BY <1>a DEF IInv, LinesWritten, Written, Id, Typed
<1> HIDE DEF p
<1>3. call[q].mount = k /\ q \in Numbered
  BY <1>a, <1>1 DEF CallsInStep, Numbered
<1>4. p \in Numbered
  BY <1>a, <1>2 DEF CallsInStep, Numbered
<1>5. call[q].at # "dead"
  <2>1. call[q].at = "dead" => Buried(q)
    BY <1>1 DEF IInv, DeadAreGone
  <2>2. CASE pump.to # 0
    <3>1. k = pump.to
      BY <2>2
    <3>2. ~(k < pump.to)
      BY <1>b, <3>1
    <3> QED BY <1>3, <2>1, <2>2, <3>2 DEF Buried
  <2>3. CASE pump.to = 0
    <3>1. k = answerer /\ answerer # 0
      BY <2>3
    <3>2. ~(k < answerer)
      BY <1>b, <3>1
    <3> QED BY <1>3, <2>1, <3>1, <3>2 DEF Buried
  <2> QED BY <2>2, <2>3
<1>6. q \in asked \/ k = service
  BY <1>a, <1>1, <1>5 DEF ToldOwn
<1>7. After(p) /\ (q \in asked => After(q))
  BY <1>2 DEF IInv, IdsUp
<1>8. call[p].id \in Nat /\ call[p].id = call[q].id
  BY <1>a, <1>1, <1>2, CallIs
<1>9. ~(call[p].mount < call[q].mount)
  BY <1>3, <1>7, <1>8 DEF After
<1>10. ~(call[q].mount < call[p].mount)
  <2>1. CASE q \in asked
    BY <1>4, <1>7, <1>8, <2>1 DEF After
  <2>2. CASE k = service
    <3>1. k = mount
      BY <1>a, <1>b, <2>2 DEF RowsInStep
    <3>2. call[p].mount <= mount
      BY <1>a, <1>2 DEF CallsInStep
    <3> QED BY <1>b, <1>2, <1>3, <3>1, <3>2
  <2> QED BY <1>6, <2>1, <2>2
<1>11. call[p].mount = call[q].mount
  BY <1>b, <1>1, <1>2, <1>9, <1>10
<1>12. p = q
  BY <1>3, <1>4, <1>8, <1>11 DEF IInv, IdsUp
<1> QED BY <1>12 DEF p

LEMMA ToldKept ==
  ASSUME ToldOwn, strayed => strayed', UNCHANGED <<box, service>>,
         pump' = pump \/ pump'.at # "send", asked \subseteq asked',
         \A m \in Askers : pending'[m] \subseteq pending[m],
         \A q \in Calls : call[q].at = "dead" => call'[q].at = "dead",
         pending \in [Askers -> SUBSET Calls]
  PROVE  ToldOwn'
<1> SUFFICES ASSUME ~strayed' PROVE ToldOwn'
  BY DEF ToldOwn
<1>1. \A q \in Calls : box'[q] \in Calls => box'[q] = q
  BY DEF ToldOwn
<1>2. pump'.at = "send" => pump'.line.for = pump'.to
  BY DEF ToldOwn
<1>3. \A m \in Askers : \A q \in pending'[m] :
        q \in asked' \/ m = service' \/ call'[q].at = "dead"
  BY DEF ToldOwn
<1> QED BY <1>1, <1>2, <1>3 DEF ToldOwn

LEMMA ToldSame ==
  ASSUME Typed, ToldOwn, UNCHANGED <<box, service, pump, asked, pending, call, strayed>>
  PROVE  ToldOwn'
  BY ToldKept DEF Typed

LEMMA ToldStep ==
  ASSUME IInv, [Next]_vars
  PROVE  ToldOwn'
<1>a. Typed /\ RowsInStep /\ CallsInStep /\ ToldOwn /\ pending \in [Askers -> SUBSET Calls]
  BY DEF IInv, Typed
<1>b. /\ MaxMounts \in Nat /\ Askers = 1 .. MaxMounts /\ mount \in 1 .. MaxMounts
      /\ answerer \in 0 .. mount /\ \A q \in Calls : call[q].mount \in 0 .. MaxMounts
  BY <1>a, Mounts, CallIs DEF Typed
<1>1. ASSUME NEW q \in Calls, StartCall(q) PROVE ToldOwn'
  <2>1. /\ UNCHANGED <<box, service, pump, asked, pending, strayed>>
        /\ call[q].at = "idle"
    BY <1>1 DEF StartCall, asker, router, history, serve
  <2>2. PICK pc, m : call' = [call EXCEPT ![q].at = pc, ![q].mount = m]
    BY <1>1 DEF StartCall
  <2>3. \A p \in Calls : call[p].at = "dead" => call'[p].at = "dead"
    BY <1>a, <2>1, <2>2 DEF Typed
  <2> QED BY <1>a, <2>1, <2>3, ToldKept
<1>2. ASSUME NEW q \in Calls, TakeSlot(q) PROVE ToldOwn'
  <2>1. At(q, "putting") \/ At(q, "left")
    BY <1>2 DEF TakeSlot
  <2>2. Moves(q, "putting") \/ Moves(q, "left")
    BY <1>a, <2>1, AtMoves
  <2>3. /\ call[q].at # "dead" /\ UNCHANGED <<box, service, pump>> /\ (strayed => strayed')
        /\ asked \subseteq asked'
    BY <1>2 DEF TakeSlot, kernel, router, history, serve
  <2>4. \A m \in Askers : pending'[m] \subseteq pending[m]
    BY <1>2, <1>a DEF TakeSlot, kernel, router, history, serve
  <2>5. \A p \in Calls : call[p].at = "dead" => call'[p].at = "dead"
    BY <2>2, <2>3 DEF Moves
  <2> QED BY <1>a, <2>3, <2>4, <2>5, ToldKept
<1>3. ASSUME NEW q \in Calls, Register(q) PROVE ToldOwn'
  <2>1. /\ call[q].at = "putting" /\ UNCHANGED <<box, service, pump, asked>>
        /\ strayed' = (strayed \/ call[q].mount # service)
        /\ pending' = [pending EXCEPT ![call[q].mount] = pending[call[q].mount] \cup {q}]
    BY <1>3 DEF Register, kernel, router, history, serve
  <2>2. PICK n : call' = [call EXCEPT ![q].at = "placed", ![q].id = n]
    BY <1>3 DEF Register
  <2>3. \A p \in Calls : p # q => call'[p] = call[p]
    BY <1>a, <2>2 DEF Typed
  <2>4. ASSUME ~strayed', NEW m \in Askers, NEW p \in pending'[m]
        PROVE  p \in asked' \/ m = service' \/ call'[p].at = "dead"
    <3>1. CASE m = call[q].mount
      BY <2>1, <2>4, <3>1
    <3>2. CASE m # call[q].mount
      <4>1. p \in pending[m] /\ p \in Calls
        BY <1>a, <2>1, <3>2
      <4>2. p \in asked \/ m = service \/ call[p].at = "dead"
        BY <1>a, <2>1, <2>4, <4>1 DEF ToldOwn
      <4> QED BY <2>1, <2>3, <4>1, <4>2
    <3> QED BY <3>1, <3>2
  <2> QED BY <1>a, <2>1, <2>4 DEF ToldOwn
<1>4. ASSUME NEW q \in Calls, Announce(q) PROVE ToldOwn'
  <2>1. At(q, "waiting")
    BY <1>4 DEF Announce
  <2>2. Moves(q, "waiting")
    BY <1>a, <2>1, AtMoves
  <2>3. /\ call[q].at # "dead" /\ UNCHANGED <<box, service, pump>> /\ (strayed => strayed')
        /\ asked \subseteq asked'
    BY <1>4 DEF Announce, asker, serve
  <2>4. \A m \in Askers : pending'[m] \subseteq pending[m]
    BY <1>4, <1>a DEF Announce, asker, serve
  <2>5. \A p \in Calls : call[p].at = "dead" => call'[p].at = "dead"
    BY <2>2, <2>3 DEF Moves
  <2> QED BY <1>a, <2>3, <2>4, <2>5, ToldKept
<1>5. ASSUME NEW q \in Calls, Choose(q) PROVE ToldOwn'
  <2>1. At(q, "answered") \/ At(q, "failing")
    BY <1>5 DEF Choose
  <2>2. Moves(q, "answered") \/ Moves(q, "failing")
    BY <1>a, <2>1, AtMoves
  <2>3. /\ call[q].at # "dead" /\ UNCHANGED <<box, service, pump>> /\ (strayed => strayed')
        /\ asked \subseteq asked'
    BY <1>5 DEF Choose, asker, kernel, router, history, serve
  <2>4. \A m \in Askers : pending'[m] \subseteq pending[m]
    BY <1>5, <1>a DEF Choose, asker, kernel, router, history, serve
  <2>5. \A p \in Calls : call[p].at = "dead" => call'[p].at = "dead"
    BY <2>2, <2>3 DEF Moves
  <2> QED BY <1>a, <2>3, <2>4, <2>5, ToldKept
<1>6. ASSUME NEW q \in Calls, GiveUp(q) PROVE ToldOwn'
  <2>1. At(q, "failed")
    BY <1>6 DEF GiveUp
  <2>2. Moves(q, "failed")
    BY <1>a, <2>1, AtMoves
  <2>3. /\ call[q].at # "dead" /\ UNCHANGED <<box, service, pump>> /\ (strayed => strayed')
        /\ asked \subseteq asked'
    BY <1>6 DEF GiveUp, kernel, history, serve
  <2>4. \A m \in Askers : pending'[m] \subseteq pending[m]
    BY <1>6, <1>a DEF GiveUp, kernel, history, serve
  <2>5. \A p \in Calls : call[p].at = "dead" => call'[p].at = "dead"
    BY <2>2, <2>3 DEF Moves
  <2> QED BY <1>a, <2>3, <2>4, <2>5, ToldKept
<1>7. ASSUME NEW q \in Calls, Leave(q) PROVE ToldOwn'
  <2>1. At(q, "left")
    BY <1>7 DEF Leave
  <2>2. Moves(q, "left")
    BY <1>a, <2>1, AtMoves
  <2>3. /\ call[q].at # "dead" /\ UNCHANGED <<box, service, pump>> /\ (strayed => strayed')
        /\ asked \subseteq asked'
    BY <1>7 DEF Leave, router, history, serve
  <2>4. \A m \in Askers : pending'[m] \subseteq pending[m]
    BY <1>7, <1>a DEF Leave, router, history, serve
  <2>5. \A p \in Calls : call[p].at = "dead" => call'[p].at = "dead"
    BY <2>2, <2>3 DEF Moves
  <2> QED BY <1>a, <2>3, <2>4, <2>5, ToldKept
<1>8. ASSUME NEW q \in Calls, RecordEnd(q) PROVE ToldOwn'
  <2>1. At(q, "over")
    BY <1>8 DEF RecordEnd
  <2>2. Moves(q, "over")
    BY <1>a, <2>1, AtMoves
  <2>3. /\ call[q].at # "dead" /\ UNCHANGED <<box, service, pump>> /\ (strayed => strayed')
        /\ asked \subseteq asked'
    BY <1>8 DEF RecordEnd, asker, serve
  <2>4. \A m \in Askers : pending'[m] \subseteq pending[m]
    BY <1>8, <1>a DEF RecordEnd, asker, serve
  <2>5. \A p \in Calls : call[p].at = "dead" => call'[p].at = "dead"
    BY <2>2, <2>3 DEF Moves
  <2> QED BY <1>a, <2>3, <2>4, <2>5, ToldKept
<1>9. CASE TurnDone
  BY <1>a, <1>9, ToldSame DEF TurnDone, asker, kernel, serve
<1>10. CASE StopTurn
  BY <1>a, <1>10, ToldSame DEF StopTurn, asker, kernel, router, history, serve
<1>11. CASE Reload
  BY <1>a, <1>11, ToldSame DEF Reload, asker, router, history, serve
<1>12. CASE Dispose
  <2>1. /\ UNCHANGED <<pump, asked, call, strayed>> /\ service' = 0
        /\ pending' = [pending EXCEPT ![mount] = {}]
        /\ box' = [q \in Calls |-> IF q \in pending[mount] THEN "closed" ELSE box[q]]
    BY <1>12 DEF Dispose, router, history, serve
  <2>2. service \in {0, mount}
    BY <1>a DEF RowsInStep
  <2>3. "closed" \notin Calls
    BY AskAssumption
  <2>4. ASSUME ~strayed, NEW q \in Calls, box'[q] \in Calls PROVE box'[q] = q
    BY <1>a, <2>1, <2>3, <2>4 DEF ToldOwn
  <2>5. ASSUME ~strayed, NEW m \in Askers, NEW p \in pending'[m]
        PROVE  p \in asked \/ call[p].at = "dead"
    <3>1. m # mount /\ p \in pending[m]
      BY <1>a, <2>1, <2>5
    <3>2. m # service
      BY <1>b, <2>2, <3>1
    <3> QED BY <1>a, <2>5, <3>1, <3>2 DEF ToldOwn
  <2> QED BY <1>a, <2>1, <2>4, <2>5 DEF ToldOwn
<1>13. CASE Build
  BY <1>a, <1>13, ToldSame DEF Build, router, history, serve
<1>14. CASE Provide
  <2>1. UNCHANGED <<box, pump, asked, call, pending, strayed>>
    BY <1>14 DEF Provide, asker, router, history, serve
  <2>2. service = 0
    <3>1. rows \in RowsLeft /\ rows # <<>> /\ Head(rows) = "provide"
      BY <1>14, <1>a DEF Provide, RowStep, RowsInStep
    <3>2. rows \in Withdrawn
      BY <3>1, PlanSteps DEF Leaves
    <3> QED BY <1>a, <3>2 DEF RowsInStep
  <2>3. \A m \in Askers : m # service
    BY <1>b, <2>2
  <2> QED BY <1>a, <2>1, <2>3 DEF ToldOwn
<1>15. CASE UiDown
  BY <1>a, <1>15, ToldSame DEF UiDown, asker, history, serve
<1>16. CASE UiUp
  BY <1>a, <1>16, ToldSame DEF UiUp, asker, history, serve
<1>17. CASE HlPrint
  BY <1>a, <1>17, ToldSame DEF HlPrint, asker, kernel, history, serve
<1>18. CASE ReadLine
  <2>1. UNCHANGED <<box, service, asked, call, pending, strayed>>
    BY <1>18 DEF ReadLine, asker, kernel, history, serve
  <2>2. pump' = pump \/ pump'.at # "send"
    BY <1>18 DEF ReadLine
  <2> QED BY <1>a, <2>1, <2>2, ToldKept
<1>19. CASE Answer
  <2> DEFINE k == IF pump.to # 0 THEN pump.to ELSE answerer
             held == {q \in pending[k] : Id(q) = pump.line.id}
  <2>1. /\ pump.at = "answer" /\ (pump.to # 0 \/ answerer # 0)
        /\ UNCHANGED <<box, service, asked, call, strayed>>
        /\ pending' = [pending EXCEPT ![k] = pending[k] \ held]
        /\ pump' = IF held = {} THEN [at |-> "idle"]
                   ELSE [at |-> "send", line |-> pump.line, to |-> CHOOSE q \in held : TRUE]
    BY <1>19 DEF Answer, kernel, serve
  <2>2. k \in Askers /\ pump.line \in LineT /\ pump.to \in 0 .. MaxMounts
    BY <1>a, <1>b, <2>1 DEF Typed, PumpT
  <2>3. \A m \in Askers : pending'[m] \subseteq pending[m]
    BY <1>a, <2>1
  <2>4. ASSUME ~strayed, NEW q \in held PROVE pump.line.for = q
    <3>1. q \in pending[k] /\ Id(q) = pump.line.id
      OBVIOUS
    <3> QED BY <2>1, <2>2, <2>4, <3>1, AnswerFits
  <2> HIDE DEF held, k
  <2>5. ~strayed' /\ pump'.at = "send" => pump'.line.for = pump'.to
    BY <2>1, <2>4
  <2>6. ~strayed' => \A m \in Askers : \A q \in pending'[m] :
          q \in asked' \/ m = service' \/ call'[q].at = "dead"
    BY <1>a, <2>1, <2>3 DEF ToldOwn
  <2> QED BY <1>a, <2>1, <2>5, <2>6 DEF ToldOwn
<1>20. CASE Send
  <2>1. /\ pump.at = "send" /\ UNCHANGED <<service, asked, call, pending, strayed>>
        /\ box' = [box EXCEPT ![pump.to] = pump.line.for] /\ pump'.at = "idle"
    BY <1>20 DEF Send, asker, kernel, history, serve
  <2>2. ASSUME ~strayed, NEW q \in Calls, box'[q] \in Calls PROVE box'[q] = q
    BY <1>a, <2>1, <2>2 DEF ToldOwn, Typed
  <2> QED BY <1>a, <2>1, <2>2 DEF ToldOwn
<1>21. CASE Scan
  BY <1>a, <1>21, ToldSame DEF Scan, asker, kernel, router, history
<1>22. CASE PendingAsk
  BY <1>a, <1>22, ToldSame DEF PendingAsk, asker, kernel, router, history
<1>23. ASSUME NEW q \in Calls, PostAnswer(q) PROVE ToldOwn'
  BY <1>a, <1>23, ToldSame DEF PostAnswer, asker, kernel, router, history
<1>24. ASSUME NEW p \in posts, ClaimArm(p) PROVE ToldOwn'
  BY <1>a, <1>24, ToldSame DEF ClaimArm, asker, kernel, router, history
<1>25. ASSUME NEW p \in posts, WriteAnswer(p) PROVE ToldOwn'
  BY <1>a, <1>25, ToldSame DEF WriteAnswer, asker, kernel, router, history
<1>26. CASE Die
  <2>1. UNCHANGED <<box, asked, pending, strayed>> /\ pump'.at = "idle"
    BY <1>26 DEF Die, asker, history
  <2>2. call' = [q \in Calls |-> IF q \in Busy THEN [call[q] EXCEPT !.at = "dead"] ELSE call[q]]
    BY <1>26 DEF Die
  <2>3. \A p \in Calls : p \in Busy \/ call[p].at = "dead" => call'[p].at = "dead"
    BY <1>a, <2>2 DEF Typed, CallT
  <2>4. ASSUME NEW m \in Askers, NEW p \in pending'[m]
        PROVE  p \in asked' \/ call'[p].at = "dead"
    <3>1. p \in pending[m] /\ p \in Calls
      BY <1>a, <2>1
    <3>2. call[p].id # 0
      BY <1>a, <3>1 DEF CallsInStep
    <3>3. p \in asked \/ call[p].at \in {"placed", "dead"}
      BY <1>a, <3>1, <3>2 DEF CallsInStep
    <3>4. call[p].at = "placed" => p \in Busy
      BY <3>1 DEF Busy
    <3> QED BY <2>1, <2>3, <3>1, <3>3, <3>4
  <2> QED BY <1>a, <2>1, <2>4 DEF ToldOwn
<1>27. CASE Respawn
  <2>1. UNCHANGED <<box, asked, pending, pump, call, strayed>> /\ kid = "gone"
    BY <1>27 DEF Respawn, history
  <2>2. service = 0
    BY <1>a, <2>1 DEF RowsInStep
  <2>3. \A m \in Askers : m # service
    BY <1>b, <2>2
  <2> QED BY <1>a, <2>1, <2>3 DEF ToldOwn
<1>28. CASE UNCHANGED vars
  BY <1>a, <1>28, ToldSame DEF vars, asker, kernel, router, history, serve
<1> QED
  BY <1>1, <1>2, <1>3, <1>4, <1>5, <1>6, <1>7, <1>8, <1>9, <1>10, <1>11, <1>12, <1>13,
     <1>14, <1>15, <1>16, <1>17, <1>18, <1>19, <1>20, <1>21, <1>22, <1>23, <1>24, <1>25,
     <1>26, <1>27, <1>28
  DEF Next, CallStep, Remounts, Child, Supervise

----------------------------------------------------------------------------
(* The theorems.                                                           *)

LEMMA Initially ==
  ASSUME Init
  PROVE  IInv
<1>1. /\ MaxMounts \in Nat /\ MaxMounts > 0 /\ Askers = 1 .. MaxMounts /\ NoCall \notin Calls
      /\ Calls \cap {"empty", "closed"} = {}
  BY AskAssumption, Mounts
<1>2. /\ \A q \in Calls : call[q] = [at |-> "idle", mount |-> 0, id |-> 0]
      /\ asked = {} /\ pump = [at |-> "idle"] /\ inp = <<>> /\ out = <<>> /\ events = <<>>
      /\ posts = {} /\ \A m \in Askers : pending[m] = {} /\ seq[m] = 0
  BY DEF Init
<1>3. kind \in [Calls -> Kinds] /\ budget \in [Whats -> Nat]
  BY AskAssumption DEF Init
<1>4. /\ call \in [Calls -> CallT] /\ pump \in PumpT
      /\ 1 \in 1 .. MaxMounts /\ 1 \in 1 .. 1 /\ 1 \in 0 .. 1
  BY <1>1 DEF Init, CallT, Places, PumpT
<1>5. /\ box \in [Calls -> Calls \cup {"empty", "closed"}] /\ seq \in [Askers -> Nat]
      /\ pending \in [Askers -> SUBSET Calls] /\ slot \in [Askers -> Calls \cup {NoCall}]
  BY DEF Init
<1>6. Typed
  <2>1. events \in Seq(EventT) /\ out \in Seq(EventT) /\ inp \in Seq(LineT)
    BY <1>2
  <2> QED BY <1>1, <1>3, <1>4, <1>5, <2>1 DEF Init, Typed
<1>7. RowsInStep
  BY NoRows DEF Init, RowsInStep
<1>8. DeadAreGone
  BY <1>2 DEF Init, DeadAreGone
<1>9. ExitLast
  <2>1. 1 .. Len(events) = {} /\ 1 .. Len(out) = {}
    BY <1>2
  <2> QED BY <2>1 DEF ExitLast
<1>10. CallsInStep
  BY <1>1, <1>2 DEF Init, CallsInStep, Asking
<1>11. IdsUp
  <2>1. Numbered = {}
    BY <1>2 DEF Numbered
  <2>2. Cardinality(Numbered) = 0
    BY <2>1, FS_EmptySet
  <2> QED BY <1>2, <2>1, <2>2 DEF IdsUp
<1>12. LinesWritten
  <2>1. 1 .. Len(inp) = {}
    BY <1>2
  <2> QED BY <1>2, <2>1 DEF LinesWritten
<1>13. ToldOwn
  BY <1>1, <1>2 DEF Init, ToldOwn
<1> QED BY <1>6, <1>7, <1>8, <1>9, <1>10, <1>11, <1>12, <1>13 DEF IInv

LEMMA Inductive == IInv /\ [Next]_vars => IInv'
  BY TypedStep, RowsStep, DeadStep, ExitStep, CallsStep, IdsStep, LinesStep, ToldStep DEF IInv

LEMMA IInvTypeOK ==
  ASSUME IInv
  PROVE  TypeOK
<1>1. Typed /\ RowsInStep /\ CallsInStep /\ IdsUp
  BY DEF IInv
<1>2. /\ IsFiniteSet(Numbered) /\ Cardinality(Numbered) \in Nat /\ Cardinality(Calls) \in Nat
      /\ Cardinality(Numbered) <= Cardinality(Calls) /\ Numbered \subseteq Calls
  <2>1. Numbered \subseteq Calls
    BY DEF Numbered
  <2> QED BY <2>1, AskAssumption, FS_Subset, FS_CardinalityType
<1>3. \A m \in Askers : seq[m] \in 0 .. Cardinality(Calls)
  BY <1>1, <1>2 DEF Typed, IdsUp
<1>4. seq \in [Askers -> 0 .. Cardinality(Calls)]
  BY <1>1, <1>3 DEF Typed
<1>5. ASSUME NEW q \in Calls PROVE call[q].id \in 0 .. Cardinality(Calls)
  <2>1. call[q].id \in Nat
    BY <1>1, CallIs
  <2>2. CASE call[q].id = 0
    BY <1>2, <2>2
  <2>3. CASE call[q].id # 0
    <3>1. q \in Numbered
      BY <2>3 DEF Numbered
    <3>2. call[q].mount \in Askers
      BY <1>1, <2>3, CallIs, Mounts DEF CallsInStep
    <3> QED BY <1>1, <1>2, <1>3, <2>1, <3>1, <3>2 DEF IdsUp
  <2> QED BY <2>2, <2>3
<1>6. call \in [Calls -> [at : Places, mount : 0 .. MaxMounts, id : 0 .. Cardinality(Calls)]]
  BY <1>1, <1>5 DEF Typed, CallT
<1>7. {service, answerer} \subseteq 0 .. MaxMounts /\ tool \in Askers
  BY <1>1, Mounts DEF Typed, RowsInStep
<1> QED BY <1>1, <1>4, <1>6, <1>7 DEF TypeOK, Typed, Places

LEMMA IInvAnswersHome ==
  ASSUME IInv
  PROVE  AnswersHome
<1> SUFFICES ASSUME ~strayed PROVE AnswersHome
  BY DEF AnswersHome
<1>1. ASSUME NEW p \in asked, NEW q \in asked, Id(p) = Id(q) PROVE p = q
  <2>1. p \in Numbered /\ q \in Numbered /\ p \in Calls /\ q \in Calls
    BY DEF IInv, CallsInStep, Numbered, Typed
  <2>2. After(p) /\ After(q)
    BY DEF IInv, IdsUp
  <2>3. /\ call[p].id \in Nat /\ call[p].mount \in Nat /\ call[q].mount \in Nat
        /\ call[p].id = call[q].id
    BY <1>1, <2>1, CallIs, Mounts DEF IInv, Id
  <2>4. ~(call[p].mount < call[q].mount) /\ ~(call[q].mount < call[p].mount)
    BY <2>1, <2>2, <2>3 DEF After
  <2>5. call[p].mount = call[q].mount
    BY <2>3, <2>4
  <2> QED BY <2>1, <2>3, <2>5 DEF IInv, IdsUp
<1> QED BY <1>1 DEF AnswersHome, IInv, ToldOwn

\* The invariant that the theorems rest on holds in every behaviour.
THEOREM InvariantHolds == Spec => []IInv
  BY Initially, Inductive, PTL DEF Spec

\* Every variable keeps its type; an Asker gives no more ids than there are
\* calls.
THEOREM TypeCorrect == Spec => []TypeOK
  BY InvariantHolds, IInvTypeOK, PTL

\* However often the rows are remounted or the process is started again, a
\* question's id is its own, and a call is told only what was written for
\* its question (ask.go, "Ids are unique in the session's history, not per
\* Asker"), as long as no call puts its question to a disposed Asker.
THEOREM AnswersComeHome == Spec => []AnswersHome
  BY InvariantHolds, IInvAnswersHome, PTL

----------------------------------------------------------------------------
(* The arm.                                                                *)

LEMMA SparesAppend ==
  ASSUME NEW c, NEW k, NEW q, NEW s \in Seq(EventT), NEW e \in EventT
  PROVE  /\ AllSpare(c, k, q, s) /\ Spares(c, k, q, e) => AllSpare(c, k, q, Append(s, e))
         /\ SpareOnceShown(c, k, q, s) /\ (Shown(q, s) => Spares(c, k, q, e))
              => SpareOnceShown(c, k, q, Append(s, e))
         /\ Shown(q, Append(s, e)) => Shown(q, s) \/ e = Event("ask", q)
<1> DEFINE t == Append(s, e)
<1>1. Len(s) \in Nat /\ Len(t) = Len(s) + 1 /\ t[Len(s) + 1] = e
  OBVIOUS
<1>2. \A i \in 1 .. Len(s) : t[i] = s[i]
  OBVIOUS
<1> HIDE DEF t
<1>3. \A i \in 1 .. Len(t) : i \in 1 .. Len(s) \/ i = Len(s) + 1
  BY <1>1
<1>4. AllSpare(c, k, q, s) /\ Spares(c, k, q, e) => AllSpare(c, k, q, t)
  BY <1>1, <1>2, <1>3 DEF AllSpare
<1>5. ASSUME SpareOnceShown(c, k, q, s), Shown(q, s) => Spares(c, k, q, e)
      PROVE  SpareOnceShown(c, k, q, t)
  <2>1. ASSUME NEW i \in 1 .. Len(t), NEW j \in 1 .. Len(t), t[j] = Event("ask", q), j < i
        PROVE  Spares(c, k, q, t[i])
    <3>1. j \in 1 .. Len(s) /\ s[j] = Event("ask", q)
      <4>1. j # Len(s) + 1
        BY <1>1, <2>1
      <4> QED BY <1>2, <1>3, <2>1, <4>1
    <3>2. CASE i \in 1 .. Len(s)
      BY <1>2, <1>5, <2>1, <3>1, <3>2 DEF SpareOnceShown
    <3>3. CASE i = Len(s) + 1
      <4>1. Shown(q, s)
        BY <3>1 DEF Shown
      <4> QED BY <1>1, <1>5, <3>3, <4>1
    <3> QED BY <1>3, <3>2, <3>3
  <2> QED BY <2>1 DEF SpareOnceShown
<1>6. Shown(q, t) => Shown(q, s) \/ e = Event("ask", q)
  BY <1>1, <1>2, <1>3 DEF Shown
<1> QED BY <1>4, <1>5, <1>6 DEF t

LEMMA SparesTail ==
  ASSUME NEW c, NEW k, NEW q, NEW s \in Seq(EventT), s # <<>>
  PROVE  /\ AllSpare(c, k, q, s) => Spares(c, k, q, Head(s)) /\ AllSpare(c, k, q, Tail(s))
         /\ SpareOnceShown(c, k, q, s) => SpareOnceShown(c, k, q, Tail(s))
         /\ SpareOnceShown(c, k, q, s) /\ Head(s) = Event("ask", q)
              => AllSpare(c, k, q, Tail(s))
         /\ Shown(q, Tail(s)) => Shown(q, s)
         /\ Shown(q, s) => Head(s) = Event("ask", q) \/ Shown(q, Tail(s))
<1> DEFINE t == Tail(s)
<1>1. Len(s) \in Nat /\ Len(s) > 0 /\ Len(t) = Len(s) - 1 /\ Head(s) = s[1] /\ 1 \in 1 .. Len(s)
  OBVIOUS
<1>2. \A i \in 1 .. Len(t) : i + 1 \in 1 .. Len(s) /\ t[i] = s[i + 1] /\ 1 < i + 1 /\ i \in Nat
  OBVIOUS
<1>3. \A i \in 1 .. Len(s) : i = 1 \/ (i - 1 \in 1 .. Len(t) /\ t[i - 1] = s[i])
  OBVIOUS
<1> HIDE DEF t
<1>4. AllSpare(c, k, q, s) => Spares(c, k, q, Head(s)) /\ AllSpare(c, k, q, t)
  BY <1>1, <1>2 DEF AllSpare
<1>5. SpareOnceShown(c, k, q, s) => SpareOnceShown(c, k, q, t)
  <2> SUFFICES ASSUME SpareOnceShown(c, k, q, s), NEW i \in 1 .. Len(t), NEW j \in 1 .. Len(t),
                      t[j] = Event("ask", q), j < i
               PROVE  Spares(c, k, q, t[i])
    BY DEF SpareOnceShown
  <2>1. i + 1 \in 1 .. Len(s) /\ j + 1 \in 1 .. Len(s) /\ j + 1 < i + 1
        /\ t[i] = s[i + 1] /\ t[j] = s[j + 1]
    BY <1>2
  <2> QED BY <2>1 DEF SpareOnceShown
<1>6. SpareOnceShown(c, k, q, s) /\ Head(s) = Event("ask", q) => AllSpare(c, k, q, t)
  BY <1>1, <1>2 DEF SpareOnceShown, AllSpare
<1>7. Shown(q, t) => Shown(q, s)
  BY <1>2 DEF Shown
<1>8. Shown(q, s) => Head(s) = Event("ask", q) \/ Shown(q, t)
  BY <1>1, <1>3 DEF Shown
<1> QED BY <1>4, <1>5, <1>6, <1>7, <1>8 DEF t

\* Recorded questions keep their ids, so what spares q goes on sparing it.
LEMMA SparesKept ==
  ASSUME NEW c, NEW d, NEW k, NEW q, NEW s, c[q].id = d[q].id,
         \A i \in 1 .. Len(s) : s[i].kind = "end" => d[s[i].of].id = c[s[i].of].id
  PROVE  /\ AllSpare(c, k, q, s) => AllSpare(d, k, q, s)
         /\ SpareOnceShown(c, k, q, s) => SpareOnceShown(d, k, q, s)
<1>1. ASSUME NEW i \in 1 .. Len(s), Spares(c, k, q, s[i]) PROVE Spares(d, k, q, s[i])
  BY <1>1 DEF Spares
<1> QED BY <1>1 DEF AllSpare, SpareOnceShown

\* Routed leaves q where it is on what spares it.
LEMMA SparesRouted ==
  ASSUME NEW q \in Calls, NEW e \in EventT, Spares(call, kind, q, e)
  PROVE  Routed(q, e) = q
<1>1. q # NoCall
  BY AskAssumption
<1>2. CASE e.kind = "ask"
  BY <1>2 DEF Spares, Routed
<1>3. CASE e.kind # "ask"
  <2>1. ~EndsAsk(q, e)
    BY DEF Spares, EndsAsk
  <2> QED BY <1>1, <1>3, <2>1 DEF Spares, Routed, Id
<1> QED BY <1>2, <1>3

\* An event routes the arm to q if it asks q, or leaves it there.
LEMMA RoutedTo ==
  ASSUME NEW q \in Calls, NEW a, NEW e \in EventT, Routed(a, e) = q
  PROVE  e = Event("ask", q) \/ a = q
<1>1. CASE e.kind = "ask"
  <2>1. e.of = q
    BY <1>1 DEF Routed
  <2>2. e = [kind |-> e.kind, of |-> e.of]
    BY DEF EventT
  <2> QED BY <1>1, <2>1, <2>2 DEF Event
<1>2. CASE e.kind # "ask"
  BY <1>2, AskAssumption DEF Routed
<1> QED BY <1>1, <1>2

----------------------------------------------------------------------------
(* Calls of one kind take turns.                                           *)

LEMMA KindStays == [Next]_vars => kind' = kind
<1> SUFFICES ASSUME [Next]_vars PROVE kind' = kind
  OBVIOUS
<1>1. ASSUME NEW q \in Calls, StartCall(q) PROVE kind' = kind
  BY <1>1 DEF StartCall
<1>2. ASSUME NEW q \in Calls, TakeSlot(q) PROVE kind' = kind
  BY <1>2 DEF TakeSlot
<1>3. ASSUME NEW q \in Calls, Register(q) PROVE kind' = kind
  BY <1>3 DEF Register
<1>4. ASSUME NEW q \in Calls, Announce(q) PROVE kind' = kind
  BY <1>4 DEF Announce
<1>5. ASSUME NEW q \in Calls, Choose(q) PROVE kind' = kind
  BY <1>5 DEF Choose
<1>6. ASSUME NEW q \in Calls, GiveUp(q) PROVE kind' = kind
  BY <1>6 DEF GiveUp
<1>7. ASSUME NEW q \in Calls, Leave(q) PROVE kind' = kind
  BY <1>7 DEF Leave
<1>8. ASSUME NEW q \in Calls, RecordEnd(q) PROVE kind' = kind
  BY <1>8 DEF RecordEnd
<1>9. CASE TurnDone
  BY <1>9 DEF TurnDone
<1>10. CASE StopTurn
  BY <1>10 DEF StopTurn
<1>11. CASE Reload
  BY <1>11 DEF Reload
<1>12. CASE Dispose
  BY <1>12 DEF Dispose
<1>13. CASE Build
  BY <1>13 DEF Build
<1>14. CASE Provide
  BY <1>14 DEF Provide
<1>15. CASE UiDown
  BY <1>15 DEF UiDown
<1>16. CASE UiUp
  BY <1>16 DEF UiUp
<1>17. CASE HlPrint
  BY <1>17 DEF HlPrint
<1>18. CASE ReadLine
  BY <1>18 DEF ReadLine
<1>19. CASE Answer
  BY <1>19 DEF Answer
<1>20. CASE Send
  BY <1>20 DEF Send
<1>21. CASE Scan
  BY <1>21 DEF Scan
<1>22. CASE PendingAsk
  BY <1>22 DEF PendingAsk
<1>23. ASSUME NEW q \in Calls, PostAnswer(q) PROVE kind' = kind
  BY <1>23 DEF PostAnswer
<1>24. ASSUME NEW p \in posts, ClaimArm(p) PROVE kind' = kind
  BY <1>24 DEF ClaimArm
<1>25. ASSUME NEW p \in posts, WriteAnswer(p) PROVE kind' = kind
  BY <1>25 DEF WriteAnswer
<1>26. CASE Die
  BY <1>26 DEF Die
<1>27. CASE Respawn
  BY <1>27 DEF Respawn
<1>28. CASE UNCHANGED vars
  BY <1>28 DEF vars
<1> QED
  BY <1>1, <1>2, <1>3, <1>4, <1>5, <1>6, <1>7, <1>8, <1>9, <1>10, <1>11, <1>12, <1>13,
     <1>14, <1>15, <1>16, <1>17, <1>18, <1>19, <1>20, <1>21, <1>22, <1>23, <1>24, <1>25,
     <1>26, <1>27, <1>28
  DEF Next, CallStep, Remounts, Child, Supervise

\* What OneAsks says of the slots and of the VM.
SlotsHeld ==
  \A q \in Calls : call[q].at \in InSlot /\ TakesSlot(q) => slot[call[q].mount] = q
BlocksAlone == \A p, q \in Busy : p # q => TakesSlot(p)
SameKind == \A p, q \in Calls : kind[p] = kind[q]

LEMMA OneAsksIs == OneAsks <=> SameKind /\ SlotsHeld /\ BlocksAlone
  BY DEF OneAsks, SameKind, SlotsHeld, BlocksAlone

LEMMA OneAsksStays ==
  ASSUME OneAsks, UNCHANGED <<kind, slot>>,
         \A q \in Calls : call'[q].mount = call[q].mount \/ call'[q].at \notin InSlot,
         \A q \in Calls : call'[q].at \in InSlot => call[q].at \in InSlot,
         \A q \in Calls : q \in Busy' => q \in Busy
  PROVE  OneAsks'
<1>1. SameKind'
  BY DEF OneAsks, SameKind
<1>2. SlotsHeld'
  BY DEF OneAsks, SlotsHeld, TakesSlot
<1>3. Busy' \subseteq Calls
  BY DEF Busy
<1>4. BlocksAlone'
  BY <1>3 DEF OneAsks, BlocksAlone, TakesSlot
<1> QED BY <1>1, <1>2, <1>4 DEF OneAsks, SameKind, SlotsHeld, BlocksAlone

LEMMA OneAsksSame ==
  ASSUME OneAsks, UNCHANGED <<kind, slot, call>>
  PROVE  OneAsks'
<1>1. Busy' = Busy
  BY DEF Busy
<1> QED BY <1>1, OneAsksStays

LEMMA OneAsksStep ==
  ASSUME KInv, [Next]_vars
  PROVE  OneAsks'
<1>a. Typed /\ CallsInStep /\ OneAsks /\ kind' = kind
  BY KindStays DEF KInv, IInv
<1>1. ASSUME NEW q \in Calls, StartCall(q) PROVE OneAsks'
  <2>1. call[q].at = "idle" /\ slot' = slot
    BY <1>1 DEF StartCall, asker, router, history, serve
  <2>2. PICK pc, n :
          /\ pc \in {"queued", "putting"}
          /\ call' = [call EXCEPT ![q].at = pc, ![q].mount = n]
          /\ IF TakesSlot(q) THEN pc = "queued" ELSE \A p \in Busy : TakesSlot(p)
    BY <1>1 DEF StartCall
  <2>3. call'[q].at = pc /\ \A p \in Calls : p # q => call'[p] = call[p]
    BY <1>a, <2>2 DEF Typed, CallT
  <2>4. Busy' = Busy \cup {q}
    <3>1. pc \notin {"idle", "over", "dead"}
      BY <2>2
    <3> QED BY <2>3, <3>1 DEF Busy
  <2>5. SlotsHeld'
    BY <1>a, <2>1, <2>2, <2>3 DEF OneAsks, SlotsHeld, TakesSlot, InSlot
  <2>6. BlocksAlone'
    <3>1. ASSUME NEW p \in Busy', NEW r \in Busy', p # r PROVE TakesSlot(p)
      <4>1. p \in Calls /\ r \in Calls /\ kind[p] = kind[q]
        BY <1>a DEF Busy, OneAsks
      <4>2. CASE TakesSlot(q)
        BY <4>1, <4>2 DEF TakesSlot
      <4>3. CASE ~TakesSlot(q)
        <5>1. Busy = {}
          BY <1>a, <2>2, <4>3 DEF TakesSlot, OneAsks, Busy
        <5> QED BY <2>4, <3>1, <5>1
      <4> QED BY <4>2, <4>3
    <3> QED BY <1>a, <3>1 DEF BlocksAlone, TakesSlot
  <2> QED BY <1>a, <2>5, <2>6 DEF OneAsks, SlotsHeld, BlocksAlone
<1>2. ASSUME NEW q \in Calls, TakeSlot(q) PROVE OneAsks'
  <2> DEFINE m == call[q].mount
  <2>1. call[q].at = "queued" /\ q \in Busy
    BY <1>2 DEF TakeSlot, Busy
  <2>2. CASE At(q, "left") /\ slot' = slot
    <3>1. Moves(q, "left")
      BY <1>a, <2>2, AtMoves
    <3> QED BY <1>a, <2>1, <2>2, <3>1, OneAsksStays DEF Moves, InSlot, Busy
  <2>3. CASE slot[m] = NoCall /\ slot' = [slot EXCEPT ![m] = q] /\ At(q, "putting")
    <3>1. Moves(q, "putting")
      BY <1>a, <2>3, AtMoves
    <3>2. m \in Askers
      BY <1>a, <2>1, CallIs, Mounts DEF CallsInStep
    <3>3. slot'[m] = q /\ \A j \in Askers : j # m => slot'[j] = slot[j]
      BY <1>a, <2>3, <3>2 DEF Typed
    <3>4. SlotsHeld'
      <4> SUFFICES ASSUME NEW p \in Calls, call'[p].at \in InSlot, TakesSlot(p)
                   PROVE  slot'[call'[p].mount] = p
        BY <1>a DEF SlotsHeld, TakesSlot
      <4>1. CASE p = q
        BY <3>1, <3>3, <4>1 DEF Moves
      <4>2. CASE p # q
        <5>1. call[p].at \in InSlot /\ call'[p].mount = call[p].mount
          BY <3>1, <4>2 DEF Moves
        <5>2. slot[call[p].mount] = p /\ p # NoCall
          BY <1>a, <5>1, AskAssumption DEF OneAsks
        <5>3. call[p].mount # m /\ call[p].mount \in Askers
          BY <1>a, <2>3, <5>1, <5>2, CallIs, Mounts DEF CallsInStep, InSlot
        <5> QED BY <3>3, <5>1, <5>2, <5>3
      <4> QED BY <4>1, <4>2
    <3>5. Busy' \subseteq Busy
      BY <2>1, <3>1 DEF Moves, Busy
    <3>6. BlocksAlone'
      BY <1>a, <3>5 DEF OneAsks, BlocksAlone, TakesSlot
    <3> QED BY <1>a, <3>4, <3>6 DEF OneAsks, SlotsHeld, BlocksAlone
  <2> QED BY <1>2, <2>2, <2>3 DEF TakeSlot
<1>3. ASSUME NEW q \in Calls, Register(q) PROVE OneAsks'
  <2>1. call[q].at = "putting" /\ slot' = slot
    BY <1>3 DEF Register
  <2>2. PICK n : call' = [call EXCEPT ![q].at = "placed", ![q].id = n]
    BY <1>3 DEF Register
  <2>3. /\ call'[q].at = "placed" /\ call'[q].mount = call[q].mount
        /\ \A p \in Calls : p # q => call'[p] = call[p]
    BY <1>a, <2>2 DEF Typed, CallT
  <2> QED BY <1>a, <2>1, <2>3, OneAsksStays DEF Busy, InSlot
<1>4. ASSUME NEW q \in Calls, Announce(q) PROVE OneAsks'
  <2>1. At(q, "waiting")
    BY <1>4 DEF Announce
  <2>2. Moves(q, "waiting")
    BY <1>a, <2>1, AtMoves
  <2>3. slot' = slot /\ q \in Busy /\ call[q].at \in InSlot
    BY <1>4 DEF Busy, InSlot, Announce, asker, serve
  <2> QED BY <1>a, <2>2, <2>3, OneAsksStays DEF Moves, InSlot, Busy
<1>5. ASSUME NEW q \in Calls, Choose(q) PROVE OneAsks'
  <2>1. At(q, "answered") \/ At(q, "failing")
    BY <1>5 DEF Choose
  <2>2. Moves(q, "answered") \/ Moves(q, "failing")
    BY <1>a, <2>1, AtMoves
  <2>3. slot' = slot /\ q \in Busy /\ call[q].at \in InSlot
    BY <1>5 DEF Busy, InSlot, Choose, asker, kernel, router, history, serve
  <2> QED BY <1>a, <2>2, <2>3, OneAsksStays DEF Moves, InSlot, Busy
<1>6. ASSUME NEW q \in Calls, GiveUp(q) PROVE OneAsks'
  <2>1. At(q, "failed")
    BY <1>6 DEF GiveUp
  <2>2. Moves(q, "failed")
    BY <1>a, <2>1, AtMoves
  <2>3. slot' = slot /\ q \in Busy /\ call[q].at \in InSlot
    BY <1>6 DEF Busy, InSlot, GiveUp, kernel, history, serve
  <2> QED BY <1>a, <2>2, <2>3, OneAsksStays DEF Moves, InSlot, Busy
<1>7. ASSUME NEW q \in Calls, Leave(q) PROVE OneAsks'
  <2> DEFINE m == call[q].mount
  <2>1. /\ call[q].at \in InSlot /\ q \in Busy /\ At(q, "left")
        /\ slot' = IF TakesSlot(q) THEN [slot EXCEPT ![m] = NoCall] ELSE slot
    BY <1>7 DEF Leave, InSlot, Busy
  <2>2. Moves(q, "left")
    BY <1>a, <2>1, AtMoves
  <2>3. Busy' \subseteq Busy
    BY <2>1, <2>2 DEF Moves, Busy
  <2>4. BlocksAlone'
    BY <1>a, <2>3 DEF OneAsks, BlocksAlone, TakesSlot
  <2>5. SlotsHeld'
    <3> SUFFICES ASSUME NEW p \in Calls, call'[p].at \in InSlot, TakesSlot(p)
                 PROVE  slot'[call'[p].mount] = p
      BY <1>a DEF SlotsHeld, TakesSlot
    <3>1. p # q /\ call[p].at \in InSlot /\ call'[p].mount = call[p].mount
      BY <2>2 DEF Moves, InSlot
    <3>2. slot[call[p].mount] = p
      BY <1>a, <3>1 DEF OneAsks
    <3>3. call[p].mount \in Askers
      BY <1>a, <3>1, CallIs, Mounts DEF CallsInStep, InSlot
    <3>4. TakesSlot(q) => call[p].mount # m
      BY <1>a, <2>1, <3>1, <3>2 DEF OneAsks
    <3> QED BY <1>a, <2>1, <3>1, <3>2, <3>3, <3>4 DEF Typed
  <2> QED BY <1>a, <2>4, <2>5 DEF OneAsks, SlotsHeld, BlocksAlone
<1>8. ASSUME NEW q \in Calls, RecordEnd(q) PROVE OneAsks'
  <2>1. At(q, "over")
    BY <1>8 DEF RecordEnd
  <2>2. Moves(q, "over")
    BY <1>a, <2>1, AtMoves
  <2>3. slot' = slot /\ q \in Busy
    BY <1>8 DEF Busy, InSlot, RecordEnd, asker, serve
  <2> QED BY <1>a, <2>2, <2>3, OneAsksStays DEF Moves, InSlot, Busy
<1>9. CASE TurnDone
  BY <1>a, <1>9, OneAsksSame DEF TurnDone, asker, kernel, serve
<1>10. CASE StopTurn
  BY <1>a, <1>10, OneAsksSame DEF StopTurn, asker, kernel, router, history, serve
<1>11. CASE Reload
  BY <1>a, <1>11, OneAsksSame DEF Reload, asker, router, history, serve
<1>12. CASE Dispose
  BY <1>a, <1>12, OneAsksSame DEF Dispose, router, history, serve
<1>13. CASE Build
  BY <1>a, <1>13, OneAsksSame DEF Build, router, history, serve
<1>14. CASE Provide
  BY <1>a, <1>14, OneAsksSame DEF Provide, asker, router, history, serve
<1>15. CASE UiDown
  BY <1>a, <1>15, OneAsksSame DEF UiDown, asker, history, serve
<1>16. CASE UiUp
  BY <1>a, <1>16, OneAsksSame DEF UiUp, asker, history, serve
<1>17. CASE HlPrint
  BY <1>a, <1>17, OneAsksSame DEF HlPrint, asker, kernel, history, serve
<1>18. CASE ReadLine
  BY <1>a, <1>18, OneAsksSame DEF ReadLine, asker, kernel, history, serve
<1>19. CASE Answer
  BY <1>a, <1>19, OneAsksSame DEF Answer, kernel, serve
<1>20. CASE Send
  BY <1>a, <1>20, OneAsksSame DEF Send, asker, kernel, history, serve
<1>21. CASE Scan
  BY <1>a, <1>21, OneAsksSame DEF Scan, asker, kernel, router, history
<1>22. CASE PendingAsk
  BY <1>a, <1>22, OneAsksSame DEF PendingAsk, asker, kernel, router, history
<1>23. ASSUME NEW q \in Calls, PostAnswer(q) PROVE OneAsks'
  BY <1>a, <1>23, OneAsksSame DEF PostAnswer, asker, kernel, router, history
<1>24. ASSUME NEW p \in posts, ClaimArm(p) PROVE OneAsks'
  BY <1>a, <1>24, OneAsksSame DEF ClaimArm, asker, kernel, router, history
<1>25. ASSUME NEW p \in posts, WriteAnswer(p) PROVE OneAsks'
  BY <1>a, <1>25, OneAsksSame DEF WriteAnswer, asker, kernel, router, history
<1>26. CASE Die
  <2>1. slot' = slot
    BY <1>26 DEF Die, asker, history
  <2>2. call' = [q \in Calls |-> IF q \in Busy THEN [call[q] EXCEPT !.at = "dead"] ELSE call[q]]
    BY <1>26 DEF Die
  <2>3. \A q \in Calls : call'[q].at \notin InSlot /\ q \notin Busy'
    BY <1>a, <2>2 DEF Typed, CallT, Busy, InSlot
  <2> QED BY <1>a, <2>1, <2>3, OneAsksStays
<1>27. CASE Respawn
  BY <1>a, <1>27, OneAsksSame DEF Respawn, history
<1>28. CASE UNCHANGED vars
  BY <1>a, <1>28, OneAsksSame DEF vars, asker, kernel, router, history, serve
<1> QED
  BY <1>1, <1>2, <1>3, <1>4, <1>5, <1>6, <1>7, <1>8, <1>9, <1>10, <1>11, <1>12, <1>13,
     <1>14, <1>15, <1>16, <1>17, <1>18, <1>19, <1>20, <1>21, <1>22, <1>23, <1>24, <1>25,
     <1>26, <1>27, <1>28
  DEF Next, CallStep, Remounts, Child, Supervise

\* A call that is over or dead stays so.
EndsStay == \A q \in Calls : call[q].at \in {"dead", "over"} => call'[q].at \in {"dead", "over"}

LEMMA EndsSame == ASSUME call' = call PROVE EndsStay
  BY DEF EndsStay

LEMMA EndsMove ==
  ASSUME NEW q \in Calls, NEW pc, Moves(q, pc), call[q].at \notin {"dead", "over"}
  PROVE  EndsStay
  BY DEF EndsStay, Moves

LEMMA EndsStayed ==
  ASSUME IInv, [Next]_vars
  PROVE  EndsStay
<1>a. Typed
  BY DEF IInv
<1>1. ASSUME NEW q \in Calls, StartCall(q) PROVE EndsStay
  <2>1. call[q].at = "idle"
    BY <1>1 DEF StartCall
  <2>2. PICK pc, n : call' = [call EXCEPT ![q].at = pc, ![q].mount = n]
    BY <1>1 DEF StartCall
  <2>3. \A p \in Calls : p # q => call'[p] = call[p]
    BY <1>a, <2>2 DEF Typed
  <2> QED BY <2>1, <2>3 DEF EndsStay
<1>2. ASSUME NEW q \in Calls, TakeSlot(q) PROVE EndsStay
  <2>1. (At(q, "putting") \/ At(q, "left")) /\ call[q].at \notin {"dead", "over"}
    BY <1>2 DEF TakeSlot
  <2>2. Moves(q, "putting") \/ Moves(q, "left")
    BY <1>a, <2>1, AtMoves
  <2> QED BY <2>1, <2>2, EndsMove
<1>3. ASSUME NEW q \in Calls, Register(q) PROVE EndsStay
  <2>1. call[q].at = "putting"
    BY <1>3 DEF Register
  <2>2. PICK n : call' = [call EXCEPT ![q].at = "placed", ![q].id = n]
    BY <1>3 DEF Register
  <2>3. \A p \in Calls : p # q => call'[p] = call[p]
    BY <1>a, <2>2 DEF Typed
  <2> QED BY <2>1, <2>3 DEF EndsStay
<1>4. ASSUME NEW q \in Calls, Announce(q) PROVE EndsStay
  <2>1. (At(q, "waiting")) /\ call[q].at \notin {"dead", "over"}
    BY <1>4 DEF Announce
  <2>2. Moves(q, "waiting")
    BY <1>a, <2>1, AtMoves
  <2> QED BY <2>1, <2>2, EndsMove
<1>5. ASSUME NEW q \in Calls, Choose(q) PROVE EndsStay
  <2>1. (At(q, "answered") \/ At(q, "failing")) /\ call[q].at \notin {"dead", "over"}
    BY <1>5 DEF Choose
  <2>2. Moves(q, "answered") \/ Moves(q, "failing")
    BY <1>a, <2>1, AtMoves
  <2> QED BY <2>1, <2>2, EndsMove
<1>6. ASSUME NEW q \in Calls, GiveUp(q) PROVE EndsStay
  <2>1. (At(q, "failed")) /\ call[q].at \notin {"dead", "over"}
    BY <1>6 DEF GiveUp
  <2>2. Moves(q, "failed")
    BY <1>a, <2>1, AtMoves
  <2> QED BY <2>1, <2>2, EndsMove
<1>7. ASSUME NEW q \in Calls, Leave(q) PROVE EndsStay
  <2>1. (At(q, "left")) /\ call[q].at \notin {"dead", "over"}
    BY <1>7 DEF Leave
  <2>2. Moves(q, "left")
    BY <1>a, <2>1, AtMoves
  <2> QED BY <2>1, <2>2, EndsMove
<1>8. ASSUME NEW q \in Calls, RecordEnd(q) PROVE EndsStay
  <2>1. (At(q, "over")) /\ call[q].at \notin {"dead", "over"}
    BY <1>8 DEF RecordEnd
  <2>2. Moves(q, "over")
    BY <1>a, <2>1, AtMoves
  <2> QED BY <2>1, <2>2, EndsMove
<1>9. CASE TurnDone
  BY <1>a, <1>9, EndsSame DEF TurnDone, asker, kernel, serve
<1>10. CASE StopTurn
  BY <1>a, <1>10, EndsSame DEF StopTurn, asker, kernel, router, history, serve
<1>11. CASE Reload
  BY <1>a, <1>11, EndsSame DEF Reload, asker, router, history, serve
<1>12. CASE Dispose
  BY <1>a, <1>12, EndsSame DEF Dispose, router, history, serve
<1>13. CASE Build
  BY <1>a, <1>13, EndsSame DEF Build, router, history, serve
<1>14. CASE Provide
  BY <1>a, <1>14, EndsSame DEF Provide, asker, router, history, serve
<1>15. CASE UiDown
  BY <1>a, <1>15, EndsSame DEF UiDown, asker, history, serve
<1>16. CASE UiUp
  BY <1>a, <1>16, EndsSame DEF UiUp, asker, history, serve
<1>17. CASE HlPrint
  BY <1>a, <1>17, EndsSame DEF HlPrint, asker, kernel, history, serve
<1>18. CASE ReadLine
  BY <1>a, <1>18, EndsSame DEF ReadLine, asker, kernel, history, serve
<1>19. CASE Answer
  BY <1>a, <1>19, EndsSame DEF Answer, kernel, serve
<1>20. CASE Send
  BY <1>a, <1>20, EndsSame DEF Send, asker, kernel, history, serve
<1>21. CASE Scan
  BY <1>a, <1>21, EndsSame DEF Scan, asker, kernel, router, history
<1>22. CASE PendingAsk
  BY <1>a, <1>22, EndsSame DEF PendingAsk, asker, kernel, router, history
<1>23. ASSUME NEW q \in Calls, PostAnswer(q) PROVE EndsStay
  BY <1>a, <1>23, EndsSame DEF PostAnswer, asker, kernel, router, history
<1>24. ASSUME NEW p \in posts, ClaimArm(p) PROVE EndsStay
  BY <1>a, <1>24, EndsSame DEF ClaimArm, asker, kernel, router, history
<1>25. ASSUME NEW p \in posts, WriteAnswer(p) PROVE EndsStay
  BY <1>a, <1>25, EndsSame DEF WriteAnswer, asker, kernel, router, history
<1>26. CASE Die
  <2>1. call' = [q \in Calls |-> IF q \in Busy THEN [call[q] EXCEPT !.at = "dead"] ELSE call[q]]
    BY <1>26 DEF Die
  <2> QED BY <1>a, <2>1 DEF Typed, CallT, EndsStay
<1>27. CASE Respawn
  BY <1>a, <1>27, EndsSame DEF Respawn, history
<1>28. CASE UNCHANGED vars
  BY <1>a, <1>28, EndsSame DEF vars, asker, kernel, router, history, serve
<1> QED
  BY <1>1, <1>2, <1>3, <1>4, <1>5, <1>6, <1>7, <1>8, <1>9, <1>10, <1>11, <1>12, <1>13,
     <1>14, <1>15, <1>16, <1>17, <1>18, <1>19, <1>20, <1>21, <1>22, <1>23, <1>24, <1>25,
     <1>26, <1>27, <1>28
  DEF Next, CallStep, Remounts, Child, Supervise

\* What AskedFirst says of the events, and of the answers.
EventsAsked(s) == \A i \in 1 .. Len(s) : s[i].kind \in {"ask", "end"} => s[i].of \in asked
PostInStep(p) ==
  /\ p.at = "broken" => call[p.for].at \in {"dead", "over"}
  /\ p.at = "write" => kid = "up"

LEMMA AskedFirstIs ==
  AskedFirst <=> /\ EventsAsked(events) /\ EventsAsked(out)
                 /\ arm # NoCall => arm \in asked
                 /\ \A p \in posts : PostInStep(p)
  BY DEF AskedFirst, EventsAsked, PostInStep

LEMMA AskedFirstStays ==
  ASSUME Typed, AskedFirst, AskedKept, EndsStay, UNCHANGED <<out, posts, kid>>,
         arm' = arm \/ arm' = NoCall,
         \/ events' = events
         \/ \E e \in EventT : /\ events' = Append(events, e)
                              /\ e.kind \in {"ask", "end"} => e.of \in asked'
  PROVE  AskedFirst'
<1>1. EventsAsked(events) /\ EventsAsked(out) /\ (arm # NoCall => arm \in asked)
      /\ \A p \in posts : PostInStep(p)
  BY AskedFirstIs
<1>2. asked \subseteq asked' /\ events \in Seq(EventT) /\ posts \subseteq PostT
  BY DEF AskedKept, Typed
<1>3. EventsAsked(out)' /\ (arm' # NoCall => arm' \in asked')
  BY <1>1, <1>2 DEF EventsAsked
<1>4. EventsAsked(events)'
  <2>1. CASE events' = events
    BY <1>1, <1>2, <2>1 DEF EventsAsked
  <2>2. CASE events' # events
    <3>1. PICK e \in EventT : /\ events' = Append(events, e)
                              /\ e.kind \in {"ask", "end"} => e.of \in asked'
      BY <2>2
    <3>2. \A i \in 1 .. Len(events') : events'[i] = e \/ (i \in 1 .. Len(events) /\ events'[i] = events[i])
      BY <1>2, <3>1
    <3> QED BY <1>1, <1>2, <3>1, <3>2 DEF EventsAsked
  <2> QED BY <2>1, <2>2
<1>5. \A p \in posts' : PostInStep(p)'
  <2> TAKE p \in posts'
  <2>1. p \in posts /\ p.for \in Calls
    BY <1>2 DEF PostT
  <2> QED BY <1>1, <2>1 DEF PostInStep, EndsStay
<1> QED BY <1>3, <1>4, <1>5, AskedFirstIs DEF AskedFirst, EventsAsked, PostInStep

LEMMA AskedFirstStep ==
  ASSUME KInv, [Next]_vars
  PROVE  AskedFirst'
<1>a. Typed /\ AskedFirst /\ CallsInStep /\ DeadAreGone /\ LinesWritten
  BY DEF KInv, IInv
<1>b. AskedKept /\ EndsStay
  BY AskedStays, EndsStayed DEF KInv
<1>c. EventsAsked(events) /\ EventsAsked(out) /\ (arm # NoCall => arm \in asked)
      /\ \A p \in posts : PostInStep(p)
  BY <1>a, AskedFirstIs
<1>d. /\ events \in Seq(EventT) /\ out \in Seq(EventT) /\ posts \subseteq PostT
      /\ asked \subseteq asked' /\ arm \in Calls \cup {NoCall}
  BY <1>a, <1>b DEF Typed, AskedKept
<1>1. ASSUME NEW q \in Calls, StartCall(q) PROVE AskedFirst'
  BY <1>a, <1>b, <1>1, AskedFirstStays DEF StartCall, asker, router, history, serve
<1>2. ASSUME NEW q \in Calls, TakeSlot(q) PROVE AskedFirst'
  BY <1>a, <1>b, <1>2, AskedFirstStays DEF TakeSlot, kernel, router, history, serve
<1>3. ASSUME NEW q \in Calls, Register(q) PROVE AskedFirst'
  BY <1>a, <1>b, <1>3, AskedFirstStays DEF Register, kernel, router, history, serve
<1>4. ASSUME NEW q \in Calls, Announce(q) PROVE AskedFirst'
  <2>1. Emit(Event("ask", q)) /\ UNCHANGED <<out, arm, posts, kid>>
    BY <1>4 DEF Announce, asker, serve
  <2>2. /\ Event("ask", q) \in EventT
        /\ Event("ask", q).kind = "ask" /\ Event("ask", q).of = q
    BY EventsTyped DEF Event
  <2>3. q \in asked'
    BY <1>4 DEF Announce
  <2> QED BY <1>a, <1>b, <2>1, <2>2, <2>3, AskedFirstStays DEF Emit
<1>5. ASSUME NEW q \in Calls, Choose(q) PROVE AskedFirst'
  BY <1>a, <1>b, <1>5, AskedFirstStays DEF Choose, asker, kernel, router, history, serve
<1>6. ASSUME NEW q \in Calls, GiveUp(q) PROVE AskedFirst'
  <2>1. Emit(Event("end", q)) /\ UNCHANGED <<out, arm, posts, kid>>
    BY <1>6 DEF GiveUp, kernel, history, serve
  <2>2. /\ Event("end", q) \in EventT
        /\ Event("end", q).kind = "end" /\ Event("end", q).of = q
    BY EventsTyped DEF Event
  <2>3. q \in asked'
    <3>1. call[q].at = "failing"
      BY <1>6 DEF GiveUp
    <3> QED BY <1>a, <1>d, <3>1 DEF CallsInStep, Asking
  <2> QED BY <1>a, <1>b, <2>1, <2>2, <2>3, AskedFirstStays DEF Emit
<1>7. ASSUME NEW q \in Calls, Leave(q) PROVE AskedFirst'
  BY <1>a, <1>b, <1>7, AskedFirstStays DEF Leave, router, history, serve
<1>8. ASSUME NEW q \in Calls, RecordEnd(q) PROVE AskedFirst'
  <2>1. UNCHANGED <<out, arm, posts, kid>>
    BY <1>8 DEF RecordEnd, asker, serve
  <2>2. CASE kind[q] = "rule"
    <3>1. events' = events
      BY <1>8, <2>2 DEF RecordEnd
    <3> QED BY <1>a, <1>b, <2>1, <3>1, AskedFirstStays
  <2>3. CASE kind[q] # "rule"
    <3>1. \A k \in {"call", "result"} : Event(k, q) \in EventT /\ Event(k, q).kind \notin {"ask", "end"}
      BY EventsTyped DEF Event
    <3>2. PICK e \in EventT : Emit(e) /\ e.kind \notin {"ask", "end"}
      BY <1>8, <2>3, <3>1 DEF RecordEnd
    <3> QED BY <1>a, <1>b, <2>1, <3>2, AskedFirstStays DEF Emit
  <2> QED BY <2>2, <2>3
<1>9. CASE TurnDone
  <2>1. Emit(Event("done", NoCall)) /\ UNCHANGED <<out, arm, posts, kid>>
    BY <1>9 DEF TurnDone, asker, kernel, serve
  <2>2. /\ Event("done", NoCall) \in EventT
        /\ Event("done", NoCall).kind = "done" /\ Event("done", NoCall).of = NoCall
    BY EventsTyped DEF Event
  <2> QED BY <1>a, <1>b, <2>1, <2>2, AskedFirstStays DEF Emit
<1>10. CASE StopTurn
  BY <1>a, <1>b, <1>10, AskedFirstStays DEF StopTurn, asker, kernel, router, history, serve
<1>11. CASE Reload
  BY <1>a, <1>b, <1>11, AskedFirstStays DEF Reload, asker, router, history, serve
<1>12. CASE Dispose
  BY <1>a, <1>b, <1>12, AskedFirstStays DEF Dispose, router, history, serve
<1>13. CASE Build
  BY <1>a, <1>b, <1>13, AskedFirstStays DEF Build, router, history, serve
<1>14. CASE Provide
  BY <1>a, <1>b, <1>14, AskedFirstStays DEF Provide, asker, router, history, serve
<1>15. CASE UiDown
  BY <1>a, <1>b, <1>15, AskedFirstStays DEF UiDown, asker, history, serve
<1>16. CASE UiUp
  BY <1>a, <1>b, <1>16, AskedFirstStays DEF UiUp, asker, history, serve
<1>17. CASE HlPrint
  <2>1. /\ events # <<>> /\ out' = Append(out, Head(events)) /\ events' = Tail(events)
        /\ UNCHANGED <<arm, posts, kid, call, asked>>
    BY <1>17 DEF HlPrint, asker, kernel, history, serve
  <2>2. Head(events) \in EventT /\ Head(events) = events[1] /\ 1 \in 1 .. Len(events)
    BY <1>d, <2>1
  <2>3. \A i \in 1 .. Len(events') : i + 1 \in 1 .. Len(events) /\ events'[i] = events[i + 1]
    BY <1>d, <2>1
  <2>4. \A i \in 1 .. Len(out') :
          out'[i] = Head(events) \/ (i \in 1 .. Len(out) /\ out'[i] = out[i])
    BY <1>d, <2>1, <2>2
  <2>5. EventsAsked(events)' /\ EventsAsked(out)'
    BY <1>c, <1>d, <2>2, <2>3, <2>4 DEF EventsAsked
  <2>6. \A p \in posts' : PostInStep(p)'
    BY <1>c, <2>1 DEF PostInStep
  <2> QED BY <1>c, <2>1, <2>5, <2>6 DEF AskedFirst, EventsAsked, PostInStep
<1>18. CASE ReadLine
  BY <1>a, <1>b, <1>18, AskedFirstStays DEF ReadLine, asker, kernel, history, serve
<1>19. CASE Answer
  BY <1>a, <1>b, <1>19, AskedFirstStays DEF Answer, kernel, serve
<1>20. CASE Send
  BY <1>a, <1>b, <1>20, AskedFirstStays DEF Send, asker, kernel, history, serve
<1>21. CASE Scan
  <2>1. /\ out # <<>> /\ out' = Tail(out) /\ arm' = Routed(arm, Head(out))
        /\ UNCHANGED <<events, posts, call, asked>>
        /\ kid' = IF Head(out).kind = "exit" THEN "gone" ELSE kid
    BY <1>21 DEF Scan, asker, kernel, router, history
  <2>2. Head(out) \in EventT /\ Head(out) = out[1] /\ 1 \in 1 .. Len(out)
    BY <1>d, <2>1
  <2>3. \A i \in 1 .. Len(out') : i + 1 \in 1 .. Len(out) /\ out'[i] = out[i + 1]
    BY <1>d, <2>1
  <2>4. EventsAsked(events)' /\ EventsAsked(out)'
    BY <1>c, <2>1, <2>3 DEF EventsAsked
  <2>5. arm' # NoCall => arm' \in asked
    <3>1. arm' = NoCall \/ arm' = arm \/ (Head(out).kind = "ask" /\ arm' = Head(out).of)
      BY <2>1 DEF Routed
    <3> QED BY <1>c, <2>2, <3>1 DEF EventsAsked
  <2>6. kid = "up" => kid' = "up"
    <3>1. Head(out).kind = "exit" => kid = "dead"
      BY <2>2 DEF KInv, IInv, ExitLast
    <3> QED BY <2>1, <3>1
  <2>7. \A p \in posts' : PostInStep(p)'
    BY <1>c, <2>1, <2>6 DEF PostInStep
  <2> QED BY <2>1, <2>4, <2>5, <2>7 DEF AskedFirst, EventsAsked, PostInStep
<1>22. CASE PendingAsk
  <2>1. (arm' = arm \/ arm' = NoCall) /\ UNCHANGED <<out, posts, kid, events>>
    BY <1>22 DEF Refresh, PendingAsk, asker, kernel, router, history
  <2> QED BY <1>a, <1>b, <2>1, AskedFirstStays
<1>23. ASSUME NEW q \in Calls, PostAnswer(q) PROVE AskedFirst'
  <2>1. UNCHANGED <<events, out, call, asked, kid>> /\ (arm' = arm \/ arm' = NoCall)
    BY <1>23 DEF Refresh, PostAnswer, asker, kernel, router, history
  <2>2. posts' = posts \cup {[at |-> "claim", n |-> budget["posts"], id |-> Id(q), for |-> q]}
    BY <1>23 DEF PostAnswer
  <2>6. arm' # NoCall => arm' \in asked'
    BY <1>c, <2>1
  <2>7. \A p \in posts' : PostInStep(p)'
    BY <1>c, <2>1, <2>2 DEF PostInStep
  <2>8. EventsAsked(events)' /\ EventsAsked(out)'
    BY <1>c, <2>1 DEF EventsAsked
  <2> QED BY <2>7, <2>6, <2>8 DEF AskedFirst, EventsAsked, PostInStep
<1>24. ASSUME NEW p \in posts, ClaimArm(p) PROVE AskedFirst'
  <2>1. UNCHANGED <<events, out, call, asked, kid>> /\ (arm' = arm \/ arm' = NoCall)
    BY <1>24 DEF ClaimArm, asker, kernel, router, history
  <2>2. /\ posts' \subseteq posts \cup {[p EXCEPT !.at = Pipe]}
        /\ kid = "gone" => posts' \subseteq posts
    BY <1>24 DEF ClaimArm
  <2>3. /\ p \in PostT /\ p.for \in asked /\ p.for \in Calls
        /\ [p EXCEPT !.at = Pipe].at = Pipe /\ [p EXCEPT !.at = Pipe].for = p.for
    BY <1>a DEF Typed, PostT, LinesWritten, Written
  <2>4. kid # "up" => call[p.for].at \in {"dead", "over"}
    <3>1. call[p.for].at # "idle"
      BY <1>a, <2>3 DEF CallsInStep
    <3> QED BY <1>a, <2>3, <3>1 DEF DeadAreGone, Busy
  <2>5. (Pipe = "broken" => kid # "up") /\ (Pipe = "write" => kid = "up")
    BY DEF Pipe
  <2>6. arm' # NoCall => arm' \in asked'
    BY <1>c, <2>1
  <2>7. \A r \in posts' : PostInStep(r)'
    <3> TAKE r \in posts'
    <3>1. CASE r \in posts
      BY <1>c, <2>1, <3>1 DEF PostInStep
    <3>2. CASE r = [p EXCEPT !.at = Pipe]
      BY <2>1, <2>3, <2>4, <2>5, <3>2 DEF PostInStep
    <3> QED BY <2>2, <3>1, <3>2
  <2>8. EventsAsked(events)' /\ EventsAsked(out)'
    BY <1>c, <2>1 DEF EventsAsked
  <2> QED BY <2>7, <2>6, <2>8 DEF AskedFirst, EventsAsked, PostInStep
<1>25. ASSUME NEW p \in posts, WriteAnswer(p) PROVE AskedFirst'
  <2>1. UNCHANGED <<events, out, call, asked, kid>> /\ (arm' = arm \/ arm' = p.for)
        /\ posts' \subseteq posts
    BY <1>25 DEF WriteAnswer, asker, kernel, router, history
  <2>5. p.for \in asked
    BY <1>a DEF LinesWritten, Written
  <2>6. arm' # NoCall => arm' \in asked'
    BY <1>c, <2>1, <2>5
  <2>7. \A r \in posts' : PostInStep(r)'
    BY <1>c, <2>1 DEF PostInStep
  <2>8. EventsAsked(events)' /\ EventsAsked(out)'
    BY <1>c, <2>1 DEF EventsAsked
  <2> QED BY <2>7, <2>6, <2>8 DEF AskedFirst, EventsAsked, PostInStep
<1>26. CASE Die
  <2>1. UNCHANGED <<asked, arm>> /\ kid' = "dead" /\ events' = <<>>
        /\ out' = Append(out, Event("exit", NoCall))
    BY <1>26 DEF Die, asker, history
  <2>2. call' = [q \in Calls |-> IF q \in Busy THEN [call[q] EXCEPT !.at = "dead"] ELSE call[q]]
    BY <1>26 DEF Die
  <2>3. posts' = {IF p.at = "write" THEN [p EXCEPT !.at = "broken"] ELSE p : p \in posts}
    BY <1>26 DEF Die
  <2>4. Event("exit", NoCall) \in EventT /\ Event("exit", NoCall).kind = "exit"
    BY EventsTyped DEF Event
  <2>5. \A i \in 1 .. Len(out') :
          out'[i] = Event("exit", NoCall) \/ (i \in 1 .. Len(out) /\ out'[i] = out[i])
    BY <1>d, <2>1, <2>4
  <2>6. EventsAsked(out)'
    BY <1>c, <2>1, <2>4, <2>5 DEF EventsAsked
  <2>7. EventsAsked(events)'
    <3>1. 1 .. Len(events') = {}
      BY <2>1
    <3> QED BY <3>1 DEF EventsAsked
  <2>8. ASSUME NEW q \in asked PROVE call'[q].at \in {"dead", "over"}
    <3>1. q \in Calls /\ call[q].at # "idle" /\ call[q] \in CallT
      BY <1>a, CallIs DEF Typed, CallsInStep
    <3>2. CASE q \in Busy
      BY <2>2, <3>1, <3>2 DEF CallT
    <3>3. CASE q \notin Busy
      BY <2>2, <3>1, <3>3 DEF Busy
    <3> QED BY <3>2, <3>3
  <2>9. ASSUME NEW r \in posts' PROVE PostInStep(r)'
    <3>1. PICK p \in posts : r = IF p.at = "write" THEN [p EXCEPT !.at = "broken"] ELSE p
      BY <2>3
    <3>2. r.at # "write" /\ r.for = p.for /\ p.for \in asked
      BY <1>a, <1>d, <3>1 DEF PostT, LinesWritten, Written
    <3> QED BY <2>8, <3>2 DEF PostInStep
  <2> QED BY <1>c, <2>1, <2>6, <2>7, <2>9 DEF AskedFirst, EventsAsked, PostInStep
<1>27. CASE Respawn
  <2>1. UNCHANGED <<asked, arm, events, out, call, posts>> /\ kid' = "up"
    BY <1>27 DEF Respawn, history
  <2>2. \A p \in posts' : PostInStep(p)'
    BY <1>c, <2>1 DEF PostInStep
  <2> QED BY <1>c, <2>1, <2>2 DEF AskedFirst, EventsAsked, PostInStep
<1>28. CASE UNCHANGED vars
  BY <1>a, <1>b, <1>28, AskedFirstStays DEF vars, asker, kernel, router, history, serve
<1> QED
  BY <1>1, <1>2, <1>3, <1>4, <1>5, <1>6, <1>7, <1>8, <1>9, <1>10, <1>11, <1>12, <1>13,
     <1>14, <1>15, <1>16, <1>17, <1>18, <1>19, <1>20, <1>21, <1>22, <1>23, <1>24, <1>25,
     <1>26, <1>27, <1>28
  DEF Next, CallStep, Remounts, Child, Supervise

----------------------------------------------------------------------------
(* The arm stays.                                                          *)

LEMMA WaitsAre ==
  ASSUME IInv, AskedFirst, ArmSafe, ~strayed, NEW q \in Calls, Waits(q)
  PROVE  /\ ArmOf(q) /\ q \in asked /\ call[q].at = "waiting" /\ q \in Busy
         /\ service # 0 /\ service = mount /\ kid = "up" /\ rows \notin Withdrawn
         /\ call[q].mount \in Askers
<1>1. ArmOf(q) /\ call[q].at = "waiting"
  BY DEF ArmSafe, Waits
<1>2. q \in asked /\ call[q].mount # 0
  BY <1>1 DEF IInv, CallsInStep, Asking
<1>3. service # 0 /\ call[q].mount \in Askers
  BY <1>1, <1>2, CallIs, Mounts DEF ArmOf, IInv
<1> QED BY <1>1, <1>2, <1>3 DEF IInv, RowsInStep, Busy

\* Only one call at a time waits.
LEMMA OneWaits ==
  ASSUME KInv, ~strayed, NEW q \in Calls, Waits(q), NEW p \in Calls, p # q,
         call[p].at \in InSlot
  PROVE  call[p].mount # service
<1>1. ArmOf(q) /\ q \in Busy /\ call[q].at \in InSlot
  BY WaitsAre DEF KInv, InSlot
<1>2. p \in Busy
  BY DEF Busy, InSlot
<1>3. TakesSlot(p) /\ TakesSlot(q)
  BY <1>1, <1>2 DEF KInv, OneAsks
<1>4. slot[call[p].mount] = p /\ slot[call[q].mount] = q
  BY <1>1, <1>3 DEF KInv, OneAsks
<1> QED BY <1>1, <1>4 DEF ArmOf

LEMMA EventsSpare ==
  ASSUME AskedFirst, AskedKept, NEW q \in asked
  PROVE  /\ AllSpare(call, kind, q, out) => AllSpare(call', kind, q, out)
         /\ SpareOnceShown(call, kind, q, out) => SpareOnceShown(call', kind, q, out)
         /\ AllSpare(call, kind, q, events) => AllSpare(call', kind, q, events)
         /\ SpareOnceShown(call, kind, q, events) => SpareOnceShown(call', kind, q, events)
<1>1. /\ call[q].id = call'[q].id
      /\ \A i \in 1 .. Len(out) : out[i].kind = "end" => call'[out[i].of].id = call[out[i].of].id
      /\ \A i \in 1 .. Len(events) :
           events[i].kind = "end" => call'[events[i].of].id = call[events[i].of].id
  BY DEF AskedFirst, AskedKept
<1>2. /\ AllSpare(call, kind, q, out) => AllSpare(call', kind, q, out)
      /\ SpareOnceShown(call, kind, q, out) => SpareOnceShown(call', kind, q, out)
  BY <1>1, SparesKept
<1>3. /\ AllSpare(call, kind, q, events) => AllSpare(call', kind, q, events)
      /\ SpareOnceShown(call, kind, q, events) => SpareOnceShown(call', kind, q, events)
  BY <1>1, SparesKept
<1> QED BY <1>2, <1>3

\* A question that goes on waiting keeps its arm over what leaves the
\* pipeline as it is, or adds an event that spares it.
LEMMA ArmGoesOn ==
  ASSUME IInv, AskedFirst, ArmSafe, AskedKept, ~strayed, NEW q \in Calls, Waits(q),
         UNCHANGED <<kind, service, out>>, call'[q].mount = call[q].mount,
         q \notin closed', arm' = q => arm = q,
         \/ events' = events
         \/ \E e \in EventT : /\ events' = Append(events, e) /\ Spares(call, kind, q, e)
                              /\ e.kind = "end" => e.of \in asked
  PROVE  ArmOf(q)'
<1>1. ArmOf(q) /\ q \in asked /\ events \in Seq(EventT)
  BY WaitsAre DEF IInv, Typed
<1>2. /\ SpareOnceShown(call', kind, q, out) /\ SpareOnceShown(call', kind, q, events)
      /\ arm = q => AllSpare(call', kind, q, out)
      /\ arm = q \/ Shown(q, out) => AllSpare(call', kind, q, events)
  BY <1>1, EventsSpare DEF ArmOf
<1>3. /\ SpareOnceShown(call', kind, q, events')
      /\ arm = q \/ Shown(q, out) => AllSpare(call', kind, q, events')
  <2>1. CASE events' = events
    BY <1>2, <2>1
  <2>2. CASE events' # events
    <3>1. PICK e \in EventT : /\ events' = Append(events, e) /\ Spares(call, kind, q, e)
                              /\ e.kind = "end" => e.of \in asked
      BY <2>2
    <3>2. Spares(call', kind, q, e)
      BY <1>1, <3>1 DEF Spares, AskedKept
    <3> QED BY <1>1, <1>2, <3>1, <3>2, SparesAppend
  <2> QED BY <2>1, <2>2
<1> QED BY <1>1, <1>2, <1>3 DEF ArmOf, Shown, SpareOnceShown, AllSpare, Spares

LEMMA ArmSame ==
  ASSUME KInv, UNCHANGED <<kind, call, service, closed, arm, out, events, strayed>>,
         \A m \in Askers : pending'[m] \subseteq pending[m]
  PROVE  ArmSafe'
<1> SUFFICES ASSUME ~strayed', NEW q \in Calls, Waits(q)' PROVE ArmOf(q)'
  BY DEF ArmSafe
<1>1. call[q].at = "waiting" /\ ~strayed
  BY DEF Waits
<1>2. call[q].mount \in Askers
  BY <1>1, CallIs, Mounts DEF KInv, IInv, CallsInStep
<1>3. Waits(q)
  BY <1>1, <1>2 DEF Waits
<1>4. ArmOf(q)
  BY <1>1, <1>3 DEF KInv, ArmSafe
<1> QED BY <1>4 DEF ArmOf, Shown, SpareOnceShown, AllSpare, Spares

LEMMA ArmStep ==
  ASSUME KInv, [Next]_vars
  PROVE  ArmSafe'
<1>a. IInv /\ Typed /\ CallsInStep /\ RowsInStep /\ DeadAreGone /\ OneAsks /\ AskedFirst /\ ArmSafe
      /\ KInv
  BY DEF KInv, IInv
<1>b. AskedKept /\ kind' = kind
  BY <1>a, AskedStays, KindStays
<1>c. events \in Seq(EventT) /\ out \in Seq(EventT) /\ pending \in [Askers -> SUBSET Calls]
  BY <1>a DEF Typed
<1>1. ASSUME NEW q \in Calls, StartCall(q) PROVE ArmSafe'
  <2> SUFFICES ASSUME ~strayed', NEW w \in Calls, Waits(w)' PROVE ArmOf(w)'
    BY DEF ArmSafe
  <2>1. UNCHANGED <<service, out, events, closed, arm, pending, strayed>>
    BY <1>1 DEF StartCall, asker, router, history, serve
  <2>2. PICK pc, n : /\ pc # "waiting"
                     /\ call' = [call EXCEPT ![q].at = pc, ![q].mount = n]
    BY <1>1 DEF StartCall
  <2>3. call'[q].at = pc /\ \A p \in Calls : p # q => call'[p] = call[p]
    BY <1>a, <2>2 DEF Typed, CallT
  <2>4. w # q /\ call'[w] = call[w]
    BY <2>2, <2>3 DEF Waits
  <2>5. Waits(w) /\ ~strayed
    BY <2>1, <2>4 DEF Waits
  <2>6. w \notin closed'
    BY <1>a, <2>1, <2>5 DEF ArmSafe, ArmOf
  <2> QED BY <1>a, <1>b, <2>1, <2>4, <2>5, <2>6, ArmGoesOn
<1>2. ASSUME NEW q \in Calls, TakeSlot(q) PROVE ArmSafe'
  <2> SUFFICES ASSUME ~strayed', NEW w \in Calls, Waits(w)' PROVE ArmOf(w)'
    BY DEF ArmSafe
  <2>1. At(q, "putting") \/ At(q, "left")
    BY <1>2 DEF TakeSlot
  <2>2. Moves(q, "putting") \/ Moves(q, "left")
    BY <1>a, <2>1, AtMoves
  <2>3. UNCHANGED <<service, out, events, closed, arm, strayed>>
    BY <1>2 DEF TakeSlot, kernel, router, history, serve
  <2>4. w # q /\ call[w].at = "waiting" /\ call'[w].mount = call[w].mount
    BY <2>2 DEF Waits, Moves
  <2>5. call[w].mount \in Askers
    BY <1>a, <2>4, CallIs, Mounts DEF CallsInStep
  <2>6. Waits(w) /\ ~strayed
    BY <1>2, <1>c, <2>3, <2>4, <2>5 DEF Waits, TakeSlot, kernel, router, history, serve
  <2>7. w \notin closed /\ w \in asked
    BY <1>a, <2>6, WaitsAre DEF ArmOf
  <2> QED BY <1>a, <1>b, <2>3, <2>4, <2>6, <2>7, ArmGoesOn
<1>3. ASSUME NEW q \in Calls, Register(q) PROVE ArmSafe'
  <2> SUFFICES ASSUME ~strayed', NEW w \in Calls, Waits(w)' PROVE ArmOf(w)'
    BY DEF ArmSafe
  <2>1. /\ UNCHANGED <<service, out, events, closed, arm>> /\ (strayed => strayed')
        /\ pending' = [pending EXCEPT ![call[q].mount] = pending[call[q].mount] \cup {q}]
    BY <1>3 DEF Register, kernel, router, history, serve
  <2>2. PICK n : call' = [call EXCEPT ![q].at = "placed", ![q].id = n]
    BY <1>3 DEF Register
  <2>3. call'[q].at = "placed" /\ \A p \in Calls : p # q => call'[p] = call[p]
    BY <1>a, <2>2 DEF Typed, CallT
  <2>4. w # q /\ call'[w] = call[w] /\ call[w].at = "waiting"
    BY <2>3 DEF Waits
  <2>5. call[w].mount \in Askers
    BY <1>a, <2>4, CallIs, Mounts DEF CallsInStep
  <2>6. Waits(w) /\ ~strayed
    <3>1. w \in pending'[call[w].mount]
      BY <2>4 DEF Waits
    <3>2. w \in pending[call[w].mount]
      BY <1>c, <2>1, <2>4, <2>5, <3>1
    <3> QED BY <2>1, <2>4, <3>2 DEF Waits
  <2>7. w \notin closed'
    BY <1>a, <2>1, <2>6 DEF ArmSafe, ArmOf
  <2> QED BY <1>a, <1>b, <2>1, <2>4, <2>6, <2>7, ArmGoesOn
<1>4. ASSUME NEW q \in Calls, Announce(q) PROVE ArmSafe'
  <2> SUFFICES ASSUME ~strayed', NEW w \in Calls, Waits(w)' PROVE ArmOf(w)'
    BY DEF ArmSafe
  <2>1. /\ call[q].at = "placed" /\ closed' = closed \ SameId(q) /\ asked' = asked \cup {q}
        /\ UNCHANGED <<service, out, arm, pending>> /\ Emit(Event("ask", q))
        /\ strayed' = (strayed \/ call[q].mount # service)
    BY <1>4 DEF Announce, asker, serve
  <2>2. At(q, "waiting")
    BY <1>4 DEF Announce
  <2>3. Moves(q, "waiting")
    BY <1>a, <2>2, AtMoves
  <2>4. ~strayed /\ call[q].mount = service /\ q \notin asked
    BY <1>a, <2>1 DEF CallsInStep
  <2>5. w = q
    <3>1. SUFFICES ASSUME w # q PROVE FALSE
      OBVIOUS
    <3>2. Waits(w)
      BY <2>1, <2>3, <3>1 DEF Waits, Moves
    <3>3. call[q].at \in InSlot
      BY <2>1 DEF InSlot
    <3> QED BY <1>a, <2>4, <3>1, <3>2, <3>3, OneWaits
  <2>6. call'[q].mount = service' /\ q \notin closed' /\ arm # q
    <3>1. closed \subseteq asked /\ q # NoCall
      BY <1>a, AskAssumption DEF Typed
    <3> QED BY <1>a, <2>1, <2>3, <2>4, <3>1 DEF Moves, AskedFirst
  <2>7. ~Shown(q, out) /\ ~Shown(q, events)
    <3>1. \A i \in 1 .. Len(out) : out[i] # Event("ask", q)
      BY <1>a, <2>4 DEF AskedFirst, Event
    <3>2. \A i \in 1 .. Len(events) : events[i] # Event("ask", q)
      BY <1>a, <2>4 DEF AskedFirst, Event
    <3> QED BY <3>1, <3>2 DEF Shown
  <2>8. SpareOnceShown(call', kind, q, out) /\ SpareOnceShown(call', kind, q, events)
    BY <2>7 DEF Shown, SpareOnceShown
  <2>9. SpareOnceShown(call', kind, q, events')
    <3>1. events' = events \/ events' = Append(events, Event("ask", q))
      BY <2>1 DEF Emit
    <3>2. Event("ask", q) \in EventT
      BY EventsTyped
    <3>3. SpareOnceShown(call', kind, q, Append(events, Event("ask", q)))
      BY <1>c, <2>7, <2>8, <3>2, SparesAppend
    <3> QED BY <2>8, <3>1, <3>3
  <2>10. ~Shown(q, out') /\ arm' # q /\ SpareOnceShown(call', kind', q, out')
         /\ SpareOnceShown(call', kind', q, events')
    BY <1>b, <2>1, <2>6, <2>7, <2>8, <2>9
  <2> QED BY <2>5, <2>6, <2>10 DEF ArmOf, Shown, SpareOnceShown, Spares
<1>5. ASSUME NEW q \in Calls, Choose(q) PROVE ArmSafe'
  <2> SUFFICES ASSUME ~strayed', NEW w \in Calls, Waits(w)' PROVE ArmOf(w)'
    BY DEF ArmSafe
  <2>1. At(q, "answered") \/ At(q, "failing")
    BY <1>5 DEF Choose
  <2>2. Moves(q, "answered") \/ Moves(q, "failing")
    BY <1>a, <2>1, AtMoves
  <2>3. UNCHANGED <<service, out, events, closed, arm, strayed>>
    BY <1>5 DEF Choose, asker, kernel, router, history, serve
  <2>4. w # q /\ call[w].at = "waiting" /\ call'[w].mount = call[w].mount
    BY <2>2 DEF Waits, Moves
  <2>5. call[w].mount \in Askers
    BY <1>a, <2>4, CallIs, Mounts DEF CallsInStep
  <2>6. Waits(w) /\ ~strayed
    BY <1>5, <1>c, <2>3, <2>4, <2>5 DEF Waits, Choose, asker, kernel, router, history, serve
  <2>7. w \notin closed /\ w \in asked
    BY <1>a, <2>6, WaitsAre DEF ArmOf
  <2> QED BY <1>a, <1>b, <2>3, <2>4, <2>6, <2>7, ArmGoesOn
<1>6. ASSUME NEW q \in Calls, GiveUp(q) PROVE ArmSafe'
  <2> SUFFICES ASSUME ~strayed', NEW w \in Calls, Waits(w)' PROVE ArmOf(w)'
    BY DEF ArmSafe
  <2>1. At(q, "failed")
    BY <1>6 DEF GiveUp
  <2>2. Moves(q, "failed")
    BY <1>a, <2>1, AtMoves
  <2>3. UNCHANGED <<service, out, closed, arm, strayed>>
    BY <1>6 DEF GiveUp, kernel, history, serve
  <2>4. w # q /\ call[w].at = "waiting" /\ call'[w].mount = call[w].mount
    BY <2>2 DEF Waits, Moves
  <2>5. call[w].mount \in Askers
    BY <1>a, <2>4, CallIs, Mounts DEF CallsInStep
  <2>6. Waits(w) /\ ~strayed
    BY <1>6, <1>c, <2>3, <2>4, <2>5 DEF Waits, GiveUp, kernel, history, serve
  <2>7. w \notin closed /\ w \in asked
    BY <1>a, <2>6, WaitsAre DEF ArmOf
  <2>8. q \in asked
    <3>1. call[q].at = "failing"
      BY <1>6 DEF GiveUp
    <3> QED BY <1>a, <3>1 DEF CallsInStep, Asking
  <2>9. call[q].id # call[w].id
    BY <1>a, <2>4, <2>6, <2>7, <2>8, IInvAnswersHome DEF AnswersHome, Id
  <2>10. /\ Event("end", q) \in EventT /\ Spares(call, kind, w, Event("end", q))
         /\ Event("end", q).of \in asked
    <3>1. Event("end", q).kind = "end" /\ Event("end", q).of = q
      BY DEF Event
    <3> QED BY <2>8, <2>9, <3>1, EventsTyped DEF Spares
  <2>11. events' = events \/ events' = Append(events, Event("end", q))
    BY <1>6 DEF GiveUp, Emit
  <2> QED BY <1>a, <1>b, <2>3, <2>4, <2>6, <2>7, <2>10, <2>11, ArmGoesOn
<1>7. ASSUME NEW q \in Calls, Leave(q) PROVE ArmSafe'
  <2> SUFFICES ASSUME ~strayed', NEW w \in Calls, Waits(w)' PROVE ArmOf(w)'
    BY DEF ArmSafe
  <2>1. At(q, "left")
    BY <1>7 DEF Leave
  <2>2. Moves(q, "left")
    BY <1>a, <2>1, AtMoves
  <2>3. UNCHANGED <<service, out, events, closed, arm, strayed>>
    BY <1>7 DEF Leave, router, history, serve
  <2>4. w # q /\ call[w].at = "waiting" /\ call'[w].mount = call[w].mount
    BY <2>2 DEF Waits, Moves
  <2>5. call[w].mount \in Askers
    BY <1>a, <2>4, CallIs, Mounts DEF CallsInStep
  <2>6. Waits(w) /\ ~strayed
    BY <1>7, <1>c, <2>3, <2>4, <2>5 DEF Waits, Leave, router, history, serve
  <2>7. w \notin closed /\ w \in asked
    BY <1>a, <2>6, WaitsAre DEF ArmOf
  <2> QED BY <1>a, <1>b, <2>3, <2>4, <2>6, <2>7, ArmGoesOn
<1>8. ASSUME NEW q \in Calls, RecordEnd(q) PROVE ArmSafe'
  <2> SUFFICES ASSUME ~strayed', NEW w \in Calls, Waits(w)' PROVE ArmOf(w)'
    BY DEF ArmSafe
  <2>1. At(q, "over")
    BY <1>8 DEF RecordEnd
  <2>2. Moves(q, "over")
    BY <1>a, <2>1, AtMoves
  <2>3. UNCHANGED <<service, out, arm, strayed>>
    BY <1>8 DEF RecordEnd, asker, serve
  <2>4. w # q /\ call[w].at = "waiting" /\ call'[w].mount = call[w].mount
    BY <2>2 DEF Waits, Moves
  <2>5. call[w].mount \in Askers
    BY <1>a, <2>4, CallIs, Mounts DEF CallsInStep
  <2>6. Waits(w) /\ ~strayed
    BY <1>8, <1>c, <2>3, <2>4, <2>5 DEF Waits, RecordEnd, asker, serve
  <2>7. w \notin closed /\ w \in asked
    BY <1>a, <2>6, WaitsAre DEF ArmOf
  <2>8. kind[w] = kind[q] /\ q \in Busy
    BY <1>8, <1>a DEF RecordEnd, Busy, OneAsks
  <2>9. CASE kind[q] = "rule"
    <3>1. UNCHANGED <<closed, events>>
      BY <1>8, <2>9 DEF RecordEnd
    <3> QED BY <1>a, <1>b, <2>3, <2>4, <2>6, <2>7, <3>1, ArmGoesOn
  <2>10. CASE kind[q] # "rule"
    <3>1. kind[q] = "native"
      <4>1. TakesSlot(q)
        <5>1. w \in Busy
          BY <2>4 DEF Busy
        <5> QED BY <1>a, <2>4, <2>8, <5>1 DEF OneAsks
      <4> QED BY <1>a, <2>10, <4>1 DEF TakesSlot, Typed, Kinds
    <3> DEFINE e == Event("call", q)
    <3>2. e \in EventT /\ e.kind = "call" /\ e.of = q
      BY EventsTyped DEF Event
    <3>3. closed' = closed \cup Closes(e) /\ Emit(e)
      BY <1>8, <2>10, <3>1 DEF RecordEnd
    <3> HIDE DEF e
    <3>4. w \notin Closes(e)
      BY <2>4, <2>8, <3>1, <3>2 DEF Closes, EndsAsk
    <3>5. Spares(call, kind, w, e)
      BY <2>4, <2>8, <3>1, <3>2 DEF Spares
    <3>6. w \notin closed'
      BY <2>7, <3>3, <3>4
    <3>7. events' = events \/ events' = Append(events, e)
      BY <3>3 DEF Emit
    <3>8. e.kind # "end"
      BY <3>2
    <3> QED BY <1>a, <1>b, <2>3, <2>4, <2>6, <3>2, <3>5, <3>6, <3>7, <3>8, ArmGoesOn
  <2> QED BY <2>9, <2>10
<1>9. CASE TurnDone
  <2> SUFFICES ASSUME ~strayed', NEW w \in Calls, Waits(w)' PROVE ArmOf(w)'
    BY DEF ArmSafe
  <2>1. Busy = {} /\ UNCHANGED <<call, pending>>
    BY <1>9 DEF TurnDone, asker, kernel, serve
  <2>2. w \in Busy
    BY <2>1 DEF Waits, Busy
  <2> QED BY <2>1, <2>2
<1>10. CASE StopTurn
  BY <1>a, <1>c, <1>10, ArmSame DEF StopTurn, asker, kernel, router, history, serve
<1>11. CASE Reload
  BY <1>a, <1>c, <1>11, ArmSame DEF Reload, asker, router, history, serve
<1>12. CASE Dispose
  <2> SUFFICES ASSUME ~strayed', NEW w \in Calls, Waits(w)' PROVE ArmOf(w)'
    BY DEF ArmSafe
  <2>1. /\ UNCHANGED <<call, strayed>> /\ pending' = [pending EXCEPT ![mount] = {}]
    BY <1>12 DEF Dispose, router, history, serve
  <2>2. call[w].at = "waiting" /\ w \in pending'[call[w].mount]
    BY <2>1 DEF Waits
  <2>3. call[w].mount \in Askers /\ mount \in Askers
    BY <1>a, <2>2, CallIs, Mounts DEF CallsInStep, Typed
  <2>4. w \in pending[call[w].mount] /\ call[w].mount # mount
    BY <1>c, <2>1, <2>2, <2>3
  <2>5. Waits(w) /\ ~strayed
    BY <2>1, <2>2, <2>4 DEF Waits
  <2>6. call[w].mount = mount
    BY <1>a, <2>5, WaitsAre DEF ArmOf
  <2> QED BY <2>4, <2>6
<1>13. CASE Build
  BY <1>a, <1>c, <1>13, ArmSame DEF Build, router, history, serve
<1>14. CASE Provide
  <2> SUFFICES ASSUME ~strayed', NEW w \in Calls, Waits(w)' PROVE ArmOf(w)'
    BY DEF ArmSafe
  <2>1. UNCHANGED <<call, strayed, pending>>
    BY <1>14 DEF Provide, asker, router, history, serve
  <2>2. Waits(w) /\ ~strayed
    BY <2>1 DEF Waits
  <2>3. rows \in Withdrawn
    <3>1. rows \in RowsLeft /\ rows # <<>> /\ Head(rows) = "provide"
      BY <1>14, <1>a DEF Provide, RowStep, RowsInStep
    <3> QED BY <3>1, PlanSteps DEF Leaves
  <2> QED BY <1>a, <2>2, <2>3, WaitsAre
<1>15. CASE UiDown
  BY <1>a, <1>c, <1>15, ArmSame DEF UiDown, asker, history, serve
<1>16. CASE UiUp
  BY <1>a, <1>c, <1>16, ArmSame DEF UiUp, asker, history, serve
<1>17. CASE HlPrint
  <2> SUFFICES ASSUME ~strayed', NEW w \in Calls, Waits(w)' PROVE ArmOf(w)'
    BY DEF ArmSafe
  <2>1. /\ events # <<>> /\ out' = Append(out, Head(events)) /\ events' = Tail(events)
        /\ UNCHANGED <<call, pending, service, closed, arm, strayed>>
    BY <1>17 DEF HlPrint, asker, kernel, history, serve
  <2>2. Waits(w) /\ ~strayed
    BY <2>1 DEF Waits
  <2>3. ArmOf(w)
    BY <1>a, <2>2 DEF ArmSafe
  <2> DEFINE e == Head(events)
  <2>4. e \in EventT
    BY <1>c, <2>1, HeadTail
  <2>5. /\ SpareOnceShown(call, kind, w, events) => SpareOnceShown(call, kind, w, events')
        /\ AllSpare(call, kind, w, events) => Spares(call, kind, w, e) /\ AllSpare(call, kind, w, events')
        /\ SpareOnceShown(call, kind, w, events) /\ e = Event("ask", w)
             => AllSpare(call, kind, w, events')
    BY <1>c, <2>1, SparesTail
  <2>6. /\ AllSpare(call, kind, w, out) /\ Spares(call, kind, w, e) => AllSpare(call, kind, w, out')
        /\ SpareOnceShown(call, kind, w, out) /\ (Shown(w, out) => Spares(call, kind, w, e))
             => SpareOnceShown(call, kind, w, out')
        /\ Shown(w, out') => Shown(w, out) \/ e = Event("ask", w)
    BY <1>c, <2>1, <2>4, SparesAppend
  <2> HIDE DEF e
  <2>7. /\ SpareOnceShown(call, kind, w, out') /\ SpareOnceShown(call, kind, w, events')
        /\ arm = w => AllSpare(call, kind, w, out')
        /\ arm = w \/ Shown(w, out') => AllSpare(call, kind, w, events')
    BY <2>3, <2>5, <2>6 DEF ArmOf
  <2> QED BY <1>b, <2>1, <2>3, <2>7 DEF ArmOf, Shown, SpareOnceShown, AllSpare, Spares
<1>18. CASE ReadLine
  BY <1>a, <1>c, <1>18, ArmSame DEF ReadLine, asker, kernel, history, serve
<1>19. CASE Answer
  <2> SUFFICES ASSUME ~strayed', NEW w \in Calls, Waits(w)' PROVE ArmOf(w)'
    BY DEF ArmSafe
  <2> DEFINE k == IF pump.to # 0 THEN pump.to ELSE answerer
             held == {q \in pending[k] : Id(q) = pump.line.id}
  <2>1. /\ UNCHANGED <<call, service, arm, out, events, strayed>>
        /\ pump.at = "answer" /\ (pump.to # 0 \/ answerer # 0)
        /\ pending' = [pending EXCEPT ![k] = pending[k] \ held]
        /\ closed' = closed \cup UNION {SameId(q) : q \in held}
    BY <1>19 DEF Answer, kernel, serve
  <2>2. k \in Askers
    BY <1>a, <2>1, Mounts DEF Typed, PumpT
  <2>3. call[w].at = "waiting" /\ w \in pending'[call[w].mount] /\ ~strayed
    BY <2>1 DEF Waits
  <2>4. call[w].mount \in Askers
    BY <1>a, <2>3, CallIs, Mounts DEF CallsInStep
  <2>5. Waits(w) /\ (call[w].mount = k => w \notin held)
    BY <1>c, <2>1, <2>2, <2>3, <2>4 DEF Waits
  <2>6. ASSUME NEW h \in held, w \in SameId(h) PROVE FALSE
    <3>1. h \in pending[k] /\ h \in Calls /\ Id(h) = pump.line.id
      BY <1>c, <2>2
    <3>2. h = pump.line.for
      BY <1>a, <2>1, <2>2, <2>3, <3>1, AnswerFits
    <3>3. h \in asked
      BY <1>a, <2>1, <3>2 DEF IInv, LinesWritten, Written
    <3>4. w \in asked /\ Id(w) = Id(h)
      BY <2>6 DEF SameId
    <3>5. w = h
      BY <1>a, <2>3, <3>3, <3>4, IInvAnswersHome DEF AnswersHome
    <3>6. call[h].mount = k
      BY <1>a, <2>2, <3>1 DEF CallsInStep
    <3> QED BY <2>5, <2>6, <3>5, <3>6
  <2> HIDE DEF held
  <2>7. w \notin closed'
    BY <1>a, <2>1, <2>3, <2>5, <2>6 DEF ArmSafe, ArmOf
  <2> QED BY <1>a, <1>b, <2>1, <2>3, <2>5, <2>7, ArmGoesOn
<1>20. CASE Send
  BY <1>a, <1>c, <1>20, ArmSame DEF Send, asker, kernel, history, serve
<1>21. CASE Scan
  <2> SUFFICES ASSUME ~strayed', NEW w \in Calls, Waits(w)' PROVE ArmOf(w)'
    BY DEF ArmSafe
  <2>1. /\ out # <<>> /\ out' = Tail(out) /\ arm' = Routed(arm, Head(out))
        /\ UNCHANGED <<call, pending, service, closed, events, strayed>>
    BY <1>21 DEF Scan, asker, kernel, router, history
  <2>2. Waits(w) /\ ~strayed
    BY <2>1 DEF Waits
  <2>3. ArmOf(w)
    BY <1>a, <2>2 DEF ArmSafe
  <2> DEFINE e == Head(out)
  <2>4. e \in EventT
    BY <1>c, <2>1, HeadTail
  <2>5. /\ SpareOnceShown(call, kind, w, out) => SpareOnceShown(call, kind, w, out')
        /\ AllSpare(call, kind, w, out) => AllSpare(call, kind, w, out')
        /\ SpareOnceShown(call, kind, w, out) /\ e = Event("ask", w) => AllSpare(call, kind, w, out')
        /\ Shown(w, out') => Shown(w, out)
    BY <1>c, <2>1, SparesTail
  <2>6. e = Event("ask", w) => Shown(w, out)
    <3>1. 1 \in 1 .. Len(out) /\ out[1] = Head(out)
      BY <1>c, <2>1
    <3> QED BY <3>1 DEF Shown
  <2>7. arm' = w => e = Event("ask", w) \/ arm = w
    BY <2>1, <2>4, RoutedTo
  <2> HIDE DEF e
  <2>8. /\ SpareOnceShown(call, kind, w, out') /\ SpareOnceShown(call, kind, w, events)
        /\ arm' = w => AllSpare(call, kind, w, out')
        /\ arm' = w \/ Shown(w, out') => AllSpare(call, kind, w, events)
    BY <2>3, <2>5, <2>6, <2>7 DEF ArmOf
  <2> QED BY <1>b, <2>1, <2>3, <2>8 DEF ArmOf, Shown, SpareOnceShown, AllSpare, Spares
<1>22. CASE PendingAsk
  <2> SUFFICES ASSUME ~strayed', NEW w \in Calls, Waits(w)' PROVE ArmOf(w)'
    BY DEF ArmSafe
  <2>1. UNCHANGED <<call, pending, service, closed, out, events, strayed>>
    BY <1>22 DEF PendingAsk, asker, kernel, router, history
  <2>2. Waits(w) /\ ~strayed
    BY <2>1 DEF Waits
  <2>3. w \notin closed'
    BY <1>a, <2>1, <2>2 DEF ArmSafe, ArmOf
  <2>4. arm' = w => arm = w
    <3>1. w # NoCall
      BY AskAssumption
    <3> QED BY <1>22, <3>1 DEF PendingAsk, Refresh
  <2> QED BY <1>a, <1>b, <2>1, <2>2, <2>3, <2>4, ArmGoesOn
<1>23. ASSUME NEW q \in Calls, PostAnswer(q) PROVE ArmSafe'
  <2> SUFFICES ASSUME ~strayed', NEW w \in Calls, Waits(w)' PROVE ArmOf(w)'
    BY DEF ArmSafe
  <2>1. UNCHANGED <<call, pending, service, closed, out, events, strayed>>
    BY <1>23 DEF PostAnswer, asker, kernel, router, history
  <2>2. Waits(w) /\ ~strayed
    BY <2>1 DEF Waits
  <2>3. w \notin closed'
    BY <1>a, <2>1, <2>2 DEF ArmSafe, ArmOf
  <2>4. arm' = w => arm = w
    <3>1. w # NoCall
      BY AskAssumption
    <3> QED BY <1>23, <3>1 DEF PostAnswer, Refresh
  <2> QED BY <1>a, <1>b, <2>1, <2>2, <2>3, <2>4, ArmGoesOn
<1>24. ASSUME NEW p \in posts, ClaimArm(p) PROVE ArmSafe'
  <2> SUFFICES ASSUME ~strayed', NEW w \in Calls, Waits(w)' PROVE ArmOf(w)'
    BY DEF ArmSafe
  <2>1. UNCHANGED <<call, pending, service, closed, out, events, strayed>>
    BY <1>24 DEF ClaimArm, asker, kernel, router, history
  <2>2. Waits(w) /\ ~strayed
    BY <2>1 DEF Waits
  <2>3. w \notin closed'
    BY <1>a, <2>1, <2>2 DEF ArmSafe, ArmOf
  <2>4. arm' = w => arm = w
    <3>1. w # NoCall
      BY AskAssumption
    <3> QED BY <1>24, <3>1 DEF ClaimArm
  <2> QED BY <1>a, <1>b, <2>1, <2>2, <2>3, <2>4, ArmGoesOn
<1>25. ASSUME NEW p \in posts, WriteAnswer(p) PROVE ArmSafe'
  <2> SUFFICES ASSUME ~strayed', NEW w \in Calls, Waits(w)' PROVE ArmOf(w)'
    BY DEF ArmSafe
  <2>1. UNCHANGED <<call, pending, service, closed, out, events, strayed>>
    BY <1>25 DEF WriteAnswer, asker, kernel, router, history
  <2>2. Waits(w) /\ ~strayed
    BY <2>1 DEF Waits
  <2>3. w \notin closed'
    BY <1>a, <2>1, <2>2 DEF ArmSafe, ArmOf
  <2>4. arm' = w => arm = w
    <3>1. w # NoCall
      BY AskAssumption
    <3>2. arm' = arm \/ (p.at = "broken" /\ arm' = p.for)
      BY <1>25 DEF WriteAnswer
    <3>3. p.at = "broken" => call[p.for].at \in {"dead", "over"}
      BY <1>a DEF AskedFirst
    <3> QED BY <2>2, <3>2, <3>3 DEF Waits
  <2> QED BY <1>a, <1>b, <2>1, <2>2, <2>3, <2>4, ArmGoesOn
<1>26. CASE Die
  <2> SUFFICES ASSUME ~strayed', NEW w \in Calls, Waits(w)' PROVE ArmOf(w)'
    BY DEF ArmSafe
  <2>1. call' = [q \in Calls |-> IF q \in Busy THEN [call[q] EXCEPT !.at = "dead"] ELSE call[q]]
    BY <1>26 DEF Die
  <2>2. call'[w].at # "waiting"
    BY <1>a, <2>1 DEF Typed, CallT, Busy
  <2> QED BY <2>2 DEF Waits
<1>27. CASE Respawn
  <2> SUFFICES ASSUME ~strayed', NEW w \in Calls, Waits(w)' PROVE ArmOf(w)'
    BY DEF ArmSafe
  <2>1. kid = "gone" /\ UNCHANGED call
    BY <1>27 DEF Respawn
  <2>2. w \in Busy
    BY <2>1 DEF Waits, Busy
  <2> QED BY <1>a, <2>1, <2>2 DEF DeadAreGone
<1>28. CASE UNCHANGED vars
  BY <1>a, <1>c, <1>28, ArmSame DEF vars, asker, kernel, router, history, serve
<1> QED
  BY <1>1, <1>2, <1>3, <1>4, <1>5, <1>6, <1>7, <1>8, <1>9, <1>10, <1>11, <1>12, <1>13,
     <1>14, <1>15, <1>16, <1>17, <1>18, <1>19, <1>20, <1>21, <1>22, <1>23, <1>24, <1>25,
     <1>26, <1>27, <1>28
  DEF Next, CallStep, Remounts, Child, Supervise

LEMMA ArmInitially ==
  ASSUME OneKind, Init
  PROVE  KInv
<1>1. /\ \A q \in Calls : call[q] = [at |-> "idle", mount |-> 0, id |-> 0]
      /\ out = <<>> /\ events = <<>> /\ posts = {} /\ arm = NoCall
  BY DEF Init
<1>2. OneAsks
  BY <1>1 DEF OneAsks, OneKind, Init, InSlot, Busy
<1>3. AskedFirst
  <2>1. 1 .. Len(out) = {} /\ 1 .. Len(events) = {}
    BY <1>1
  <2> QED BY <1>1, <2>1 DEF AskedFirst
<1>4. ArmSafe
  BY <1>1 DEF ArmSafe, Waits
<1> QED BY <1>2, <1>3, <1>4, Initially DEF KInv

LEMMA ArmInductive == KInv /\ [Next]_vars => KInv'
  BY Inductive, OneAsksStep, AskedFirstStep, ArmStep DEF KInv

\* Only a claim takes the arm off a question that waits.
LEMMA ArmKeptStep ==
  ASSUME KInv, [Next]_vars
  PROVE  [\A q \in Calls :
            arm = q /\ arm' # q /\ Open(q) /\ Open(q)' => strayed \/ Claimed]_vars
<1> SUFFICES ASSUME NEW q \in Calls, arm = q, arm' # q, Open(q), ~strayed
             PROVE  Claimed
  OBVIOUS
<1>1. Waits(q)
  BY DEF Open, Waits
<1>2. ArmOf(q) /\ q # NoCall /\ out \in Seq(EventT) /\ IInv
  BY <1>1, AskAssumption DEF KInv, ArmSafe, IInv, Typed
<1>3. ~Scan
  <2>1. SUFFICES ASSUME Scan PROVE FALSE
    OBVIOUS
  <2>2. out # <<>> /\ arm' = Routed(arm, Head(out))
    BY <2>1 DEF Scan
  <2>3. Head(out) \in EventT /\ Spares(call, kind, q, Head(out))
    BY <1>2, <2>2, HeadTail, SparesTail DEF ArmOf
  <2> QED BY <2>2, <2>3, SparesRouted
<1>4. ~PendingAsk /\ \A p \in Calls : ~PostAnswer(p)
  BY <1>2 DEF PendingAsk, PostAnswer, Refresh, ArmOf
<1>5. \A p \in posts : ~WriteAnswer(p)
  BY <1>2 DEF WriteAnswer
<1>6. ASSUME NEW p \in posts, ClaimArm(p) PROVE Claimed
  <2>1. p.at = "claim" /\ arm' = NoCall /\ posts' = (posts \ {p}) \cup {[p EXCEPT !.at = Pipe]}
    BY <1>2, <1>6 DEF ClaimArm
  <2>2. [p EXCEPT !.at = Pipe].at = Pipe /\ Pipe # "claim"
    BY <1>2 DEF IInv, Typed, PostT, Pipe
  <2>3. p \notin posts'
    BY <2>1, <2>2
  <2> QED BY <2>1, <2>3 DEF Claimed
<1>7. \A p \in Calls : ~StartCall(p)
  BY DEF StartCall, serve
<1>8. \A p \in Calls : ~TakeSlot(p)
  BY DEF TakeSlot, serve
<1>9. \A p \in Calls : ~Register(p)
  BY DEF Register, serve
<1>10. \A p \in Calls : ~Announce(p)
  BY DEF Announce, serve
<1>11. \A p \in Calls : ~Choose(p)
  BY DEF Choose, serve
<1>12. \A p \in Calls : ~GiveUp(p)
  BY DEF GiveUp, serve
<1>13. \A p \in Calls : ~Leave(p)
  BY DEF Leave, serve
<1>14. \A p \in Calls : ~RecordEnd(p)
  BY DEF RecordEnd, serve
<1>15. ~TurnDone
  BY DEF TurnDone, serve
<1>16. ~StopTurn
  BY DEF StopTurn, serve
<1>17. ~Reload
  BY DEF Reload, serve
<1>18. ~Dispose
  BY DEF Dispose, serve
<1>19. ~Build
  BY DEF Build, serve
<1>20. ~Provide
  BY DEF Provide, serve
<1>21. ~UiDown
  BY DEF UiDown, serve
<1>22. ~UiUp
  BY DEF UiUp, serve
<1>23. ~HlPrint
  BY DEF HlPrint, serve
<1>24. ~ReadLine
  BY DEF ReadLine, serve
<1>25. ~Answer
  BY DEF Answer, serve
<1>26. ~Send
  BY DEF Send, serve
<1>27. ~Die
  BY DEF Die
<1>28. ~Respawn
  BY DEF Respawn
<1>29. ~UNCHANGED vars
  BY DEF vars, serve
<1> QED
  BY <1>3, <1>4, <1>5, <1>6, <1>7, <1>8, <1>9, <1>10, <1>11, <1>12, <1>13, <1>14, <1>15,
     <1>16, <1>17, <1>18, <1>19, <1>20, <1>21, <1>22, <1>23, <1>24, <1>25, <1>26, <1>27,
     <1>28, <1>29
  DEF Next, CallStep, Remounts, Child, Supervise

\* With calls of one kind, serve's arm stays on an open question until
\* somebody answers it: no end of another call, no late line and no death
\* of an earlier process takes it away (supervisor.go, "Another ask's end
\* leaves this one armed"). With an approval among native calls it does
\* not, see the run ask_approval.
THEOREM ArmsStay == OneKind => (Spec => ArmKept)
<1> SUFFICES ASSUME OneKind PROVE Spec => ArmKept
  OBVIOUS
<1>1. Init => KInv
  BY ArmInitially
<1>2. KInv /\ [Next]_vars => KInv'
  BY ArmInductive
<1>3. KInv /\ [Next]_vars =>
        [\A q \in Calls :
           arm = q /\ arm' # q /\ Open(q) /\ Open(q)' => strayed \/ Claimed]_vars
  BY ArmKeptStep
<1> QED BY <1>1, <1>2, <1>3, PTL DEF Spec, ArmKept

=============================================================================
