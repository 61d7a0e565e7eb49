--------------------------- MODULE SessionProofs ---------------------------
(***************************************************************************)
(* Theorems about module Session, for any lines, steers, notices and calls *)
(* and any number of failures, deaths and Escs, proved by TLAPS.           *)
(***************************************************************************)
EXTENDS Session, TLAPS, FiniteSetTheorems, WellFoundedInduction

-----------------------------------------------------------------------------
(* The inductive invariant. Its parts speak of a session w, which in the    *)
(* middle of a handler is not s yet, of the queue q behind the function     *)
(* that is being handled, and of the words h the handler has in hand.       *)

Said == {Line[n] : n \in 1..submitted} \cup steered \cup noted \cup Nudges

\* What is on its way in the queue.
Input(q, i) == \E n \in DOMAIN q : q[n].k = "input" /\ q[n].id = i
Submits(q) == {q[n].line : n \in {k \in DOMAIN q : q[k].k = "submit"}}
Has(q, k) == \E n \in DOMAIN q : q[n].k = k

Typed(w) ==
  /\ w \in Session
  /\ IsFiniteSet(w.unobserved)
  /\ w.run = "none" => ~w.alive /\ w.restart = "no"
  /\ Len(w.steerIn) <= 1

\* The coordinator's exit is the last thing heard of it.
Exits(w, q) ==
  /\ Has(q, "exit") => ~w.alive /\ w.run # "none"
  /\ Has(q, "exit") /\ w.run = "up" => deaths > 0
  /\ \A n, k \in DOMAIN q : n < k /\ q[n].k = "exit" => q[k].k \notin {"exit", "response"}
  /\ ~w.alive => req.at = "none"

\* An input is sent once: what is unobserved is recorded and on its way to
\* the actor, or in the inbox of the coordinator that works.
Owes(w, q) == {i \in w.unobserved : ~Input(q, i)}
Inbox(w, q) ==
  /\ Distinct(w.inbox) /\ Elements(w.inbox) \subseteq Owes(w, q)
  /\ w.alive /\ w.run = "up" => Owes(w, q) \subseteq Elements(w.inbox)
Sent(w, q) ==
  /\ w.unobserved \subseteq w.inputs
  /\ \A i \in Inputs : Input(q, i) => i \in w.unobserved /\ Recorded(i)
  /\ \A i \in Inputs : Recorded(i) => i \in w.inputs /\ (i \in w.unobserved => Input(q, i))
  /\ \A n, k \in DOMAIN q : q[n].k = "input" /\ q[k].k = "input" /\ q[n].id = q[k].id => n = k

\* What waits for a boundary has been counted as an input and not sent.
Waiting(w) == Elements(w.steerQ) \cup Elements(w.noticeQ)
Boundary(w) ==
  /\ Distinct(w.steerQ) /\ Distinct(w.noticeQ)
  /\ Waiting(w) \subseteq w.inputs \ w.unobserved
  /\ \A i \in Waiting(w) : ~Recorded(i)

\* A word is in one place, before it is an input...
Apart(w, q, h) ==
  /\ submitted \in 0..Len(Line) /\ steered \subseteq Steers /\ noted \subseteq News
  /\ w.inputs \cup w.news \cup Elements(w.steerIn) \cup Elements(w.pending)
       \cup Submits(q) \cup h \subseteq Said
  /\ w.inputs \cap (w.news \cup Elements(w.steerIn) \cup Elements(w.pending)
                      \cup Submits(q) \cup h) = {}
  /\ Elements(w.pending) \cap (Elements(w.steerIn) \cup Submits(q) \cup h) = {}
  /\ h \cap (w.news \cup Elements(w.steerIn) \cup Submits(q)) = {}
  /\ Distinct(w.pending)
  /\ \A n, k \in DOMAIN q : q[n].k = "submit" /\ q[k].k = "submit" /\ q[n].line = q[k].line => n = k

\* ...and a steer in one at least. One accepted while the gate was open is in
\* its turn.
Landing(w, h) ==
  /\ steered \subseteq h \cup Elements(w.steerIn) \cup Elements(w.steerQ)
                  \cup Elements(w.pending) \cup w.notes \cup w.told \cup w.begun
  /\ w.promised \cup (w.begun \cap Steers) \subseteq steered
  /\ w.promised \cap (w.begun \cup Elements(w.pending) \cup h) = {}
  /\ w.steerable \/ w.promised \cap Elements(w.steerIn) # {}
       => Open(w) /\ ~Cancelling(w)
  /\ Cancelling(w) => Open(w)

\* A request at the provider, and an answer with calls, belong to a turn that
\* is open or about to be opened, or was cut.
InTurn(w, q) ==
  /\ req.at = "provider" \/ (req.at = "answered" /\ req.calls # {})
       => Open(w) \/ Has(q, "start") \/ w.how = "cancel"
  /\ \A n \in DOMAIN q : q[n].k = "response" /\ q[n].calls # {} =>
       Open(w) \/ w.how = "cancel" \/ \E k \in 1..(n - 1) : q[k].k = "start"
  /\ w.how # "cancel" /\ (deaths = 0 \/ w.how # "error") /\ ~Open(w) =>
       w.m.outstanding \subseteq w.adopted \cup w.cancelled

\* What a cancel parked stays parked.
Parks(w) ==
  /\ w.hushed => /\ w.parked /\ w.known \subseteq w.muted
                 /\ req.at = "starting" => w.userStop
  /\ (w.m.reasons \cup w.m.turnReasons) \cap Inputs \subseteq w.inputs
  /\ (w.m.reasons \cup w.m.turnReasons) \cap w.adopted \subseteq w.ended
  /\ w.ended \subseteq w.adopted

\* The actor's mirror lags behind the coordinator's by what is in the queue.
Brings(q, n, x) ==
  \/ q[n].k = "input" /\ q[n].id = x
  \/ q[n].k = "result" /\ q[n].call = x
TurnIn(q, a, b) == \E n \in a..b : q[n].k = "turn"

Answers(m, q) ==
  /\ \A n, k \in DOMAIN q :
       n < k /\ q[n].k \in {"turn", "response"} => q[k].k # "response"
  /\ Has(q, "turn") \/ Has(q, "response") => req.at \in {"none", "called", "barrier"}
  /\ \A n \in DOMAIN q : q[n].k = "ready" =>
       /\ req.at = "barrier"
       /\ \A k \in DOMAIN q : k > n => q[k].k \notin {"turn", "response", "ready"}
  /\ req.at # "none" \/ Has(q, "turn") => sync.inflight
  /\ Has(q, "response") => m.inflight
  /\ Has(q, "turn") \/ Has(q, "response") \/ m.inflight = sync.inflight
  /\ Has(q, "response") /\ sync.inflight => Has(q, "turn")

Reasons(m, q) ==
  /\ \A x \in sync.reasons :
       \/ x \in m.reasons /\ ~Has(q, "turn")
       \/ \E n \in DOMAIN q : Brings(q, n, x) /\ ~TurnIn(q, n, Len(q))
  /\ \A n \in DOMAIN q : q[n].k = "turn" /\ ~TurnIn(q, n + 1, Len(q)) =>
       \A x \in sync.turnReasons :
         \/ x \in m.reasons /\ ~TurnIn(q, 1, n - 1)
         \/ \E k \in 1..(n - 1) : Brings(q, k, x) /\ ~TurnIn(q, k, n - 1)
  /\ \A n \in DOMAIN q :
       q[n].k = "turn" /\ ~TurnIn(q, 1, n - 1) /\ (~m.inflight \/ Has(q, "response")) =>
         m.reasons # {} \/ \E k \in 1..(n - 1) : q[k].k \in {"input", "result"}

\* A call is issued once, and answers once.
Issued == {Call[n] : n \in 1..issued}
AnsweredCalls(q) == UNION {q[n].calls : n \in {k \in DOMAIN q : q[k].k = "response"}}
Results(q) == {q[n].call : n \in {k \in DOMAIN q : q[k].k = "result"}}
Seen(m) == m.reasons \cup m.turnReasons \cup m.outstanding
CallsOnce(m, q) ==
  /\ issued \in 0..Len(Call)
  /\ (req.calls \cup AnsweredCalls(q) \cup Results(q) \cup (Seen(m) \cap Calls)
        \cup sync.outstanding) \subseteq Issued
  /\ req.at # "answered" => req.calls = {}
  /\ req.calls \cap (AnsweredCalls(q) \cup Results(q) \cup Seen(m) \cup sync.outstanding) = {}
  /\ AnsweredCalls(q) \cap Seen(m) = {}
  /\ m.outstanding \cap (m.reasons \cup m.turnReasons) = {}
  /\ sync.outstanding \subseteq m.outstanding \cup AnsweredCalls(q)
  /\ sync.outstanding \cap Results(q) = {}
  /\ \A n \in DOMAIN q : q[n].k = "result" =>
       \/ q[n].call \in m.outstanding
       \/ \E k \in 1..(n - 1) : q[k].k = "response" /\ q[n].call \in q[k].calls
  /\ \A n, k \in DOMAIN q : q[n].k = "result" /\ q[k].k = "result" /\ q[n].call = q[k].call => n = k

Lags(m, q) == Answers(m, q) /\ Reasons(m, q) /\ CallsOnce(m, q)

Good(w, q, h) ==
  /\ Typed(w) /\ Exits(w, q) /\ Inbox(w, q) /\ Sent(w, q) /\ Boundary(w)
  /\ Apart(w, q, h) /\ Landing(w, h) /\ InTurn(w, q) /\ Parks(w)

TypedRest ==
  /\ fifo \in Seq(Message) /\ sync \in MirrorOf(Inputs, Calls) /\ req \in Request
  /\ startup \in {"mounting", "ready", "watched"}
  /\ deaths \in Nat

IInv == TypedRest /\ Good(s, fifo, {}) /\ Lags(s.m, fifo)

-----------------------------------------------------------------------------
(* Sequences.                                                              *)

LEMMA ElementsIn ==
  ASSUME NEW S, NEW q \in Seq(S)
  PROVE  Elements(q) \subseteq S /\ Elements(<<>>) = {}
  BY DEF Elements

LEMMA ElementsOne ==
  ASSUME NEW S, NEW x \in S
  PROVE  /\ <<x>> \in Seq(S) /\ Elements(<<x>>) = {x} /\ Distinct(<<x>>) /\ Len(<<x>>) = 1
         /\ <<x>> # <<>> /\ Head(<<x>>) = x
  BY DEF Elements, Distinct

LEMMA ElementsAppend ==
  ASSUME NEW S, NEW q \in Seq(S), NEW x \in S
  PROVE  /\ Append(q, x) \in Seq(S) /\ Elements(Append(q, x)) = Elements(q) \cup {x}
         /\ Distinct(q) /\ x \notin Elements(q) => Distinct(Append(q, x))
<1> DEFINE a == Append(q, x)
<1>1. /\ a \in Seq(S) /\ DOMAIN a = 1..(Len(q) + 1) /\ DOMAIN q = 1..Len(q) /\ Len(q) \in Nat
      /\ a[Len(q) + 1] = x /\ \A i \in 1..Len(q) : a[i] = q[i]
  OBVIOUS
<1> HIDE DEF a
<1>2. Elements(a) = Elements(q) \cup {x}
  BY <1>1 DEF Elements
<1>3. Distinct(q) /\ x \notin Elements(q) => Distinct(a)
  BY <1>1 DEF Elements, Distinct
<1> QED
  BY <1>1, <1>2, <1>3 DEF a

LEMMA ElementsConcat ==
  ASSUME NEW S, NEW q \in Seq(S), NEW r \in Seq(S)
  PROVE  /\ q \o r \in Seq(S) /\ Elements(q \o r) = Elements(q) \cup Elements(r)
         /\ Distinct(q) /\ Distinct(r) /\ Elements(q) \cap Elements(r) = {} => Distinct(q \o r)
         /\ (q \o r = <<>> <=> q = <<>> /\ r = <<>>)
<1> DEFINE a == q \o r
<1>1. /\ a \in Seq(S) /\ DOMAIN a = 1..(Len(q) + Len(r)) /\ DOMAIN q = 1..Len(q)
      /\ DOMAIN r = 1..Len(r) /\ Len(q) \in Nat /\ Len(r) \in Nat /\ Len(a) = Len(q) + Len(r)
      /\ \A i \in 1..Len(q) : a[i] = q[i]
      /\ \A i \in 1..(Len(q) + Len(r)) : i > Len(q) => a[i] = r[i - Len(q)]
  OBVIOUS
<1>0. a = <<>> <=> q = <<>> /\ r = <<>>
  BY <1>1
<1> HIDE DEF a
<1>2. ASSUME NEW i \in 1..Len(r) PROVE a[Len(q) + i] = r[i] /\ Len(q) + i \in DOMAIN a
  <2>1. /\ Len(q) + i \in 1..(Len(q) + Len(r)) /\ Len(q) + i > Len(q)
        /\ (Len(q) + i) - Len(q) = i
    BY <1>1
  <2>2. a[Len(q) + i] = r[(Len(q) + i) - Len(q)]
    BY <1>1, <2>1
  <2> QED
    BY <1>1, <2>1, <2>2
<1>5. ASSUME NEW i \in DOMAIN a
      PROVE  \/ i \in DOMAIN q /\ a[i] = q[i] /\ i <= Len(q)
             \/ i - Len(q) \in DOMAIN r /\ a[i] = r[i - Len(q)] /\ i > Len(q)
  <2>1. CASE i <= Len(q)
    BY <1>1, <2>1
  <2>2. CASE i > Len(q)
    <3>1. i - Len(q) \in 1..Len(r)
      BY <1>1, <2>2
    <3>2. a[i] = r[i - Len(q)]
      BY <1>1, <2>2
    <3> QED
      BY <1>1, <2>2, <3>1, <3>2
  <2> QED
    BY <1>1, <2>1, <2>2
<1>6. \A i \in DOMAIN q : i \in DOMAIN a /\ a[i] = q[i]
  BY <1>1
<1>7. \A i \in DOMAIN r : \E k \in DOMAIN a : a[k] = r[i]
  BY <1>1, <1>2
<1>3. Elements(a) = Elements(q) \cup Elements(r)
  BY <1>5, <1>6, <1>7 DEF Elements
<1>4. ASSUME Distinct(q), Distinct(r), Elements(q) \cap Elements(r) = {} PROVE Distinct(a)
  <2> SUFFICES ASSUME NEW i \in DOMAIN a, NEW j \in DOMAIN a, a[i] = a[j] PROVE i = j
    BY DEF Distinct
  <2>1. CASE i <= Len(q) /\ j <= Len(q)
    BY <1>1, <1>4, <2>1 DEF Distinct
  <2>2. CASE i > Len(q) /\ j > Len(q)
    <3>1. i - Len(q) \in DOMAIN r /\ j - Len(q) \in DOMAIN r
      BY <1>1, <2>2
    <3>2. r[i - Len(q)] = r[j - Len(q)]
      BY <1>1, <2>2
    <3> QED
      BY <1>1, <1>4, <3>1, <3>2 DEF Distinct
  <2>3. CASE i <= Len(q) /\ j > Len(q)
    <3>1. a[i] \in Elements(q) /\ a[j] \in Elements(r)
      BY <1>5, <2>3, <1>1 DEF Elements
    <3> QED
      BY <3>1, <1>4
  <2>4. CASE i > Len(q) /\ j <= Len(q)
    <3>1. a[j] \in Elements(q) /\ a[i] \in Elements(r)
      BY <1>5, <2>4, <1>1 DEF Elements
    <3> QED
      BY <3>1, <1>4
  <2> QED
    BY <1>1, <2>1, <2>2, <2>3, <2>4
<1> QED
  BY <1>0, <1>1, <1>3, <1>4 DEF a

LEMMA ElementsTail ==
  ASSUME NEW S, NEW q \in Seq(S), q # <<>>
  PROVE  /\ Tail(q) \in Seq(S) /\ Head(q) \in S /\ Elements(q) = Elements(Tail(q)) \cup {Head(q)}
         /\ Distinct(q) => Distinct(Tail(q)) /\ Head(q) \notin Elements(Tail(q))
<1> DEFINE t == Tail(q)
<1>1. /\ t \in Seq(S) /\ Len(q) \in Nat \ {0} /\ DOMAIN t = 1..(Len(q) - 1)
      /\ DOMAIN q = 1..Len(q) /\ Head(q) = q[1] /\ Head(q) \in S
      /\ \A i \in 1..(Len(q) - 1) : t[i] = q[i + 1]
  OBVIOUS
<1> HIDE DEF t
<1>2. \A i \in DOMAIN q : i # 1 => i - 1 \in DOMAIN t /\ q[i] = t[i - 1]
  BY <1>1
<1>3. \A i \in DOMAIN t : i + 1 \in DOMAIN q /\ t[i] = q[i + 1]
  BY <1>1
<1>4. Elements(q) = Elements(t) \cup {q[1]}
  BY <1>1, <1>2, <1>3 DEF Elements
<1>5. ASSUME Distinct(q) PROVE Distinct(t) /\ q[1] \notin Elements(t)
  BY <1>1, <1>3, <1>5 DEF Distinct, Elements
<1> QED
  BY <1>1, <1>4, <1>5 DEF t

\* A coordinator that is built is handed each input it lacks once.
LEMMA Redelivered ==
  ASSUME NEW S, IsFiniteSet(S)
  PROVE  /\ SetToSeq(S) \in Seq(S) /\ Elements(SetToSeq(S)) = S /\ Distinct(SetToSeq(S))
<1> DEFINE n == Cardinality(S)
           f == SetToSeq(S)
<1>1. n \in Nat /\ ExistsBijection(1..n, S)
  BY FS_CardinalityType
<1>2. \E g \in [1..n -> S] : IsInjective(g)
  BY <1>1 DEF ExistsBijection, Bijection, Injection, IsInjective
<1>3. f \in [1..n -> S] /\ IsInjective(f)
  BY <1>2 DEF SetToSeq
<1>4. IsFiniteSet(1..n) /\ Cardinality(1..n) = n
  BY <1>1, FS_Interval
<1> HIDE DEF f
<1>5. f \in Surjection(1..n, S)
  BY <1>3, <1>4, FS_Injection DEF Injection
<1>6. \A x \in S : \E i \in 1..n : f[i] = x
  BY <1>5 DEF Surjection
<1>7. f \in Seq(S) /\ DOMAIN f = 1..n
  BY <1>1, <1>3
<1>8. Elements(f) = S
  BY <1>3, <1>6, <1>7 DEF Elements
<1>9. Distinct(f)
  BY <1>3, <1>7 DEF Distinct, IsInjective
<1> QED
  BY <1>7, <1>8, <1>9 DEF f

-----------------------------------------------------------------------------
(* Sending.                                                                *)

LEMMA EnsureRunIs ==
  ASSUME NEW w, NEW q \in Seq(Message),
         Typed(w), Exits(w, q), Inbox(w, q), Sent(w, q)
  PROVE  LET v == EnsureRun(w)
         IN /\ v = [w EXCEPT !.run = v.run, !.alive = v.alive, !.stale = v.stale,
                             !.inbox = v.inbox]
            /\ v.run # "none"
            /\ Typed(v) /\ Exits(v, q) /\ Inbox(v, q) /\ Sent(v, q)
<1> DEFINE v == EnsureRun(w)
           I == {i \in w.unobserved : ~Recorded(i)}
           b == SetToSeq(I)
<1>0. w \in Session /\ IsFiniteSet(w.unobserved) /\ w.unobserved \subseteq Inputs
  BY DEF Typed, Session
<1>1. b \in Seq(I) /\ Elements(b) = I /\ Distinct(b)
  BY <1>0, FS_Subset, Redelivered
<1>2. b \in Seq(Inputs)
  BY <1>0, <1>1
<1>3. CASE w.run # "none"
  <2>1. v = w
    BY <1>3 DEF EnsureRun
  <2>2. w = [w EXCEPT !.run = w.run, !.alive = w.alive, !.stale = w.stale, !.inbox = w.inbox]
    BY <1>0 DEF Session
  <2> QED
    BY <2>1, <2>2, <1>3
<1>4. CASE w.run = "none"
  <2>1. v = [w EXCEPT !.run = "up", !.alive = TRUE, !.stale = FALSE, !.inbox = b]
    BY <1>4 DEF EnsureRun
  <2> HIDE DEF v, b
  <2>2. v \in Session
    <3>1. [w EXCEPT !.run = "up", !.alive = TRUE, !.stale = FALSE, !.inbox = b] \in Session
      BY ZenonT(60),<1>0, <1>2 DEF Session
    <3> QED
      BY <3>1, <2>1
  <2>3. /\ v.run = "up" /\ v.alive /\ v.stale = FALSE /\ v.inbox = b
        /\ v.unobserved = w.unobserved /\ v.inputs = w.inputs /\ v.steerIn = w.steerIn
    BY <1>0, <2>1 DEF Session
  <2>4. Typed(v)
    BY <2>2, <2>3 DEF Typed
  <2>5. Exits(v, q)
    BY <1>4, <2>3 DEF Exits
  <2>6. I = Owes(v, q)
    BY <1>0, <2>3 DEF Owes, Sent
  <2>7. Inbox(v, q)
    BY <2>3, <2>6, <1>1 DEF Inbox
  <2>8. Sent(v, q)
    BY <2>3 DEF Sent
  <2>9. v = [w EXCEPT !.run = v.run, !.alive = v.alive, !.stale = v.stale, !.inbox = v.inbox]
    BY <1>0, <2>1, <2>3 DEF Session
  <2> QED
    BY <2>3, <2>4, <2>5, <2>7, <2>8, <2>9 DEF v
<1> QED
  BY <1>3, <1>4

\* What is sent is owed until the coordinator has recorded it, and in the
\* inbox of the one that works.
LEMMA SendIs ==
  ASSUME NEW w, NEW q \in Seq(Message),
         Typed(w), Exits(w, q), Inbox(w, q), Sent(w, q),
         NEW p \in Seq(Inputs), Distinct(p), Elements(p) \cap w.unobserved = {},
         \A i \in Elements(p) : ~Recorded(i)
  PROVE  LET v == Send(w, p)
         IN /\ v = [w EXCEPT !.unobserved = w.unobserved \cup Elements(p),
                             !.inputs = w.inputs \cup Elements(p),
                             !.told = w.told \cup (Elements(p) \cap Steers),
                             !.run = v.run, !.alive = v.alive, !.stale = v.stale,
                             !.inbox = v.inbox]
            /\ Typed(v) /\ Exits(v, q) /\ Inbox(v, q) /\ Sent(v, q)
<1> DEFINE v == Send(w, p)
           E == Elements(p)
           o == [w EXCEPT !.unobserved = w.unobserved \cup E]
<1>0. /\ w \in Session /\ IsFiniteSet(w.unobserved) /\ w.unobserved \subseteq Inputs
      /\ E \subseteq Inputs /\ IsFiniteSet(E) /\ w.inputs \subseteq Inputs
  <2>1. Len(p) \in Nat /\ DOMAIN p = 1..Len(p) /\ IsFiniteSet(1..Len(p))
    BY FS_Interval
  <2>2. p \in [1..Len(p) -> E]
    BY <2>1 DEF Elements
  <2>3. p \in Surjection(1..Len(p), E)
    BY <2>1, <2>2 DEF Surjection, Elements
  <2>4. IsFiniteSet(E)
    BY <2>1, <2>3, FS_Surjection
  <2> QED
    BY <2>4, ElementsIn DEF Typed, Session
<1> HIDE DEF E
<1>1. CASE p = <<>>
  <2>1. v = w /\ E = {}
    BY <1>1 DEF Send, E, Elements
  <2>2. w = [w EXCEPT !.unobserved = w.unobserved, !.inputs = w.inputs, !.told = w.told,
                      !.run = w.run, !.alive = w.alive, !.stale = w.stale, !.inbox = w.inbox]
    BY <1>0 DEF Session
  <2> QED
    BY <2>1, <2>2 DEF v, E
<1>2. CASE p # <<>> /\ w.run = "none"
  <2> DEFINE I == {i \in o.unobserved : ~Recorded(i)}
             b == SetToSeq(I)
             z == [w EXCEPT !.unobserved = w.unobserved \cup E, !.inputs = w.inputs \cup E,
                            !.told = w.told \cup (E \cap Steers), !.run = "up",
                            !.alive = TRUE, !.stale = FALSE, !.inbox = b]
  <2>1. o.unobserved = w.unobserved \cup E /\ o.run = w.run
    BY <1>0 DEF Session
  <2>2. IsFiniteSet(w.unobserved \cup E)
    BY <1>0, FS_Union
  <2>3. b \in Seq(I) /\ Elements(b) = I /\ Distinct(b)
    BY <2>1, <2>2, FS_Subset, Redelivered
  <2>4. b \in Seq(Inputs)
    BY <1>0, <2>1, <2>3
  <2> HIDE DEF b
  <2>5. v = z
    BY ZenonT(60),<1>0, <1>2, <2>1 DEF Send, EnsureRun, E, b, Session
  <2>6. z \in Session
    BY ZenonT(60),<1>0, <2>4 DEF Session
  <2>7. /\ z.run = "up" /\ z.alive /\ z.stale = FALSE /\ z.inbox = b /\ z.steerIn = w.steerIn
        /\ z.unobserved = w.unobserved \cup E /\ z.inputs = w.inputs \cup E
    BY <1>0 DEF Session
  <2> HIDE DEF z, I, o
  <2>8. v = [w EXCEPT !.unobserved = w.unobserved \cup E, !.inputs = w.inputs \cup E,
                      !.told = w.told \cup (E \cap Steers),
                      !.run = v.run, !.alive = v.alive, !.stale = v.stale, !.inbox = v.inbox]
    BY <2>5, <2>7 DEF z
  <2>9. Typed(z)
    BY <2>2, <2>6, <2>7 DEF Typed
  <2>10. Exits(z, q)
    BY <1>2, <2>7 DEF Exits
  <2>11. I = Owes(z, q)
    BY <1>0, <2>1, <2>7 DEF Owes, Sent, I, E
  <2>12. Inbox(z, q)
    BY <2>3, <2>7, <2>11 DEF Inbox
  <2>13. Sent(z, q)
    BY <1>0, <2>7 DEF Sent, E
  <2> QED
    BY <2>5, <2>8, <2>9, <2>10, <2>12, <2>13 DEF v, E
<1>3. CASE p # <<>> /\ w.run # "none"
  <2> DEFINE z == [w EXCEPT !.unobserved = w.unobserved \cup E, !.inputs = w.inputs \cup E,
                            !.told = w.told \cup (E \cap Steers), !.inbox = w.inbox \o p]
  <2>1. w.inbox \in Seq(Inputs) /\ Elements(w.inbox) \subseteq Owes(w, q) /\ Distinct(w.inbox)
    BY <1>0 DEF Session, Inbox
  <2>2. Elements(w.inbox) \cap Elements(p) = {}
    BY <2>1 DEF Owes
  <2>3. /\ w.inbox \o p \in Seq(Inputs) /\ Elements(w.inbox \o p) = Elements(w.inbox) \cup E
        /\ Distinct(w.inbox \o p)
    BY <2>1, <2>2, ElementsConcat DEF E
  <2>5. v = z
    BY <1>0, <1>3 DEF Send, EnsureRun, E, Session
  <2>6. z \in Session
    BY ZenonT(60),<1>0, <2>3 DEF Session
  <2>7. /\ z.run = w.run /\ z.alive = w.alive /\ z.stale = w.stale /\ z.restart = w.restart
        /\ z.inbox = w.inbox \o p /\ z.steerIn = w.steerIn
        /\ z.unobserved = w.unobserved \cup E /\ z.inputs = w.inputs \cup E
    BY <1>0 DEF Session
  <2>8. z = [w EXCEPT !.unobserved = w.unobserved \cup E, !.inputs = w.inputs \cup E,
                      !.told = w.told \cup (E \cap Steers),
                      !.run = z.run, !.alive = z.alive, !.stale = z.stale, !.inbox = z.inbox]
    BY ZenonT(60),<1>0, <2>7 DEF Session
  <2> HIDE DEF z
  <2>4. IsFiniteSet(w.unobserved \cup E)
    BY <1>0, FS_Union
  <2>9. Typed(z)
    BY <2>4, <2>6, <2>7 DEF Typed
  <2>10. Exits(z, q)
    BY <2>7 DEF Exits
  <2>11. Owes(z, q) = Owes(w, q) \cup E
    BY <1>0, <2>7 DEF Owes, Sent, E
  <2>12. Inbox(z, q)
    BY <2>3, <2>7, <2>11 DEF Inbox
  <2>13. Sent(z, q)
    BY <1>0, <2>7 DEF Sent, E
  <2> QED
    BY <2>5, <2>8, <2>9, <2>10, <2>12, <2>13 DEF v, E
<1> QED
  BY <1>1, <1>2, <1>3

\* What sending leaves alone.
Kept(v, w) ==
  /\ v.turn = w.turn /\ v.m = w.m /\ v.steerQ = w.steerQ /\ v.noticeQ = w.noticeQ
  /\ v.notes = w.notes /\ v.pending = w.pending /\ v.cancelAt = w.cancelAt
  /\ v.cancelOnReady = w.cancelOnReady /\ v.noticeWaits = w.noticeWaits
  /\ v.news = w.news /\ v.adopted = w.adopted /\ v.ended = w.ended
  /\ v.turnCalls = w.turnCalls /\ v.cancelled = w.cancelled
  /\ v.cancelling = w.cancelling /\ v.waits = w.waits /\ v.settle = w.settle
  /\ v.stopUsed = w.stopUsed /\ v.parked = w.parked /\ v.muted = w.muted
  /\ v.steps = w.steps /\ v.userStop = w.userStop /\ v.restart = w.restart
  /\ v.rebuilds = w.rebuilds /\ v.drain = w.drain /\ v.steerable = w.steerable
  /\ v.steerIn = w.steerIn /\ v.promised = w.promised /\ v.begun = w.begun
  /\ v.finished = w.finished /\ v.known = w.known /\ v.hushed = w.hushed /\ v.how = w.how

\* What most handlers leave alone.
Still(v, w) ==
  /\ v.m = w.m /\ v.turn = w.turn /\ v.cancelling = w.cancelling /\ v.how = w.how
  /\ v.adopted = w.adopted /\ v.cancelled = w.cancelled /\ v.ended = w.ended
  /\ w.unobserved \subseteq v.unobserved

LEMMA SendKeeps ==
  ASSUME NEW w, NEW q \in Seq(Message),
         Typed(w), Exits(w, q), Inbox(w, q), Sent(w, q),
         NEW p \in Seq(Inputs), Distinct(p), Elements(p) \cap w.inputs = {}
             \/ (Elements(p) \cap w.unobserved = {} /\ \A i \in Elements(p) : ~Recorded(i))
  PROVE  LET v == Send(w, p)
         IN /\ Kept(v, w) /\ v \in Session
            /\ v.unobserved = w.unobserved \cup Elements(p)
            /\ v.inputs = w.inputs \cup Elements(p)
            /\ v.told = w.told \cup (Elements(p) \cap Steers)
            /\ Typed(v) /\ Exits(v, q) /\ Inbox(v, q) /\ Sent(v, q)
<1> DEFINE v == Send(w, p)
           E == Elements(p)
           r == v.run
           a == v.alive
           st == v.stale
           b == v.inbox
<1>0. w \in Session /\ E \subseteq Inputs
  BY ElementsIn DEF Typed
<1>1. E \cap w.unobserved = {} /\ \A i \in E : ~Recorded(i)
  BY <1>0 DEF Sent
<1>2. /\ v = [w EXCEPT !.unobserved = w.unobserved \cup E, !.inputs = w.inputs \cup E,
                       !.told = w.told \cup (E \cap Steers),
                       !.run = r, !.alive = a, !.stale = st, !.inbox = b]
      /\ Typed(v) /\ Exits(v, q) /\ Inbox(v, q) /\ Sent(v, q)
  BY <1>1, SendIs
<1>3. v \in Session
  BY <1>2 DEF Typed
<1> HIDE DEF v, r, a, st, b
<1>4. /\ v.unobserved = w.unobserved \cup E /\ v.inputs = w.inputs \cup E
      /\ v.told = w.told \cup (E \cap Steers)
  BY <1>0, <1>2 DEF Session
<1>5. Kept(v, w)
  BY <1>0, <1>2 DEF Session, Kept
<1> QED
  BY <1>2, <1>3, <1>4, <1>5 DEF v

\* The fields the invariant speaks of.
Alike(v, w) ==
  /\ v.turn = w.turn /\ v.m = w.m /\ v.unobserved = w.unobserved /\ v.inputs = w.inputs
  /\ v.steerQ = w.steerQ /\ v.noticeQ = w.noticeQ /\ v.notes = w.notes
  /\ v.pending = w.pending /\ v.news = w.news /\ v.adopted = w.adopted /\ v.ended = w.ended
  /\ v.cancelled = w.cancelled /\ v.cancelling = w.cancelling /\ v.parked = w.parked
  /\ v.muted = w.muted /\ v.userStop = w.userStop /\ v.run = w.run /\ v.alive = w.alive
  /\ v.inbox = w.inbox /\ v.restart = w.restart /\ v.steerable = w.steerable
  /\ v.steerIn = w.steerIn /\ v.told = w.told /\ v.promised = w.promised
  /\ v.begun = w.begun /\ v.known = w.known /\ v.hushed = w.hushed /\ v.how = w.how

LEMMA AlikeGood ==
  ASSUME NEW w, NEW v \in Session, NEW q, NEW h, Good(w, q, h), Alike(v, w)
  PROVE  Good(v, q, h) /\ Still(v, w)
<1>1. Typed(v) /\ Exits(v, q) /\ Inbox(v, q)
  BY DEF Good, Alike, Typed, Exits, Inbox, Owes
<1>2. Sent(v, q) /\ Boundary(v)
  BY DEF Good, Alike, Sent, Boundary, Waiting
<1>3. Apart(v, q, h) /\ Landing(v, h)
  BY DEF Good, Alike, Apart, Landing, Open, Cancelling
<1>4. InTurn(v, q) /\ Parks(v)
  BY DEF Good, Alike, InTurn, Open, Parks
<1>5. Still(v, w)
  BY DEF Alike, Still
<1> QED
  BY <1>1, <1>2, <1>3, <1>4, <1>5 DEF Good

-----------------------------------------------------------------------------
(* Opening turns and sending their inputs.                                 *)

LEMMA QueueTyped ==
  ASSUME NEW q \in Seq(Message)
  PROVE  /\ Submits(q) \subseteq Lines
         /\ DOMAIN q = 1..Len(q) /\ Len(q) \in Nat
         /\ \A n \in DOMAIN q : q[n] \in Message
<1>1. DOMAIN q = 1..Len(q) /\ Len(q) \in Nat /\ \A n \in DOMAIN q : q[n] \in Message
  OBVIOUS
<1>2. \A msg \in Message : msg.k = "submit" => msg.line \in Lines
  BY DEF Message
<1> QED
  BY <1>1, <1>2 DEF Submits

LEMMA OpenTurnGood ==
  ASSUME NEW w, NEW q, NEW h, Good(w, q, h), NEW t \in Turns, ~Open(w)
  PROVE  /\ Good(OpenTurn(w, t), q, h)
         /\ Open(OpenTurn(w, t)) /\ ~Cancelling(OpenTurn(w, t))
         /\ OpenTurn(w, t).m = w.m /\ OpenTurn(w, t).inputs = w.inputs
         /\ OpenTurn(w, t).how = w.how /\ OpenTurn(w, t).steerQ = w.steerQ
         /\ OpenTurn(w, t).steerIn = w.steerIn /\ OpenTurn(w, t).begun = w.begun
         /\ OpenTurn(w, t).adopted = w.adopted \ w.ended
<1> DEFINE v == OpenTurn(w, t)
<1>0. w \in Session
  BY DEF Good, Typed
<1>1. OpenTurn(w, t) \in Session
  BY ZenonT(60),<1>0 DEF OpenTurn, Session
<1>2. /\ v.unobserved = w.unobserved /\ v.run = w.run /\ v.alive = w.alive
      /\ v.restart = w.restart /\ v.steerIn = w.steerIn /\ v.m = w.m /\ v.inputs = w.inputs
      /\ v.turn = t /\ v.cancelling = w.cancelling /\ v.how = w.how /\ v.steerQ = w.steerQ
      /\ v.begun = w.begun /\ v.adopted = w.adopted \ w.ended
  BY <1>0 DEF OpenTurn, Session
<1>3. Open(v) /\ ~Cancelling(v)
  BY <1>2, SessionAssumption DEF Open, Cancelling, Good, Landing
<1>4. Typed(v)
  BY <1>1, <1>2 DEF Good, Typed
<1>5. Exits(v, q) /\ Inbox(v, q) /\ Sent(v, q)
  BY DEF Good, Typed, OpenTurn, Session, Exits, Inbox, Sent, Owes
<1>6. Boundary(v) /\ Apart(v, q, h)
  BY DEF Good, Typed, OpenTurn, Session, Boundary, Apart, Waiting
<1>7. Landing(v, h)
  BY SessionAssumption DEF Good, Typed, OpenTurn, Session, Landing, Open, Cancelling
<1>8. InTurn(v, q)
  BY SessionAssumption DEF Good, Typed, OpenTurn, Session, InTurn, Open
<1>9. Parks(v)
  BY DEF Good, Typed, OpenTurn, Session, Parks
<1> QED
  BY <1>2, <1>3, <1>4, <1>5, <1>6, <1>7, <1>8, <1>9 DEF Good

\* payload and send: the word in hand has become an input.
LEMMA SendWithNotesGood ==
  ASSUME NEW w, NEW q \in Seq(Message), NEW i \in Inputs, Good(w, q, {i})
  PROVE  LET v == SendWithNotes(w, i)
         IN /\ Good(v, q, {})
            /\ v.inputs = w.inputs \cup {i} /\ i \in v.unobserved
            /\ v.begun = w.begun /\ v.steerQ = w.steerQ /\ v.steerIn = w.steerIn
            /\ Still(v, w)
<1> DEFINE v == SendWithNotes(w, i)
           e == Send(w, <<i>>)
<1>0. w \in Session /\ Typed(w) /\ Exits(w, q) /\ Inbox(w, q) /\ Sent(w, q)
  BY DEF Good, Typed
<1>1. <<i>> \in Seq(Inputs) /\ Distinct(<<i>>) /\ Elements(<<i>>) = {i}
  BY ElementsOne
<1>2. i \notin w.inputs /\ i \notin w.unobserved /\ ~Recorded(i)
  BY DEF Good, Apart, Sent
<1>3. /\ e = [w EXCEPT !.unobserved = w.unobserved \cup {i}, !.inputs = w.inputs \cup {i},
                       !.told = w.told \cup ({i} \cap Steers),
                       !.run = e.run, !.alive = e.alive, !.stale = e.stale, !.inbox = e.inbox]
      /\ Typed(e) /\ Exits(e, q) /\ Inbox(e, q) /\ Sent(e, q)
  <2> DEFINE p == <<i>>
  <2>1. Elements(p) \cap w.unobserved = {} /\ \A j \in Elements(p) : ~Recorded(j)
    BY <1>1, <1>2
  <2>2. p \in Seq(Inputs) /\ Distinct(p) /\ Elements(p) = {i}
    BY <1>1
  <2> HIDE DEF p
  <2>3. LET x == Send(w, p)
        IN /\ x = [w EXCEPT !.unobserved = w.unobserved \cup Elements(p),
                            !.inputs = w.inputs \cup Elements(p),
                            !.told = w.told \cup (Elements(p) \cap Steers),
                            !.run = x.run, !.alive = x.alive, !.stale = x.stale,
                            !.inbox = x.inbox]
           /\ Typed(x) /\ Exits(x, q) /\ Inbox(x, q) /\ Sent(x, q)
    BY <1>0, <2>1, <2>2, SendIs
  <2> QED
    BY <2>2, <2>3 DEF e, p
<1> HIDE DEF e
<1>4. v = [e EXCEPT !.notes = {}, !.told = w.told \cup w.notes \cup ({i} \cap Steers)]
  BY DEF SendWithNotes, e
<1>5. e \in Session
  BY <1>3 DEF Typed
<1>6. [e EXCEPT !.notes = {}, !.told = w.told \cup w.notes \cup ({i} \cap Steers)] \in Session
  BY ZenonT(60),<1>0, <1>5 DEF Session
<1> HIDE DEF v
<1>7. /\ v.unobserved = e.unobserved /\ v.run = e.run /\ v.alive = e.alive /\ v.inbox = e.inbox
      /\ v.restart = e.restart /\ v.inputs = e.inputs /\ v.steerIn = e.steerIn
  BY <1>4, <1>5 DEF Session
<1>8. Typed(v) /\ Exits(v, q) /\ Inbox(v, q) /\ Sent(v, q)
  BY <1>3, <1>4, <1>6, <1>7 DEF Typed, Exits, Inbox, Sent, Owes
<1>9. /\ v.unobserved = w.unobserved \cup {i} /\ v.inputs = w.inputs \cup {i}
      /\ v.told = w.told \cup w.notes \cup ({i} \cap Steers) /\ v.notes = {}
      /\ v.turn = w.turn /\ v.m = w.m /\ v.steerQ = w.steerQ /\ v.noticeQ = w.noticeQ
      /\ v.pending = w.pending /\ v.news = w.news /\ v.adopted = w.adopted
      /\ v.ended = w.ended /\ v.cancelled = w.cancelled /\ v.cancelling = w.cancelling
      /\ v.parked = w.parked /\ v.muted = w.muted /\ v.userStop = w.userStop
      /\ v.steerable = w.steerable /\ v.steerIn = w.steerIn /\ v.promised = w.promised
      /\ v.begun = w.begun /\ v.known = w.known /\ v.hushed = w.hushed /\ v.how = w.how
  <2>1. /\ v.unobserved = e.unobserved /\ v.inputs = e.inputs
        /\ v.told = w.told \cup w.notes \cup ({i} \cap Steers) /\ v.notes = {}
        /\ v.turn = e.turn /\ v.m = e.m /\ v.steerQ = e.steerQ /\ v.noticeQ = e.noticeQ
        /\ v.pending = e.pending /\ v.news = e.news /\ v.adopted = e.adopted
        /\ v.ended = e.ended /\ v.cancelled = e.cancelled /\ v.cancelling = e.cancelling
        /\ v.parked = e.parked /\ v.muted = e.muted /\ v.userStop = e.userStop
        /\ v.steerable = e.steerable /\ v.steerIn = e.steerIn /\ v.promised = e.promised
        /\ v.begun = e.begun /\ v.known = e.known /\ v.hushed = e.hushed /\ v.how = e.how
    BY <1>4, <1>5 DEF Session
  <2>2. /\ e.unobserved = w.unobserved \cup {i} /\ e.inputs = w.inputs \cup {i}
        /\ e.turn = w.turn /\ e.m = w.m /\ e.steerQ = w.steerQ /\ e.noticeQ = w.noticeQ
        /\ e.pending = w.pending /\ e.news = w.news /\ e.adopted = w.adopted
        /\ e.ended = w.ended /\ e.cancelled = w.cancelled /\ e.cancelling = w.cancelling
        /\ e.parked = w.parked /\ e.muted = w.muted /\ e.userStop = w.userStop
        /\ e.steerable = w.steerable /\ e.steerIn = w.steerIn /\ e.promised = w.promised
        /\ e.begun = w.begun /\ e.known = w.known /\ e.hushed = w.hushed /\ e.how = w.how
    <3> DEFINE r == e.run
               a == e.alive
               st == e.stale
               b == e.inbox
    <3>1. e = [w EXCEPT !.unobserved = w.unobserved \cup {i}, !.inputs = w.inputs \cup {i},
                        !.told = w.told \cup ({i} \cap Steers),
                        !.run = r, !.alive = a, !.stale = st, !.inbox = b]
      BY <1>3
    <3> HIDE DEF r, a, st, b
    <3> QED
      BY <1>0, <3>1 DEF Session
  <2> QED
    BY <2>1, <2>2
<1>10. Boundary(v)
  BY <1>2, <1>9 DEF Good, Boundary, Waiting, Apart
<1>11. Apart(v, q, {})
  BY <1>9 DEF Good, Apart
<1>16. steered \subseteq Steers
  BY DEF Good, Apart
<1>12. Landing(v, {})
  BY <1>9, <1>16 DEF Good, Landing, Open, Cancelling
<1>13. InTurn(v, q)
  BY <1>9 DEF Good, InTurn, Open
<1>14. Parks(v)
  BY <1>9 DEF Good, Parks
<1>15. Still(v, w)
  BY <1>9 DEF Still
<1> QED
  BY <1>8, <1>9, <1>10, <1>11, <1>12, <1>13, <1>14, <1>15 DEF Good, v

\* The boundary: what waited for it is sent.
LEMMA FlushGood ==
  ASSUME NEW w, NEW q \in Seq(Message), Good(w, q, {})
  PROVE  LET v == Flush(w)
         IN Good(v, q, {}) /\ Still(v, w)
<1> DEFINE p == w.steerQ \o w.noticeQ
           e == Send(w, p)
           v == [e EXCEPT !.steerQ = <<>>, !.noticeQ = <<>>]
<1>0. /\ w \in Session /\ Typed(w) /\ Exits(w, q) /\ Inbox(w, q) /\ Sent(w, q)
      /\ w.steerQ \in Seq(Steers) /\ w.noticeQ \in Seq(News)
  BY DEF Good, Typed, Session
<1>1. Elements(w.steerQ) \subseteq Steers /\ Elements(w.noticeQ) \subseteq News
  BY <1>0, ElementsIn
<1>2. /\ w.steerQ \in Seq(Inputs) /\ w.noticeQ \in Seq(Inputs)
      /\ Elements(w.steerQ) \cap Elements(w.noticeQ) = {}
      /\ Distinct(w.steerQ) /\ Distinct(w.noticeQ)
  BY <1>0, <1>1, IdsAssumption DEF Inputs, Good, Boundary
<1>3. p \in Seq(Inputs) /\ Distinct(p) /\ Elements(p) = Waiting(w)
  BY <1>2, ElementsConcat DEF Waiting
<1> HIDE DEF p
<1>4. Elements(p) \cap w.unobserved = {} /\ \A i \in Elements(p) : ~Recorded(i)
  BY <1>3 DEF Good, Boundary
<1>5. /\ Kept(e, w) /\ e \in Session
      /\ e.unobserved = w.unobserved \cup Elements(p)
      /\ e.inputs = w.inputs \cup Elements(p)
      /\ e.told = w.told \cup (Elements(p) \cap Steers)
      /\ Typed(e) /\ Exits(e, q) /\ Inbox(e, q) /\ Sent(e, q)
  BY <1>0, <1>3, <1>4, SendKeeps
<1> HIDE DEF e
<1>b. e \in Session
  BY <1>5
<1>c. <<>> \in Seq(Steers) /\ <<>> \in Seq(News)
  OBVIOUS
<1>6. v \in Session
  BY ZenonT(60),<1>b, <1>c DEF Session
<1>7. /\ v.unobserved = e.unobserved /\ v.run = e.run /\ v.alive = e.alive /\ v.inbox = e.inbox
      /\ v.restart = e.restart /\ v.inputs = e.inputs /\ v.steerIn = e.steerIn
      /\ v.told = e.told /\ v.turn = e.turn /\ v.m = e.m /\ v.steerQ = <<>> /\ v.noticeQ = <<>>
      /\ v.notes = e.notes /\ v.pending = e.pending /\ v.news = e.news /\ v.adopted = e.adopted
      /\ v.ended = e.ended /\ v.cancelled = e.cancelled /\ v.cancelling = e.cancelling
      /\ v.parked = e.parked /\ v.muted = e.muted /\ v.userStop = e.userStop
      /\ v.steerable = e.steerable /\ v.promised = e.promised
      /\ v.begun = e.begun /\ v.known = e.known /\ v.hushed = e.hushed /\ v.how = e.how
  BY <1>5 DEF Session
<1> HIDE DEF v
<1>8. Typed(v) /\ Exits(v, q) /\ Inbox(v, q) /\ Sent(v, q)
  BY <1>5, <1>6, <1>7 DEF Typed, Exits, Inbox, Sent, Owes
<1>9. Elements(<<>>) = {} /\ Distinct(<<>>)
  BY DEF Elements, Distinct
<1>10. Boundary(v)
  BY <1>7, <1>9 DEF Boundary, Waiting
<1>11. Apart(v, q, {})
  <2>0. Elements(p) \subseteq w.inputs
    BY <1>3 DEF Good, Boundary
  <2>1. v.inputs = w.inputs
    BY <2>0, <1>5, <1>7
  <2> QED
    BY <2>1, <1>5, <1>7 DEF Good, Apart, Kept
<1>12. Landing(v, {})
  BY <1>1, <1>3, <1>5, <1>7 DEF Good, Landing, Kept, Open, Cancelling, Waiting
<1>13. InTurn(v, q)
  BY <1>5, <1>7 DEF Good, InTurn, Open, Kept
<1>14. Parks(v)
  BY <1>5, <1>7 DEF Good, Parks, Kept
<1>15. Still(v, w)
  BY <1>5, <1>7 DEF Kept, Still
<1> QED
  BY <1>8, <1>10, <1>11, <1>12, <1>13, <1>14, <1>15 DEF Good, Flush, v, e, p

\* landQueued: the steer on its way waits for the boundary, is sent, or is
\* told that it is blocked.
LEMMA LandQueuedGood ==
  ASSUME NEW w, NEW q \in Seq(Message), Good(w, q, {})
  PROVE  LET v == LandQueued(w)
         IN Good(v, q, {}) /\ Still(v, w) /\ v.steerIn = <<>>
<1> DEFINE p == Admitted(w.steerIn)
           P == Elements(p)
           S == Elements(w.steerIn)
           o == [w EXCEPT !.steerIn = <<>>]
           e == SteerOrQueue(o, p)
           told == e.told \cup (S \cap Blocked)
           v == [e EXCEPT !.told = told]
<1>0. /\ w \in Session /\ Typed(w) /\ Exits(w, q) /\ Inbox(w, q) /\ Sent(w, q)
      /\ w.steerIn \in Seq(Steers) /\ w.steerQ \in Seq(Steers) /\ Len(w.steerIn) <= 1
  BY DEF Good, Typed, Session
<1>a. Elements(<<>>) = {} /\ Distinct(<<>>) /\ <<>> \in Seq(Steers)
  BY DEF Elements, Distinct
<1>1. Distinct(w.steerIn)
  BY <1>0 DEF Distinct
<1>2. /\ p \in Seq(Steers) /\ Distinct(p) /\ P \subseteq S /\ S \subseteq P \cup Blocked
      /\ S \subseteq Steers /\ P \subseteq Steers /\ p \in Seq(Inputs)
  BY <1>0, <1>1, <1>a, ElementsIn DEF Admitted, Inputs
<1>3. /\ S \cap w.inputs = {} /\ S \subseteq Said
      /\ S \cap (Elements(w.pending)) = {}
  BY DEF Good, Apart
<1>4. \A i \in P : ~Recorded(i)
  BY <1>2, <1>3 DEF Good, Sent, Inputs
<1>5. o \in Session
  BY ZenonT(60),<1>0, <1>a DEF Session
<1>6. /\ Kept(o, [w EXCEPT !.steerIn = <<>>]) /\ o.steerIn = <<>>
      /\ o.unobserved = w.unobserved /\ o.run = w.run /\ o.alive = w.alive /\ o.inbox = w.inbox
      /\ o.restart = w.restart /\ o.inputs = w.inputs
      /\ o.told = w.told /\ o.turn = w.turn /\ o.m = w.m /\ o.steerQ = w.steerQ
      /\ o.noticeQ = w.noticeQ
      /\ o.notes = w.notes /\ o.pending = w.pending /\ o.news = w.news /\ o.adopted = w.adopted
      /\ o.ended = w.ended /\ o.cancelled = w.cancelled /\ o.cancelling = w.cancelling
      /\ o.parked = w.parked /\ o.muted = w.muted /\ o.userStop = w.userStop
      /\ o.steerable = w.steerable /\ o.promised = w.promised
      /\ o.begun = w.begun /\ o.known = w.known /\ o.hushed = w.hushed /\ o.how = w.how
  BY <1>0 DEF Session, Kept
<1>7. Typed(o) /\ Exits(o, q) /\ Inbox(o, q) /\ Sent(o, q)
  BY <1>0, <1>5, <1>6 DEF Typed, Exits, Inbox, Sent, Owes
<1> HIDE DEF p, o, P, S
<1>8. /\ e \in Session /\ Typed(e) /\ Exits(e, q) /\ Inbox(e, q) /\ Sent(e, q)
      /\ e.inputs = w.inputs \cup P /\ w.unobserved \subseteq e.unobserved
      /\ e.told \subseteq Steers /\ w.told \subseteq e.told
      /\ P \subseteq Elements(e.steerQ) \cup e.told
      /\ Elements(w.steerQ) \subseteq Elements(e.steerQ)
      /\ Boundary(e)
      /\ e.steerIn = <<>> /\ e.turn = w.turn /\ e.m = w.m
      /\ e.notes = w.notes /\ e.pending = w.pending /\ e.news = w.news /\ e.adopted = w.adopted
      /\ e.ended = w.ended /\ e.cancelled = w.cancelled /\ e.cancelling = w.cancelling
      /\ e.parked = w.parked /\ e.muted = w.muted /\ e.userStop = w.userStop
      /\ e.steerable = w.steerable /\ e.promised = w.promised
      /\ e.begun = w.begun /\ e.known = w.known /\ e.hushed = w.hushed /\ e.how = w.how
  <2>1. CASE Waits(o)
    <3> DEFINE sq == w.steerQ \o p
    <3>1. /\ sq \in Seq(Steers) /\ Elements(sq) = Elements(w.steerQ) \cup P /\ Distinct(sq)
      BY <1>0, <1>2, <1>3, ElementsConcat DEF Good, Boundary, Waiting, P, S
    <3> HIDE DEF sq
    <3>2. e = [o EXCEPT !.steerQ = sq, !.inputs = w.inputs \cup P]
      BY <2>1, <1>6 DEF SteerOrQueue, sq, P
    <3>3. w.inputs \cup P \subseteq Inputs
      BY <1>0, <1>2 DEF Session, Inputs
    <3>4. [o EXCEPT !.steerQ = sq, !.inputs = w.inputs \cup P] \in Session
      BY ZenonT(60),<1>5, <3>1, <3>3 DEF Session
    <3> HIDE DEF e
    <3>5. /\ e.steerIn = o.steerIn /\ e.inputs = w.inputs \cup P /\ e.steerQ = sq
          /\ e.unobserved = o.unobserved /\ e.run = o.run /\ e.alive = o.alive
          /\ e.inbox = o.inbox /\ e.restart = o.restart
          /\ e.told = o.told /\ e.turn = o.turn /\ e.m = o.m
          /\ e.noticeQ = o.noticeQ
          /\ e.notes = o.notes /\ e.pending = o.pending /\ e.news = o.news
          /\ e.adopted = o.adopted
          /\ e.ended = o.ended /\ e.cancelled = o.cancelled /\ e.cancelling = o.cancelling
          /\ e.parked = o.parked /\ e.muted = o.muted /\ e.userStop = o.userStop
          /\ e.steerable = o.steerable /\ e.promised = o.promised
          /\ e.begun = o.begun /\ e.known = o.known /\ e.hushed = o.hushed /\ e.how = o.how
      BY <1>5, <3>2 DEF Session
    <3>6. Typed(e) /\ Exits(e, q) /\ Inbox(e, q)
      BY <1>7, <3>2, <3>4, <3>5 DEF Typed, Exits, Inbox, Owes
    <3>7. Sent(e, q)
      BY <1>7, <1>6, <3>5 DEF Sent
    <3>8. P \cap w.unobserved = {}
      BY <1>2, <1>3, <1>7, <1>6 DEF Sent, S, P
    <3>9. Boundary(e)
      BY <3>1, <3>5, <3>8, <1>4, <1>6 DEF Good, Boundary, Waiting
    <3> QED
      BY <1>0, <1>6, <3>1, <3>2, <3>4, <3>5, <3>6, <3>7, <3>9 DEF Session
  <2>2. CASE ~Waits(o)
    <3>1. e = Send(o, p)
      BY <2>2 DEF SteerOrQueue
    <3> HIDE DEF e
    <3>2. Elements(p) \cap o.inputs = {}
      BY <1>2, <1>3, <1>6 DEF P
    <3>3. /\ Kept(e, o) /\ e \in Session
          /\ e.unobserved = o.unobserved \cup P
          /\ e.inputs = o.inputs \cup P
          /\ e.told = o.told \cup (P \cap Steers)
          /\ Typed(e) /\ Exits(e, q) /\ Inbox(e, q) /\ Sent(e, q)
      BY <1>2, <1>7, <3>1, <3>2, SendKeeps DEF P
    <3>4. Elements(e.steerQ) \cap P = {} /\ Elements(e.noticeQ) \cap P = {}
      BY <1>2, <1>3, <1>6, <3>3 DEF Kept, Good, Boundary, Waiting
    <3>5. Boundary(e)
      BY <1>6, <3>3, <3>4 DEF Kept, Good, Boundary, Waiting
    <3> QED
      BY <1>0, <1>2, <1>6, <3>3, <3>5 DEF Kept, Session
  <2> QED
    BY <2>1, <2>2
<1> HIDE DEF e
<1>9. told \subseteq Steers
  BY <1>8, <1>2
<1> HIDE DEF told
<1>10. v \in Session
  BY ZenonT(60),<1>8, <1>9 DEF Session
<1>11. /\ v.unobserved = e.unobserved /\ v.run = e.run /\ v.alive = e.alive /\ v.inbox = e.inbox
       /\ v.restart = e.restart /\ v.inputs = e.inputs /\ v.steerIn = e.steerIn
       /\ v.told = told /\ v.turn = e.turn /\ v.m = e.m /\ v.steerQ = e.steerQ
       /\ v.noticeQ = e.noticeQ
       /\ v.notes = e.notes /\ v.pending = e.pending /\ v.news = e.news /\ v.adopted = e.adopted
       /\ v.ended = e.ended /\ v.cancelled = e.cancelled /\ v.cancelling = e.cancelling
       /\ v.parked = e.parked /\ v.muted = e.muted /\ v.userStop = e.userStop
       /\ v.steerable = e.steerable /\ v.promised = e.promised
       /\ v.begun = e.begun /\ v.known = e.known /\ v.hushed = e.hushed /\ v.how = e.how
  BY <1>8 DEF Session
<1> HIDE DEF v
<1>12. Typed(v) /\ Exits(v, q) /\ Inbox(v, q) /\ Sent(v, q) /\ Boundary(v)
  BY <1>8, <1>10, <1>11 DEF Typed, Exits, Inbox, Sent, Owes, Boundary, Waiting
<1>13. Apart(v, q, {})
  <2>1. Submits(q) \subseteq Lines /\ w.news \subseteq News
    BY <1>0, QueueTyped DEF Session
  <2>2. P \cap (w.news \cup Elements(w.pending) \cup Submits(q)) = {} /\ P \subseteq Said
    BY <2>1, <1>2, <1>3, IdsAssumption
  <2>3. /\ v.inputs = w.inputs \cup P /\ v.news = w.news /\ v.pending = w.pending
        /\ Elements(v.steerIn) = {}
    BY <1>8, <1>11, <1>a
  <2> QED
    BY <2>2, <2>3 DEF Good, Apart
<1>14. Landing(v, {})
  BY <1>2, <1>8, <1>11, <1>a DEF Good, Landing, Open, Cancelling, told, S
<1>15. InTurn(v, q) /\ Parks(v)
  BY <1>8, <1>11 DEF Good, InTurn, Open, Parks
<1> QED
  BY <1>8, <1>11, <1>12, <1>13, <1>14, <1>15 DEF Good, Still, LandQueued, v, e, p, o, told, S

\* A nudge, or news that land in the open turn.
LEMMA SendGood ==
  ASSUME NEW w, NEW q \in Seq(Message), NEW i \in Inputs, Good(w, q, {i})
  PROVE  LET v == Send(w, <<i>>)
         IN /\ Good(v, q, {}) /\ Still(v, w)
            /\ v.inputs = w.inputs \cup {i} /\ i \in v.unobserved
<1> DEFINE p == <<i>>
           v == Send(w, p)
<1>0. w \in Session /\ Typed(w) /\ Exits(w, q) /\ Inbox(w, q) /\ Sent(w, q)
  BY DEF Good, Typed
<1>1. p \in Seq(Inputs) /\ Distinct(p) /\ Elements(p) = {i}
  BY ElementsOne
<1>2. i \notin w.inputs /\ i \notin w.unobserved /\ ~Recorded(i)
  BY DEF Good, Apart, Sent
<1> HIDE DEF p
<1>3. Elements(p) \cap w.inputs = {}
  BY <1>1, <1>2
<1>4. /\ Kept(v, w) /\ v \in Session
      /\ v.unobserved = w.unobserved \cup {i}
      /\ v.inputs = w.inputs \cup {i}
      /\ v.told = w.told \cup ({i} \cap Steers)
      /\ Typed(v) /\ Exits(v, q) /\ Inbox(v, q) /\ Sent(v, q)
  BY <1>0, <1>1, <1>3, SendKeeps
<1> HIDE DEF v
<1>5. Boundary(v)
  BY <1>2, <1>4 DEF Good, Boundary, Waiting, Apart, Kept
<1>6. Apart(v, q, {})
  BY <1>4 DEF Good, Apart, Kept
<1>a. steered \subseteq Steers
  BY DEF Good, Apart
<1>7. Landing(v, {})
  BY <1>4, <1>a DEF Good, Landing, Open, Cancelling, Kept
<1>8. InTurn(v, q) /\ Parks(v)
  BY <1>4 DEF Good, InTurn, Open, Parks, Kept
<1>9. Still(v, w)
  BY <1>4 DEF Still, Kept
<1> QED
  BY <1>4, <1>5, <1>6, <1>7, <1>8, <1>9 DEF Good, v, p

\* notice: the news are taken, and are queued or sent.
LEMMA NoticeGood ==
  ASSUME NEW w, NEW q \in Seq(Message), Good(w, q, {})
  PROVE  LET v == Notice(w)
         IN /\ Good(v, q, {}) /\ v.m = w.m /\ v.how = w.how /\ v.cancelling = w.cancelling
            /\ v.inputs \subseteq w.inputs \cup News
            /\ Still(v, w) \/ (~Open(w) /\ Open(v) /\ v.unobserved # {})
<1>0. w \in Session
  BY DEF Good, Typed
<1>1. CASE ~Ready \/ (~Cancelling(w) /\ w.news = {})
  BY <1>1 DEF Notice, Still
<1>2. CASE Ready /\ Cancelling(w)
  <2> DEFINE v == [w EXCEPT !.noticeWaits = TRUE]
  <2>1. Notice(w) = v
    BY <1>2 DEF Notice
  <2>2. v \in Session
    BY ZenonT(60),<1>0 DEF Session
  <2>3. Alike(v, w)
    BY <1>0 DEF Session, Alike
  <2> HIDE DEF v
  <2> QED
    BY <2>1, <2>2, <2>3, AlikeGood DEF Alike, Still
<1>3. CASE Ready /\ ~Cancelling(w) /\ w.news # {}
  <2> DEFINE i == CHOOSE n \in w.news : TRUE
             o == [w EXCEPT !.news = {}]
  <2>1. i \in w.news /\ i \in News /\ i \in Inputs /\ i \notin w.inputs
    BY <1>0, <1>3 DEF Session, Inputs, Good, Apart
  <2> HIDE DEF i
  <2>a. o \in Session
    BY ZenonT(60),<1>0 DEF Session
  <2>b. /\ o.unobserved = w.unobserved /\ o.run = w.run /\ o.alive = w.alive
        /\ o.restart = w.restart /\ o.steerIn = w.steerIn
        /\ o.inbox = w.inbox /\ o.inputs = w.inputs /\ o.steerQ = w.steerQ
        /\ o.noticeQ = w.noticeQ
    BY <1>0 DEF Session
  <2>2. Typed(o) /\ Exits(o, q) /\ Inbox(o, q) /\ Sent(o, q) /\ Boundary(o)
    BY <2>a, <2>b DEF Good, Typed, Exits, Inbox, Sent, Owes, Boundary, Waiting
  <2>3. InTurn(o, q) /\ Parks(o) /\ Still(o, w) /\ o.inputs = w.inputs
    BY ZenonT(60),<1>0 DEF Good, Session, InTurn, Parks, Open, Still
  <2>4. /\ i \notin Submits(q) /\ i \notin Elements(w.pending) /\ i \notin Elements(w.steerIn)
        /\ i \notin w.promised /\ i \in Said
    <3>1. Elements(w.pending) \subseteq Lines \cup Steers /\ Elements(w.steerIn) \subseteq Steers
      BY <1>0, ElementsIn DEF Session
    <3> QED
      BY <1>0, <2>1, <3>1, QueueTyped, IdsAssumption DEF Session, Good, Apart
  <2>5. Apart(o, q, {i}) /\ Landing(o, {i})
    BY <1>0, <2>1, <2>4 DEF Good, Session, Apart, Landing, Open, Cancelling
  <2>6. Good(o, q, {i})
    BY <2>2, <2>3, <2>5 DEF Good
  <2>7. CASE Open(w) /\ ~Waits(o)
    <3>1. Notice(w) = Send(o, <<i>>)
      BY <1>3, <2>7 DEF Notice, NoticeOrQueue, i
    <3> DEFINE v == Send(o, <<i>>)
    <3>2. /\ Good(v, q, {}) /\ Still(v, o)
          /\ v.inputs = o.inputs \cup {i} /\ i \in v.unobserved
      BY <2>1, <2>6, SendGood
    <3> HIDE DEF v, o
    <3> QED
      BY <3>1, <3>2, <2>1, <2>3 DEF Still, v
  <2>8. CASE Open(w) /\ Waits(o)
    <3> DEFINE nq == Append(w.noticeQ, i)
               in == w.inputs \cup {i}
               v == [o EXCEPT !.noticeQ = nq, !.inputs = in]
    <3>1. Notice(w) = v
      BY <1>0, <1>3, <2>8 DEF Notice, NoticeOrQueue, i, Session
    <3>2. /\ nq \in Seq(News) /\ Elements(nq) = Elements(w.noticeQ) \cup {i}
          /\ Distinct(w.noticeQ) /\ i \notin Elements(w.noticeQ) => Distinct(nq)
      BY <1>0, <2>1, ElementsAppend DEF Session
    <3>3. in \subseteq Inputs /\ i \notin Elements(w.noticeQ) /\ Distinct(nq)
          /\ ~Recorded(i) /\ i \notin w.unobserved
      BY <1>0, <2>1, <3>2 DEF Session, Good, Boundary, Waiting, Sent
    <3> HIDE DEF nq
    <3>4. o \in Session /\ o.inputs = w.inputs
      BY <2>2, <2>3 DEF Typed
    <3> HIDE DEF o
    <3>5. v \in Session
      BY ZenonT(60),<3>2, <3>3, <3>4 DEF Session
    <3>6. /\ v.unobserved = o.unobserved /\ v.run = o.run /\ v.alive = o.alive
          /\ v.inbox = o.inbox /\ v.restart = o.restart /\ v.inputs = in /\ v.noticeQ = nq
          /\ v.steerQ = o.steerQ /\ v.steerIn = o.steerIn /\ v.m = o.m
      BY <3>4 DEF Session
    <3>7. o.noticeQ = w.noticeQ /\ o.unobserved = w.unobserved
      BY <1>0 DEF Session, o
    <3>8. Typed(v) /\ Exits(v, q) /\ Inbox(v, q)
      BY <2>2, <3>5, <3>6 DEF Typed, Exits, Inbox, Owes
    <3>9. Sent(v, q)
      BY <2>2, <3>4, <3>6 DEF Sent
    <3>10. Boundary(v)
      BY <2>2, <3>2, <3>3, <3>4, <3>6, <3>7 DEF Boundary, Waiting
    <3>11. Apart(v, q, {})
      BY <2>5, <3>4 DEF Apart, Session
    <3>15. i \notin steered
      BY <2>1, IdsAssumption DEF Good, Apart
    <3>12. Landing(v, {})
      BY <2>5, <3>4, <3>15 DEF Landing, Open, Cancelling, Session
    <3>13. InTurn(v, q) /\ Parks(v)
      BY ZenonT(60),<2>3, <3>4 DEF InTurn, Parks, Open, Session
    <3>14. Still(v, w)
      BY <2>3, <3>4 DEF Still, Session
    <3> HIDE DEF v
    <3> QED
      BY <2>1, <3>1, <3>6, <3>8, <3>9, <3>10, <3>11, <3>12, <3>13, <3>14 DEF Good, Still
  <2>9. CASE ~Open(w)
    <3> DEFINE t == OpenTurn(o, i)
    <3>1. Notice(w) = SendWithNotes(t, i)
      BY <1>3, <2>9 DEF Notice, i
    <3>2. i \in Turns /\ ~Open(o)
      BY <2>1, <2>3, <2>9 DEF Turns, Open, Still
    <3>3. /\ Good(t, q, {i}) /\ Open(t) /\ t.m = o.m /\ t.inputs = o.inputs
          /\ ~Cancelling(t) /\ t.how = o.how
      BY <2>6, <3>2, OpenTurnGood
    <3> HIDE DEF t
    <3> QED
      BY <2>1, <1>3, <2>3, <2>9, <3>1, <3>3, SendWithNotesGood DEF Still, Open, Cancelling
  <2> QED
    BY <2>7, <2>8, <2>9
<1> QED
  BY <1>1, <1>2, <1>3

-----------------------------------------------------------------------------
(* Lines, cancels and the end of turns.                                    *)

LEMMA SaidSteers ==
  ASSUME submitted \in 0..Len(Line), steered \subseteq Steers, noted \subseteq News
  PROVE  Said \cap Steers = steered
<1>1. \A n \in 1..submitted : Line[n] \in Lines
  BY IdsAssumption
<1> QED
  BY <1>1, IdsAssumption DEF Said

LEMMA StartTurnGood ==
  ASSUME NEW w, NEW q \in Seq(Message), NEW l \in Lines \cup Steers,
         Good(w, q, {l}), ~Open(w)
  PROVE  LET v == StartTurn(w, l)
         IN /\ Good(v, q, {}) /\ v.m = w.m /\ v.how = w.how
            /\ v.steerQ = w.steerQ /\ v.steerIn = w.steerIn
            /\ v.adopted \in {w.adopted, w.adopted \ w.ended}
            /\ (~Open(v) /\ Still(v, w)) \/ (Open(v) /\ ~Cancelling(v) /\ v.unobserved # {})
<1> DEFINE b == [w EXCEPT !.begun = w.begun \cup {l}]
           f == [w EXCEPT !.begun = w.begun \cup {l}, !.finished = w.finished \cup {l}]
           t == OpenTurn(b, l)
<1>0. w \in Session /\ l \in Inputs /\ l \in Turns
  BY DEF Good, Typed, Inputs, Turns
<1>1. l \in Steers => l \in steered
  <2>1. l \in Said
    BY DEF Good, Apart
  <2>2. Said \cap Steers = steered
    BY SaidSteers DEF Good, Apart
  <2> QED
    BY <2>1, <2>2
<1>2. b \in Session /\ f \in Session
  <2> DEFINE bg == w.begun \cup {l}
             fn == w.finished \cup {l}
  <2>1. bg \in SUBSET (Lines \cup Steers) /\ fn \in SUBSET (Lines \cup Steers)
    BY <1>0 DEF Session
  <2> HIDE DEF bg, fn
  <2>2. [w EXCEPT !.begun = bg] \in Session
    BY ZenonT(60),<1>0, <2>1 DEF Session
  <2>3. [w EXCEPT !.begun = bg, !.finished = fn] \in Session
    BY ZenonT(60),<1>0, <2>1 DEF Session
  <2> QED
    BY <2>2, <2>3 DEF bg, fn
<1>3. /\ b.begun = w.begun \cup {l}
      /\ b.turn = w.turn /\ b.m = w.m /\ b.unobserved = w.unobserved /\ b.inputs = w.inputs
      /\ b.steerQ = w.steerQ /\ b.noticeQ = w.noticeQ /\ b.notes = w.notes
      /\ b.pending = w.pending /\ b.news = w.news /\ b.adopted = w.adopted /\ b.ended = w.ended
      /\ b.cancelled = w.cancelled /\ b.cancelling = w.cancelling /\ b.parked = w.parked
      /\ b.muted = w.muted /\ b.userStop = w.userStop /\ b.run = w.run /\ b.alive = w.alive
      /\ b.inbox = w.inbox /\ b.restart = w.restart /\ b.steerable = w.steerable
      /\ b.steerIn = w.steerIn /\ b.told = w.told /\ b.promised = w.promised
      /\ b.known = w.known /\ b.hushed = w.hushed /\ b.how = w.how
  BY <1>0 DEF Session, Alike
<1>4. Alike(f, b)
  BY <1>0 DEF Session, Alike
<1>a. l \notin w.promised
  BY DEF Good, Landing
<1> HIDE DEF b, f
<1>5. Typed(b) /\ Exits(b, q) /\ Inbox(b, q) /\ Sent(b, q) /\ Boundary(b)
  BY <1>2, <1>3 DEF Good, Typed, Exits, Inbox, Sent, Owes, Boundary, Waiting
<1>6. Apart(b, q, {l}) /\ InTurn(b, q) /\ Parks(b)
  BY <1>3 DEF Good, Apart, InTurn, Parks, Open
<1>7. Landing(b, {l}) /\ Landing(b, {})
  BY <1>1, <1>3, <1>a DEF Good, Landing, Open, Cancelling
<1>8. CASE l \in Blocked
  <2>1. Apart(b, q, {})
    BY <1>6 DEF Apart
  <2>2. Good(b, q, {}) /\ Still(b, w) /\ ~Open(b)
    BY <2>1, <1>3, <1>5, <1>6, <1>7 DEF Good, Still, Open
  <2>3. Good(f, q, {}) /\ Still(f, b) /\ f.steerQ = w.steerQ /\ f.steerIn = w.steerIn
    BY <1>2, <1>3, <1>4, <2>2, AlikeGood DEF Alike
  <2>4. StartTurn(w, l) = f
    BY <1>8 DEF StartTurn, f
  <2> QED
    BY <2>2, <2>3, <2>4 DEF Still, Open
<1>9. CASE l \notin Blocked
  <2>1. StartTurn(w, l) = SendWithNotes(t, l)
    BY <1>9 DEF StartTurn, b
  <2>2. ~Open(b) /\ Good(b, q, {l})
    BY <1>3, <1>5, <1>6, <1>7 DEF Open, Good
  <2>3. /\ Good(t, q, {l}) /\ Open(t) /\ ~Cancelling(t) /\ t.m = w.m /\ t.how = w.how
        /\ t.steerQ = w.steerQ /\ t.steerIn = w.steerIn /\ t.adopted = w.adopted \ w.ended
    BY <1>0, <1>3, <2>2, OpenTurnGood
  <2> HIDE DEF t
  <2> QED
    BY <1>0, <2>1, <2>3, SendWithNotesGood DEF Still, Open, Cancelling
<1> QED
  BY <1>8, <1>9

\* cancelTurn: everything the actor knows of the turn is parked.
LEMMA CancelTurnGood ==
  ASSUME NEW w, NEW q \in Seq(Message), Good(w, q, {})
  PROVE  LET v == CancelTurn(w)
         IN /\ Good(v, q, {}) /\ v.m = w.m /\ v.how = w.how /\ v.turn = w.turn
            /\ v.adopted = w.adopted /\ v.ended = w.ended /\ w.unobserved \subseteq v.unobserved
            /\ Still(v, w) \/ Cancelling(v)
            /\ w.steerIn = <<>> => v.steerIn = <<>> /\ v.steerQ \in {w.steerQ, <<>>}
<1>0. w \in Session
  BY DEF Good, Typed
<1>1. CASE ~Open(w)
  <2> DEFINE c == (~Ready /\ (w.pending # <<>> \/ Posted("submit")))
             v == [w EXCEPT !.cancelAt = TRUE, !.cancelOnReady = c]
  <2>1. CancelTurn(w) = v /\ c \in BOOLEAN
    BY <1>1 DEF CancelTurn
  <2> HIDE DEF c
  <2>2. v \in Session
    BY ZenonT(60),<1>0, <2>1 DEF Session
  <2>3. Alike(v, w)
    BY <1>0 DEF Session, Alike
  <2> HIDE DEF v
  <2>4. Good(v, q, {}) /\ Still(v, w)
    BY <2>2, <2>3, AlikeGood
  <2> QED
    BY <2>1, <2>3, <2>4 DEF Alike
<1>2. CASE Open(w) /\ Cancelling(w)
  <2>1. CancelTurn(w) = w
    BY <1>2 DEF CancelTurn
  <2> QED
    BY <2>1, <1>2
<1>3. CASE Open(w) /\ ~Cancelling(w)
  <2> DEFINE u == LandQueued(w)
             reported == u.m.reasons \cup u.m.turnReasons
             W == (u.m.outstanding \cap u.turnCalls) \ u.adopted
             N == u.notes \cup Elements(u.steerQ)
             M == u.muted \cup (u.turnCalls \ u.adopted)
                    \cup ((reported \cap Calls) \ (u.adopted \ u.ended)) \cup u.inputs
             U == (u.userStop \/ req.at \in {"starting", "provider"})
             C == u.cancelled \cup W
             K == u.inputs \cup reported \cup W
             v == [KeepSteers(u) EXCEPT
                    !.steerable = FALSE, !.settle = "off", !.parked = TRUE, !.muted = M,
                    !.userStop = U, !.waits = W, !.cancelled = C, !.cancelling = "waiting",
                    !.known = K, !.hushed = TRUE]
  <2>1. CancelTurn(w) = v
    BY <1>3 DEF CancelTurn
  <2>2. Good(u, q, {}) /\ Still(u, w) /\ u.steerIn = <<>>
    BY LandQueuedGood
  <2> HIDE DEF u
  <2>3. u \in Session
    BY <2>2 DEF Good, Typed
  <2>4. /\ u.m.reasons \in SUBSET (Inputs \cup Calls)
        /\ u.m.turnReasons \in SUBSET (Inputs \cup Calls) /\ u.m.outstanding \in SUBSET Calls
        /\ u.steerQ \in Seq(Steers) /\ u.notes \in SUBSET Steers
        /\ u.muted \in SUBSET (Inputs \cup Calls) /\ u.inputs \in SUBSET Inputs
        /\ u.turnCalls \in SUBSET Calls /\ u.cancelled \in SUBSET Calls
        /\ u.userStop \in BOOLEAN
    BY <2>3 DEF Session, MirrorOf
  <2>5. /\ N \in SUBSET Steers /\ M \in SUBSET (Inputs \cup Calls) /\ W \in SUBSET Calls
        /\ C \in SUBSET Calls /\ K \in SUBSET (Inputs \cup Calls) /\ U \in BOOLEAN
        /\ <<>> \in Seq(Steers) /\ <<>> \in Seq(News)
    BY <2>4, ElementsIn
  <2>6. K \subseteq M
    <3>1. reported \cap Inputs \subseteq u.inputs /\ reported \cap u.adopted \subseteq u.ended
      BY <2>2 DEF Good, Parks
    <3> QED
      BY <2>4, <3>1
  <2>7. req.at = "starting" => U
    OBVIOUS
  <2>8. KeepSteers(u) = [u EXCEPT !.notes = N, !.steerQ = <<>>, !.noticeQ = <<>>]
    BY DEF KeepSteers
  <2>9. u.cancelled \subseteq C
    OBVIOUS
  <2>10. Elements(u.steerQ) \subseteq N /\ u.notes \subseteq N
    OBVIOUS
  <2> HIDE DEF W, N, M, U, C, K, reported
  <2>11. v = [u EXCEPT !.notes = N, !.steerQ = <<>>, !.noticeQ = <<>>,
                    !.steerable = FALSE, !.settle = "off", !.parked = TRUE, !.muted = M,
                    !.userStop = U, !.waits = W, !.cancelled = C, !.cancelling = "waiting",
                    !.known = K, !.hushed = TRUE]
    BY <2>8
  <2>12. [u EXCEPT !.notes = N, !.steerQ = <<>>, !.noticeQ = <<>>,
                    !.steerable = FALSE, !.settle = "off", !.parked = TRUE, !.muted = M,
                    !.userStop = U, !.waits = W, !.cancelled = C, !.cancelling = "waiting",
                    !.known = K, !.hushed = TRUE] \in Session
    <3> DEFINE a == [u EXCEPT !.notes = N, !.steerQ = <<>>, !.noticeQ = <<>>]
               b == [a EXCEPT !.steerable = FALSE, !.settle = "off", !.parked = TRUE,
                              !.muted = M]
               c == [b EXCEPT !.userStop = U, !.waits = W, !.cancelled = C]
    <3>1. a \in Session
      BY ZenonT(60),<2>3, <2>5 DEF Session
    <3> HIDE DEF a
    <3>2. b \in Session
      BY ZenonT(60),<2>5, <3>1 DEF Session
    <3> HIDE DEF b
    <3>3. c \in Session
      BY ZenonT(60),<2>5, <3>2 DEF Session
    <3> HIDE DEF c
    <3>4. [c EXCEPT !.cancelling = "waiting", !.known = K, !.hushed = TRUE] \in Session
      BY ZenonT(60),<2>5, <3>3 DEF Session
    <3> QED
      BY <3>4 DEF a, b, c
  <2>13. v \in Session
    BY <2>11, <2>12
  <2> HIDE DEF v
  <2>14. /\ v.unobserved = u.unobserved /\ v.run = u.run /\ v.alive = u.alive
         /\ v.inbox = u.inbox /\ v.restart = u.restart /\ v.inputs = u.inputs
         /\ v.steerIn = u.steerIn /\ v.told = u.told /\ v.turn = u.turn /\ v.m = u.m
         /\ v.steerQ = <<>> /\ v.noticeQ = <<>> /\ v.notes = N
         /\ v.pending = u.pending /\ v.news = u.news /\ v.adopted = u.adopted
         /\ v.ended = u.ended /\ v.cancelled = C /\ v.cancelling = "waiting"
         /\ v.parked = TRUE /\ v.muted = M /\ v.userStop = U
         /\ v.steerable = FALSE /\ v.promised = u.promised
         /\ v.begun = u.begun /\ v.known = K /\ v.hushed = TRUE /\ v.how = u.how
    BY <2>3, <2>11 DEF Session
  <2>15. Typed(v) /\ Exits(v, q) /\ Inbox(v, q) /\ Sent(v, q)
    BY <2>2, <2>13, <2>14 DEF Good, Typed, Exits, Inbox, Sent, Owes
  <2>16. Elements(<<>>) = {} /\ Distinct(<<>>)
    BY DEF Elements, Distinct
  <2>17. Boundary(v) /\ Apart(v, q, {})
    BY <2>2, <2>14, <2>16 DEF Good, Boundary, Waiting, Apart
  <2>18. Open(u)
    BY <1>3, <2>2 DEF Still, Open
  <2>19. Landing(v, {})
    BY <2>2, <2>10, <2>14, <2>16, <2>18 DEF Good, Landing, Open, Cancelling
  <2>20. InTurn(v, q)
    BY <2>2, <2>9, <2>14, <2>18 DEF Good, InTurn, Open
  <2>21. Parks(v)
    BY <2>2, <2>6, <2>7, <2>14 DEF Good, Parks
  <2>22. Cancelling(v)
    BY <2>14 DEF Cancelling
  <2> QED
    BY <2>1, <2>2, <2>14, <2>15, <2>17, <2>19, <2>20, <2>21, <2>22 DEF Good, Still
<1> QED
  BY <1>1, <1>2, <1>3

\* Nothing that talks to the provider is left of the turn, and the calls that
\* still run are jobs.
NothingOut(q) ==
  /\ ~(req.at = "provider" \/ (req.at = "answered" /\ req.calls # {}))
  /\ ~Has(q, "response")
Quits(w, q, how) ==
  /\ NothingOut(q)
  /\ (how = "error" /\ deaths # 0) \/ w.m.outstanding \subseteq w.adopted \cup w.cancelled

Closed(w, how, W) == [Done(w, how) EXCEPT !.cancelling = "no", !.waits = W]

LEMMA DoneGood ==
  ASSUME NEW w, NEW q \in Seq(Message), Good(w, q, {}), NEW W \in SUBSET Calls,
         NEW how \in {"done", "running", "error", "cancel"},
         \/ how = "cancel" /\ Cancelling(w)
         \/ ~Cancelling(w) /\ w.steerIn = <<>> /\ Quits(w, q, how)
  PROVE  LET v == Closed(w, how, W)
         IN /\ Good(v, q, {}) /\ ~Open(v) /\ ~Cancelling(v) /\ v.m = w.m /\ v.how = how
            /\ v.inputs = w.inputs /\ v.adopted = w.adopted /\ v.ended = w.ended
            /\ v.steerIn = w.steerIn /\ v.steerQ = w.steerQ
            /\ v.cancelled = w.cancelled /\ v.unobserved = w.unobserved
<1> DEFINE fn == w.finished \cup ({w.turn} \cap (Lines \cup Steers))
           v == [Done(w, how) EXCEPT !.cancelling = "no", !.waits = W]
<1>0. w \in Session /\ fn \in SUBSET (Lines \cup Steers)
  BY DEF Good, Typed, Session
<1>1. Done(w, how) = [w EXCEPT !.turn = NoTurn, !.finished = fn, !.steerable = FALSE,
                               !.settle = "off", !.how = how]
  BY DEF Done
<1> HIDE DEF fn
<1>2. v = [w EXCEPT !.turn = NoTurn, !.finished = fn, !.steerable = FALSE,
                    !.settle = "off", !.how = how, !.cancelling = "no", !.waits = W]
  BY <1>1
<1>3. [w EXCEPT !.turn = NoTurn, !.finished = fn, !.steerable = FALSE,
                !.settle = "off", !.how = how, !.cancelling = "no", !.waits = W] \in Session
  <2>0. NoTurn \in Turns \cup {NoTurn} /\ w \in Session /\ fn \in SUBSET (Lines \cup Steers)
    BY <1>0
  <2> DEFINE a == [w EXCEPT !.turn = NoTurn, !.finished = fn, !.steerable = FALSE]
             b == [a EXCEPT !.settle = "off", !.how = how]
  <2>1. a \in Session
    <3> DEFINE x == [w EXCEPT !.turn = NoTurn]
    <3>1. x \in Session
      BY ZenonT(60),<2>0 DEF Session
    <3> HIDE DEF x
    <3>2. [x EXCEPT !.finished = fn, !.steerable = FALSE] \in Session
      BY ZenonT(60),<2>0, <3>1 DEF Session
    <3> QED
      BY <3>2 DEF x
  <2> HIDE DEF a
  <2>2. b \in Session
    <3>1. how \in Endings
      BY DEF Endings
    <3> DEFINE x == [a EXCEPT !.settle = "off"]
    <3>2. x \in Session
      BY ZenonT(60),<2>1 DEF Session
    <3> HIDE DEF x
    <3>3. [x EXCEPT !.how = how] \in Session
      BY ZenonT(60),<3>1, <3>2 DEF Session
    <3> QED
      BY <3>3 DEF x
  <2> HIDE DEF b
  <2>3. [b EXCEPT !.cancelling = "no", !.waits = W] \in Session
    BY ZenonT(60),<2>2 DEF Session
  <2> QED
    BY <2>3 DEF a, b
<1>4. v \in Session
  BY <1>2, <1>3
<1> HIDE DEF v
<1>5. /\ v.unobserved = w.unobserved /\ v.run = w.run /\ v.alive = w.alive
      /\ v.inbox = w.inbox /\ v.restart = w.restart /\ v.inputs = w.inputs
      /\ v.steerIn = w.steerIn /\ v.told = w.told /\ v.turn = NoTurn /\ v.m = w.m
      /\ v.steerQ = w.steerQ /\ v.noticeQ = w.noticeQ /\ v.notes = w.notes
      /\ v.pending = w.pending /\ v.news = w.news /\ v.adopted = w.adopted
      /\ v.ended = w.ended /\ v.cancelled = w.cancelled /\ v.cancelling = "no"
      /\ v.parked = w.parked /\ v.muted = w.muted /\ v.userStop = w.userStop
      /\ v.steerable = FALSE /\ v.promised = w.promised
      /\ v.begun = w.begun /\ v.known = w.known /\ v.hushed = w.hushed /\ v.how = how
  BY <1>0, <1>2 DEF Session
<1>6. Typed(v) /\ Exits(v, q) /\ Inbox(v, q) /\ Sent(v, q)
  BY <1>4, <1>5 DEF Good, Typed, Exits, Inbox, Sent, Owes
<1>7. Boundary(v) /\ Apart(v, q, {})
  BY <1>5 DEF Good, Boundary, Waiting, Apart
<1>8. w.promised \cap Elements(w.steerIn) = {}
  BY DEF Good, Landing, Elements
<1>9. Landing(v, {})
  BY <1>5, <1>8 DEF Good, Landing, Open, Cancelling
<1>10. InTurn(v, q)
  BY <1>5 DEF Good, InTurn, Open, Quits, NothingOut, Has
<1>11. Parks(v)
  BY <1>5 DEF Good, Parks
<1> QED
  BY <1>5, <1>6, <1>7, <1>9, <1>10, <1>11 DEF Good, Open, Cancelling, v, Closed

LEMMA Out ==
  ASSUME NEW m, NEW q, Lags(m, q), ~m.inflight
  PROVE  NothingOut(q)
<1>1. ~Has(q, "response")
  BY DEF Lags, Answers
<1>2. req.at # "none" => Has(q, "turn")
  BY <1>1 DEF Lags, Answers
<1>3. req.at \in {"none", "called", "barrier"}
  BY <1>2 DEF Lags, Answers
<1> QED
  BY <1>1, <1>3 DEF NothingOut

LEMMA CheckCancelGood ==
  ASSUME NEW w, NEW q \in Seq(Message), Good(w, q, {}), Cancelling(w)
  PROVE  LET v == CheckCancel(w)
         IN /\ Good(v, q, {}) /\ v.m = w.m /\ v.inputs \subseteq w.inputs \cup News
            /\ \/ Cancelling(v) /\ Still(v, w)
               \/ ~Cancelling(v) /\ v.how = "cancel" /\ (Open(v) => v.unobserved # {})
            /\ v.unobserved = {} => w.unobserved = {}
<1> DEFINE W == {}
           c == [Done(w, "cancel") EXCEPT !.cancelling = "no", !.waits = W]
           n == [c EXCEPT !.noticeWaits = FALSE]
           h == "cancel"
<1>1. W \in SUBSET Calls /\ h \in {"done", "running", "error", "cancel"} /\ h = "cancel"
  OBVIOUS
<1> HIDE DEF W
<1>2. LET v == Closed(w, h, W)
      IN /\ Good(v, q, {}) /\ ~Open(v) /\ ~Cancelling(v) /\ v.m = w.m /\ v.how = h
         /\ v.inputs = w.inputs /\ v.adopted = w.adopted /\ v.ended = w.ended
         /\ v.steerIn = w.steerIn /\ v.steerQ = w.steerQ
         /\ v.cancelled = w.cancelled /\ v.unobserved = w.unobserved
  <2> HIDE DEF h
  <2> QED
    BY <1>1, DoneGood
<1>3. /\ Good(c, q, {}) /\ ~Open(c) /\ ~Cancelling(c) /\ c.m = w.m /\ c.how = "cancel"
      /\ c.inputs = w.inputs /\ c.unobserved = w.unobserved
  BY <1>2 DEF Closed
<1>4. CheckCancel(w) = IF w.cancelling # "deadline"
                          /\ (w.m.inflight \/ w.waits \cap w.m.outstanding # {})
                         THEN w ELSE IF w.noticeWaits THEN Notice(n) ELSE c
  BY DEF CheckCancel, W
<1> HIDE DEF c
<1>5. Good(n, q, {}) /\ Still(n, c) /\ n.inputs = c.inputs
  <2>1. c \in Session
    BY <1>3 DEF Good, Typed
  <2>2. n \in Session /\ Alike(n, c)
    BY ZenonT(60),<2>1 DEF Session, Alike
  <2> HIDE DEF n
  <2> QED
    BY <1>3, <2>2, AlikeGood DEF Alike
<1> HIDE DEF n
<1>6. LET v == Notice(n)
      IN /\ Good(v, q, {}) /\ v.m = n.m /\ v.how = n.how /\ v.cancelling = n.cancelling
         /\ v.inputs \subseteq n.inputs \cup News
         /\ Still(v, n) \/ (~Open(n) /\ Open(v) /\ v.unobserved # {})
  BY <1>5, NoticeGood
<1>7. CASE CheckCancel(w) = w
  BY <1>7 DEF Still
<1>8. CASE CheckCancel(w) = c
  BY <1>3, <1>8
<1>9. CASE CheckCancel(w) = Notice(n)
  BY <1>3, <1>5, <1>6, <1>9 DEF Still, Open, Cancelling
<1> QED
  BY <1>4, <1>7, <1>8, <1>9

LEMMA AdoptGood ==
  ASSUME NEW w, NEW q, NEW h, Good(w, q, h), NEW C \in SUBSET w.m.outstanding,
         w.m.outstanding \cap (w.m.reasons \cup w.m.turnReasons) = {}
  PROVE  LET v == Adopt(w, C)
         IN /\ Good(v, q, h) /\ v.adopted = w.adopted \cup C /\ v \in Session
            /\ v.m = w.m /\ v.turn = w.turn /\ v.cancelling = w.cancelling
            /\ v.how = w.how /\ v.cancelled = w.cancelled /\ v.ended = w.ended
            /\ v.unobserved = w.unobserved /\ v.steerIn = w.steerIn /\ v.inputs = w.inputs
            /\ v.steerQ = w.steerQ
            /\ v.parked = w.parked /\ v.muted = w.muted /\ v.turnCalls = w.turnCalls
<1> DEFINE A == w.adopted \cup C
           v == [w EXCEPT !.adopted = A]
<1>0. w \in Session
  BY DEF Good, Typed
<1>1. A \in SUBSET Calls
  BY <1>0 DEF Session, MirrorOf
<1>2. A \cap (w.m.reasons \cup w.m.turnReasons) \subseteq w.ended /\ w.ended \subseteq A
  BY DEF Good, Parks
<1>3. w.adopted \subseteq A
  OBVIOUS
<1>a. Adopt(w, C) = v
  BY DEF Adopt
<1>b. A = w.adopted \cup C
  OBVIOUS
<1> HIDE DEF A
<1>4. v \in Session
  BY ZenonT(60),<1>0, <1>1 DEF Session
<1>5. /\ v.unobserved = w.unobserved /\ v.run = w.run /\ v.alive = w.alive
      /\ v.inbox = w.inbox /\ v.restart = w.restart /\ v.inputs = w.inputs
      /\ v.steerIn = w.steerIn /\ v.told = w.told /\ v.turn = w.turn /\ v.m = w.m
      /\ v.steerQ = w.steerQ /\ v.noticeQ = w.noticeQ /\ v.notes = w.notes
      /\ v.pending = w.pending /\ v.news = w.news /\ v.adopted = A
      /\ v.ended = w.ended /\ v.cancelled = w.cancelled /\ v.cancelling = w.cancelling
      /\ v.parked = w.parked /\ v.muted = w.muted /\ v.userStop = w.userStop
      /\ v.steerable = w.steerable /\ v.promised = w.promised
      /\ v.begun = w.begun /\ v.known = w.known /\ v.hushed = w.hushed /\ v.how = w.how
      /\ v.turnCalls = w.turnCalls
  BY <1>0 DEF Session
<1> HIDE DEF v
<1>6. Typed(v) /\ Exits(v, q) /\ Inbox(v, q) /\ Sent(v, q)
  BY <1>4, <1>5 DEF Good, Typed, Exits, Inbox, Sent, Owes
<1>7. Boundary(v) /\ Apart(v, q, h)
  BY <1>5 DEF Good, Boundary, Waiting, Apart
<1>8. Landing(v, h)
  BY <1>5 DEF Good, Landing, Open, Cancelling
<1>9. InTurn(v, q)
  BY <1>3, <1>5 DEF Good, InTurn, Open
<1>10. Parks(v)
  BY <1>2, <1>5 DEF Good, Parks
<1> QED
  BY <1>a, <1>b, <1>4, <1>5, <1>6, <1>7, <1>8, <1>9, <1>10 DEF Good

\* A turn goes on, with what it was about.
Stays(v, w) ==
  /\ v.m = w.m /\ v.turn = w.turn /\ v.cancelling = w.cancelling /\ v.how = w.how
  /\ v.cancelled = w.cancelled /\ v.ended = w.ended
  /\ w.adopted \subseteq v.adopted /\ w.unobserved \subseteq v.unobserved

\* The turn is closed.
Shut(v, w, how) ==
  /\ v.m = w.m /\ ~Open(v) /\ ~Cancelling(v) /\ v.how = how
  /\ v.steerIn = <<>> /\ v.steerQ = w.steerQ /\ v.ended = w.ended
  /\ w.unobserved \subseteq v.unobserved

LEMMA CloseTurnGood ==
  ASSUME NEW w, NEW q \in Seq(Message), Good(w, q, {}), ~Cancelling(w),
         NEW how \in {"done", "running", "error"},
         w.steerIn # <<>> \/ Quits(w, q, how),
         NEW nudge, nudge = <<>> \/ \E n \in Nudges \ w.inputs : nudge = <<n>>
  PROVE  LET v == CloseTurn(w, nudge, how)
         IN Good(v, q, {}) /\ (Still(v, w) \/ (Shut(v, w, how) /\ v.adopted = w.adopted))
<1>0. w \in Session
  BY DEF Good, Typed
<1>1. CASE w.steerIn # <<>>
  <2>1. CloseTurn(w, nudge, how) = LandQueued(w)
    BY <1>1 DEF CloseTurn
  <2>2. Good(LandQueued(w), q, {}) /\ Still(LandQueued(w), w)
    BY LandQueuedGood
  <2> QED
    BY <2>1, <2>2
<1>2. CASE w.steerIn = <<>> /\ how = "done" /\ nudge # <<>> /\ ~w.stopUsed
  <2> DEFINE u == [w EXCEPT !.stopUsed = TRUE]
  <2>1. PICK n \in Nudges \ w.inputs : nudge = <<n>>
    BY <1>2
  <2>2. CloseTurn(w, nudge, how) = Send(u, <<n>>)
    BY <1>2, <2>1 DEF CloseTurn
  <2>3. u \in Session /\ Alike(u, w) /\ n \in Inputs
    BY ZenonT(60),<1>0 DEF Session, Alike, Inputs
  <2> HIDE DEF u
  <2>4. Good(u, q, {}) /\ Still(u, w)
    BY <2>3, AlikeGood
  <2>5. Apart(u, q, {n}) /\ Landing(u, {n})
    <3>1. Elements(u.pending) \subseteq Lines \cup Steers /\ Elements(u.steerIn) \subseteq Steers
          /\ u.news \subseteq News /\ u.promised \subseteq Steers /\ u.inputs = w.inputs
      BY <2>3, ElementsIn DEF Session, Alike
    <3>2. n \in Nudges /\ n \notin u.inputs /\ n \in Said
      BY <3>1 DEF Said
    <3>3. n \notin u.promised \cup Elements(u.pending) \cup Elements(u.steerIn) \cup u.news
                     \cup Submits(q)
      BY <3>1, <3>2, QueueTyped, IdsAssumption
    <3>4. Apart(u, q, {n})
      BY <2>4, <3>2, <3>3 DEF Good, Apart
    <3>5. Landing(u, {n})
      BY <2>4, <3>3 DEF Good, Landing
    <3> QED
      BY <3>4, <3>5
  <2>6. Good(u, q, {n})
    BY <2>4, <2>5 DEF Good
  <2>7. LET v == Send(u, <<n>>) IN Good(v, q, {}) /\ Still(v, u)
    BY <2>3, <2>6, SendGood
  <2> QED
    BY <2>2, <2>4, <2>7 DEF Still
<1>3. CASE w.steerIn = <<>> /\ ~(how = "done" /\ nudge # <<>> /\ ~w.stopUsed)
  <2> DEFINE W == w.waits
             v == Closed(w, how, W)
  <2>1. CloseTurn(w, nudge, how) = Done(w, how)
    BY <1>3 DEF CloseTurn
  <2>2. W \in SUBSET Calls /\ w.cancelling = "no"
    BY <1>0 DEF Session, Cancelling
  <2>3. Done(w, how) = v
    BY <1>0, <2>2 DEF Session, Closed, Done
  <2> HIDE DEF W
  <2>4. /\ Good(v, q, {}) /\ ~Open(v) /\ ~Cancelling(v) /\ v.m = w.m /\ v.how = how
        /\ v.inputs = w.inputs /\ v.adopted = w.adopted /\ v.ended = w.ended
        /\ v.steerIn = w.steerIn /\ v.steerQ = w.steerQ
        /\ v.cancelled = w.cancelled /\ v.unobserved = w.unobserved
    BY <1>3, <2>2, DoneGood
  <2> HIDE DEF v
  <2> QED
    BY <1>3, <2>1, <2>3, <2>4 DEF Shut
<1> QED
  BY <1>1, <1>2, <1>3

\* settleFired: what still runs has become a job when the turn is closed.
LEMMA SettleFiredGood ==
  ASSUME NEW w, NEW q \in Seq(Message), Good(w, q, {}), Lags(w.m, q)
  PROVE  LET v == SettleFired(w)
         IN Good(v, q, {}) /\ (Still(v, w) \/ Shut(v, w, "running"))
<1> DEFINE off == [w EXCEPT !.settle = "off"]
           fg == Foreground(w)
           a == Adopt(off, fg)
<1>0. w \in Session
  BY DEF Good, Typed
<1>1. off \in Session /\ Alike(off, w)
  BY ZenonT(60),<1>0 DEF Session, Alike
<1>2. CASE w.settle # "fired" \/ ~Open(w) \/ Cancelling(w) \/ ~Quiescent(w)
  <2>1. SettleFired(w) = w
    BY <1>2 DEF SettleFired
  <2> QED
    BY <2>1 DEF Still
<1>3. CASE ~(w.settle # "fired" \/ ~Open(w) \/ Cancelling(w) \/ ~Quiescent(w))
  <2>1. SettleFired(w) = IF fg = {} \/ fg \cap Asks # {} THEN off
                         ELSE IF w.steerIn # <<>> THEN LandQueued(off)
                         ELSE CloseTurn(a, <<>>, "running")
    BY <1>3 DEF SettleFired
  <2>2. fg \subseteq w.m.outstanding
    BY DEF Foreground
  <2>3. w.m.outstanding \subseteq fg \cup w.adopted \cup w.cancelled
    BY DEF Foreground
  <2> HIDE DEF off, fg
  <2>4. Good(off, q, {}) /\ Still(off, w)
    BY <1>1, AlikeGood
  <2>5. CASE SettleFired(w) = off
    BY <2>4, <2>5
  <2>6. CASE SettleFired(w) = LandQueued(off)
    <3>1. Good(LandQueued(off), q, {}) /\ Still(LandQueued(off), off)
      BY <2>4, LandQueuedGood
    <3> QED
      BY <2>4, <2>6, <3>1 DEF Still
  <2>7. CASE SettleFired(w) = CloseTurn(a, <<>>, "running") /\ w.steerIn = <<>>
    <3>1. fg \in SUBSET off.m.outstanding
          /\ off.m.outstanding \cap (off.m.reasons \cup off.m.turnReasons) = {}
      BY <1>1, <2>2 DEF Alike, Lags, CallsOnce
    <3>2. /\ Good(a, q, {}) /\ a.adopted = off.adopted \cup fg /\ a \in Session
          /\ a.m = off.m /\ a.turn = off.turn /\ a.cancelling = off.cancelling
          /\ a.how = off.how /\ a.cancelled = off.cancelled /\ a.ended = off.ended
          /\ a.unobserved = off.unobserved /\ a.steerIn = off.steerIn
          /\ a.steerQ = off.steerQ
      BY <2>4, <3>1, AdoptGood
    <3> HIDE DEF a
    <3>3. ~Cancelling(a)
      BY <1>1, <1>3, <3>2 DEF Alike, Cancelling
    <3>4. NothingOut(q)
      <4>1. ~w.m.inflight
        BY <1>3 DEF Quiescent
      <4> QED
        BY <4>1, Out
    <3>5. Quits(a, q, "running")
      BY <1>1, <2>3, <3>2, <3>4 DEF Alike, Quits
    <3>6. LET v == CloseTurn(a, <<>>, "running")
          IN Good(v, q, {}) /\ (Still(v, a) \/ (Shut(v, a, "running") /\ v.adopted = a.adopted))
      BY <3>2, <3>3, <3>5, CloseTurnGood
    <3>7. a.steerIn = <<>>
      BY <1>1, <2>7, <3>2 DEF Alike
    <3>8. CloseTurn(a, <<>>, "running") = Done(a, "running")
      BY <3>7 DEF CloseTurn
    <3>9. Done(a, "running").turn = NoTurn
      BY <3>2 DEF Done, Session
    <3>10. Open(a)
      BY <1>1, <1>3, <3>2 DEF Open, Alike
    <3>11. ~Still(CloseTurn(a, <<>>, "running"), a)
      BY <3>8, <3>9, <3>10 DEF Still, Open
    <3> QED
      BY <1>1, <2>7, <3>2, <3>6, <3>11 DEF Shut, Alike
  <2> QED
    BY <2>1, <2>5, <2>6, <2>7
<1> QED
  BY <1>2, <1>3

\* providerError: the calls that still run are jobs of a turn that failed.
LEMMA ProviderErrorGood ==
  ASSUME NEW w, NEW q \in Seq(Message), Good(w, q, {}), Lags(w.m, q), ~w.m.inflight
  PROVE  LET v == ProviderError(w)
         IN Good(v, q, {}) /\ (Stays(v, w) \/ Shut(v, w, "error"))
<1> DEFINE fg == Foreground(w)
           a == Adopt(w, fg)
           M == w.muted \cup w.turnCalls
           p == [a EXCEPT !.parked = TRUE, !.muted = M]
<1>0. w \in Session
  BY DEF Good, Typed
<1>1. CASE ~Open(w) \/ Cancelling(w)
  <2>1. ProviderError(w) = w
    BY <1>1 DEF ProviderError
  <2> QED
    BY <2>1 DEF Stays
<1>2. CASE ~(~Open(w) \/ Cancelling(w)) /\ fg \cap Asks # {}
  <2>1. ProviderError(w) = Flush(w)
    BY <1>2 DEF ProviderError
  <2>2. Good(Flush(w), q, {}) /\ Still(Flush(w), w)
    BY FlushGood
  <2> QED
    BY <2>1, <2>2 DEF Still, Stays
<1>3. CASE ~(~Open(w) \/ Cancelling(w)) /\ ~(fg \cap Asks # {})
  <2>1. ProviderError(w) = CloseTurn(p, <<>>, "error")
    BY <1>3 DEF ProviderError
  <2>2. fg \in SUBSET w.m.outstanding /\ w.m.outstanding \subseteq fg \cup w.adopted \cup w.cancelled
    BY DEF Foreground
  <2>3. w.m.outstanding \cap (w.m.reasons \cup w.m.turnReasons) = {}
    BY DEF Lags, CallsOnce
  <2> HIDE DEF fg
  <2>4. /\ Good(a, q, {}) /\ a.adopted = w.adopted \cup fg /\ a \in Session
        /\ a.m = w.m /\ a.turn = w.turn /\ a.cancelling = w.cancelling
        /\ a.how = w.how /\ a.cancelled = w.cancelled /\ a.ended = w.ended
        /\ a.unobserved = w.unobserved /\ a.steerIn = w.steerIn /\ a.inputs = w.inputs
        /\ a.muted = w.muted /\ a.steerQ = w.steerQ
    BY <2>2, <2>3, AdoptGood
  <2> HIDE DEF a
  <2>5. M \in SUBSET (Inputs \cup Calls) /\ a.muted \subseteq M
    BY <1>0, <2>4 DEF Session
  <2> HIDE DEF M
  <2>6. p \in Session
    BY ZenonT(60),<2>4, <2>5 DEF Session
  <2>7. /\ p.unobserved = a.unobserved /\ p.run = a.run /\ p.alive = a.alive
        /\ p.inbox = a.inbox /\ p.restart = a.restart /\ p.inputs = a.inputs
        /\ p.steerIn = a.steerIn /\ p.told = a.told /\ p.turn = a.turn /\ p.m = a.m
        /\ p.steerQ = a.steerQ /\ p.noticeQ = a.noticeQ /\ p.notes = a.notes
        /\ p.pending = a.pending /\ p.news = a.news /\ p.adopted = a.adopted
        /\ p.ended = a.ended /\ p.cancelled = a.cancelled /\ p.cancelling = a.cancelling
        /\ p.parked = TRUE /\ p.muted = M /\ p.userStop = a.userStop
        /\ p.steerable = a.steerable /\ p.promised = a.promised
        /\ p.begun = a.begun /\ p.known = a.known /\ p.hushed = a.hushed /\ p.how = a.how
    BY <2>4 DEF Session
  <2> HIDE DEF p
  <2>8. Typed(p) /\ Exits(p, q) /\ Inbox(p, q) /\ Sent(p, q)
    BY <2>4, <2>6, <2>7 DEF Good, Typed, Exits, Inbox, Sent, Owes
  <2>9. Boundary(p) /\ Apart(p, q, {}) /\ Landing(p, {})
    BY <2>4, <2>7 DEF Good, Boundary, Waiting, Apart, Landing, Open, Cancelling
  <2>10. InTurn(p, q)
    BY <2>4, <2>7 DEF Good, InTurn, Open
  <2>11. Parks(p)
    BY <2>4, <2>5, <2>7 DEF Good, Parks
  <2>12. Good(p, q, {})
    BY <2>8, <2>9, <2>10, <2>11 DEF Good
  <2>13. ~Cancelling(p)
    BY <1>3, <2>4, <2>7 DEF Cancelling
  <2>14. Quits(p, q, "error")
    BY <2>2, <2>4, <2>7, Out DEF Quits
  <2>15. LET v == CloseTurn(p, <<>>, "error")
         IN Good(v, q, {}) /\ (Still(v, p) \/ (Shut(v, p, "error") /\ v.adopted = p.adopted))
    BY <2>12, <2>13, <2>14, CloseTurnGood
  <2> QED
    BY <2>1, <2>4, <2>7, <2>15 DEF Shut, Still, Stays
<1> QED
  BY <1>1, <1>2, <1>3

LEMMA ResponseGood ==
  ASSUME NEW w, NEW q \in Seq(Message), Good(w, q, {}), Lags(w.m, q), ~w.m.inflight,
         NEW how, NEW calls \in SUBSET Calls
  PROVE  LET v == Response(w, how, calls)
         IN Good(v, q, {}) /\ (Stays(v, w) \/ Shut(v, w, "error"))
<1> DEFINE T == w.turnCalls \cup calls
           t == [w EXCEPT !.turnCalls = T]
<1>0. w \in Session
  BY DEF Good, Typed
<1>1. CASE how = "muted"
  <2>1. Response(w, how, calls) = w
    BY <1>1 DEF Response
  <2> QED
    BY <2>1 DEF Stays
<1>2. CASE how = "error"
  <2>1. Response(w, how, calls) = ProviderError(w)
    BY <1>2 DEF Response
  <2> QED
    BY <2>1, ProviderErrorGood
<1>3. CASE how # "muted" /\ how # "error"
  <2>1. Response(w, how, calls) = Flush(t)
    BY <1>3 DEF Response
  <2>2. T \in SUBSET Calls
    BY <1>0 DEF Session
  <2> HIDE DEF T
  <2>3. t \in Session /\ Alike(t, w)
    BY ZenonT(60),<1>0, <2>2 DEF Session, Alike
  <2> HIDE DEF t
  <2>4. Good(t, q, {}) /\ Still(t, w)
    BY <2>3, AlikeGood
  <2>5. Good(Flush(t), q, {}) /\ Still(Flush(t), t)
    BY <2>4, FlushGood
  <2> QED
    BY <2>1, <2>4, <2>5 DEF Still, Stays
<1> QED
  BY <1>1, <1>2, <1>3

LEMMA JudgeGood ==
  ASSUME NEW w, NEW q \in Seq(Message), Good(w, q, {}), Lags(w.m, q),
         Open(w), ~Cancelling(w),
         NEW nudge, nudge = <<>> \/ \E n \in Nudges \ w.inputs : nudge = <<n>>
  PROVE  LET v == Judge(w, nudge)
         IN /\ Good(v, q, {})
            /\ \/ Still(v, w)
               \/ /\ Shut(v, w, "done") /\ Quiescent(w) /\ Foreground(w) = {}
                  /\ v.adopted = w.adopted
<1> DEFINE off == [w EXCEPT !.settle = "off"]
           arm == [w EXCEPT !.settle = "armed"]
           fg == Foreground(w)
<1>0. w \in Session
  BY DEF Good, Typed
<1>1. off \in Session /\ Alike(off, w) /\ arm \in Session /\ Alike(arm, w)
  BY ZenonT(60),<1>0 DEF Session, Alike
<1>2. Judge(w, nudge) \in {off, arm, w}
      \/ (Quiescent(w) /\ fg = {} /\ Judge(w, nudge) = CloseTurn(off, nudge, "done"))
  BY DEF Judge
<1> HIDE DEF off, arm
<1>3. Good(off, q, {}) /\ Still(off, w) /\ Good(arm, q, {}) /\ Still(arm, w)
  BY <1>1, AlikeGood
<1>4. CASE Judge(w, nudge) \in {off, arm, w}
  BY <1>3, <1>4 DEF Still
<1>5. CASE Quiescent(w) /\ fg = {} /\ Judge(w, nudge) = CloseTurn(off, nudge, "done")
  <2>1. NothingOut(q)
    BY <1>5, Out DEF Quiescent
  <2>2. Quits(off, q, "done") /\ ~Cancelling(off) /\ off.inputs = w.inputs
    BY <1>1, <1>5, <2>1 DEF Quits, Foreground, Alike, Cancelling
  <2>3. LET v == CloseTurn(off, nudge, "done")
        IN Good(v, q, {}) /\ (Still(v, off) \/ (Shut(v, off, "done") /\ v.adopted = off.adopted))
    BY <1>3, <2>2, CloseTurnGood
  <2> QED
    BY <1>1, <1>3, <1>5, <2>3 DEF Shut, Still, Alike
<1> QED
  BY <1>2, <1>4, <1>5

\* submit: the line waits for the turn that is open, is blocked, or opens one.
LEMMA SubmitGood ==
  ASSUME NEW w, NEW q \in Seq(Message), NEW l \in Lines \cup Steers, Good(w, q, {l})
  PROVE  LET v == Submit(w, l)
         IN /\ Good(v, q, {}) /\ v.m = w.m /\ v.how = w.how
            /\ Open(w) => Still(v, w)
            /\ w.adopted \subseteq v.adopted \cup w.ended
            /\ Still(v, w) \/ v.unobserved # {}
            /\ w.steerIn = <<>> /\ w.steerQ = <<>> => v.steerIn = <<>> /\ v.steerQ = <<>>
<1>0. w \in Session
  BY DEF Good, Typed
<1>1. CASE ~Ready \/ Open(w) \/ Cancelling(w)
  <2> DEFINE pd == Append(w.pending, l)
             v == [w EXCEPT !.pending = pd]
  <2>1. Submit(w, l) = v
    BY <1>1 DEF Submit
  <2>2. /\ pd \in Seq(Lines \cup Steers) /\ Elements(pd) = Elements(w.pending) \cup {l}
        /\ Distinct(pd)
    <3>1. w.pending \in Seq(Lines \cup Steers) /\ Distinct(w.pending)
          /\ l \notin Elements(w.pending)
      BY <1>0 DEF Session, Good, Apart
    <3> QED
      BY <3>1, ElementsAppend
  <2> HIDE DEF pd
  <2>3. v \in Session
    BY ZenonT(60),<1>0, <2>2 DEF Session
  <2>4. /\ v.unobserved = w.unobserved /\ v.run = w.run /\ v.alive = w.alive
        /\ v.inbox = w.inbox /\ v.restart = w.restart /\ v.inputs = w.inputs
        /\ v.steerIn = w.steerIn /\ v.told = w.told /\ v.turn = w.turn /\ v.m = w.m
        /\ v.steerQ = w.steerQ /\ v.noticeQ = w.noticeQ /\ v.notes = w.notes
        /\ v.pending = pd /\ v.news = w.news /\ v.adopted = w.adopted
        /\ v.ended = w.ended /\ v.cancelled = w.cancelled /\ v.cancelling = w.cancelling
        /\ v.parked = w.parked /\ v.muted = w.muted /\ v.userStop = w.userStop
        /\ v.steerable = w.steerable /\ v.promised = w.promised
        /\ v.begun = w.begun /\ v.known = w.known /\ v.hushed = w.hushed /\ v.how = w.how
    BY <1>0 DEF Session
  <2> HIDE DEF v
  <2>5. Typed(v) /\ Exits(v, q) /\ Inbox(v, q) /\ Sent(v, q) /\ Boundary(v)
    BY <2>3, <2>4 DEF Good, Typed, Exits, Inbox, Sent, Owes, Boundary, Waiting
  <2>6. Apart(v, q, {})
    BY <2>2, <2>4 DEF Good, Apart
  <2>7. Landing(v, {})
    BY <2>2, <2>4 DEF Good, Landing, Open, Cancelling
  <2>8. InTurn(v, q) /\ Parks(v)
    BY <2>4 DEF Good, InTurn, Parks, Open
  <2>9. Still(v, w)
    BY <2>4 DEF Still
  <2> QED
    BY <2>1, <2>4, <2>5, <2>6, <2>7, <2>8, <2>9 DEF Good, Still
<1>2. CASE ~(~Ready \/ Open(w) \/ Cancelling(w))
  <2> DEFINE x == [w EXCEPT !.cancelAt = FALSE, !.cancelOnReady = FALSE]
             t == StartTurn(x, l)
  <2>1. Submit(w, l) = IF w.cancelAt /\ Open(t) THEN CancelTurn(t) ELSE t
    BY <1>2 DEF Submit
  <2>2. x \in Session /\ Alike(x, w)
    BY ZenonT(60),<1>0 DEF Session, Alike
  <2> HIDE DEF x
  <2>3. Good(x, q, {l}) /\ Still(x, w)
    BY <2>2, AlikeGood
  <2>4. ~Open(x)
    BY <1>2, <2>3 DEF Still, Open
  <2>5. /\ Good(t, q, {}) /\ t.m = x.m /\ t.how = x.how
        /\ t.steerQ = x.steerQ /\ t.steerIn = x.steerIn
        /\ t.adopted \in {x.adopted, x.adopted \ x.ended}
        /\ (~Open(t) /\ Still(t, x)) \/ (Open(t) /\ ~Cancelling(t) /\ t.unobserved # {})
    BY <2>3, <2>4, StartTurnGood
  <2> HIDE DEF t
  <2>6. CASE ~Open(t)
    BY <1>2, <2>1, <2>2, <2>3, <2>5, <2>6 DEF Still, Alike
  <2>7. CASE Open(t)
    <3> DEFINE v == CancelTurn(t)
    <3>1. /\ Good(v, q, {}) /\ v.m = t.m /\ v.how = t.how /\ v.turn = t.turn
          /\ v.adopted = t.adopted /\ v.ended = t.ended /\ t.unobserved \subseteq v.unobserved
          /\ t.steerIn = <<>> => v.steerIn = <<>> /\ v.steerQ \in {t.steerQ, <<>>}
      BY <2>5, CancelTurnGood
    <3> HIDE DEF v
    <3>2. Submit(w, l) \in {v, t}
      BY <2>1 DEF v
    <3> QED
      BY <1>2, <2>2, <2>3, <2>5, <2>7, <3>1, <3>2 DEF Still, Alike
  <2> QED
    BY <2>6, <2>7
<1> QED
  BY <1>1, <1>2

\* landSteers: the steer lands in the open turn, or is a line of its own.
LEMMA LandSteersGood ==
  ASSUME NEW w, NEW q \in Seq(Message), Good(w, q, {})
  PROVE  LET v == LandSteers(w)
         IN /\ Good(v, q, {}) /\ v.m = w.m
            /\ Open(w) => Still(v, w)
            /\ w.unobserved = {} \/ v.unobserved # {}
<1> DEFINE x == [w EXCEPT !.steerIn = <<>>]
           l == Head(w.steerIn)
<1>0. w \in Session /\ w.steerIn \in Seq(Steers) /\ Len(w.steerIn) <= 1
  BY DEF Good, Typed, Session
<1>1. CASE w.steerIn = <<>> \/ (Open(w) /\ ~Cancelling(w))
  <2>1. LandSteers(w) = LandQueued(w)
    BY <1>1 DEF LandSteers
  <2>2. Good(LandQueued(w), q, {}) /\ Still(LandQueued(w), w)
    BY LandQueuedGood
  <2> QED
    BY <2>1, <2>2 DEF Still
<1>2. CASE ~(w.steerIn = <<>> \/ (Open(w) /\ ~Cancelling(w)))
  <2>1. LandSteers(w) = Submit(x, l)
    BY <1>2 DEF LandSteers
  <2>2. l \in Steers /\ Elements(w.steerIn) = {l}
    BY <1>0, <1>2 DEF Elements
  <2> HIDE DEF l
  <2>3. Elements(<<>>) = {} /\ Distinct(<<>>) /\ <<>> \in Seq(Steers)
    BY DEF Elements, Distinct
  <2>4. x \in Session
    BY ZenonT(60),<1>0, <2>3 DEF Session
  <2>5. /\ x.unobserved = w.unobserved /\ x.run = w.run /\ x.alive = w.alive
        /\ x.inbox = w.inbox /\ x.restart = w.restart /\ x.inputs = w.inputs
        /\ x.steerIn = <<>> /\ x.told = w.told /\ x.turn = w.turn /\ x.m = w.m
        /\ x.steerQ = w.steerQ /\ x.noticeQ = w.noticeQ /\ x.notes = w.notes
        /\ x.pending = w.pending /\ x.news = w.news /\ x.adopted = w.adopted
        /\ x.ended = w.ended /\ x.cancelled = w.cancelled /\ x.cancelling = w.cancelling
        /\ x.parked = w.parked /\ x.muted = w.muted /\ x.userStop = w.userStop
        /\ x.steerable = w.steerable /\ x.promised = w.promised
        /\ x.begun = w.begun /\ x.known = w.known /\ x.hushed = w.hushed /\ x.how = w.how
    BY <1>0 DEF Session
  <2> HIDE DEF x
  <2>6. Typed(x) /\ Exits(x, q) /\ Inbox(x, q) /\ Sent(x, q) /\ Boundary(x)
    BY <2>4, <2>5 DEF Good, Typed, Exits, Inbox, Sent, Owes, Boundary, Waiting
  <2>7. l \notin w.promised
    BY <1>2, <2>2 DEF Good, Landing
  <2>8. l \notin w.news /\ l \notin Submits(q)
    BY <1>0, <2>2, QueueTyped, IdsAssumption DEF Session
  <2>9. Apart(x, q, {l})
    BY <2>2, <2>3, <2>5, <2>8 DEF Good, Apart
  <2>10. Landing(x, {l})
    BY <2>2, <2>3, <2>5, <2>7 DEF Good, Landing, Open, Cancelling
  <2>11. InTurn(x, q) /\ Parks(x) /\ Still(x, w)
    BY <2>5 DEF Good, InTurn, Parks, Open, Still
  <2>12. Good(x, q, {l})
    BY <2>6, <2>9, <2>10, <2>11 DEF Good
  <2>13. /\ Good(Submit(x, l), q, {}) /\ Submit(x, l).m = x.m
         /\ Open(x) => Still(Submit(x, l), x)
         /\ Still(Submit(x, l), x) \/ Submit(x, l).unobserved # {}
    BY <2>2, <2>12, SubmitGood
  <2> QED
    BY <2>1, <2>5, <2>11, <2>13 DEF Still, Open
<1> QED
  BY <1>1, <1>2

-----------------------------------------------------------------------------
(* The end of every handler.                                               *)

LEMMA EnsureRunGood ==
  ASSUME NEW w, NEW q \in Seq(Message), Good(w, q, {})
  PROVE  LET v == EnsureRun(w) IN Good(v, q, {}) /\ Still(v, w)
<1> DEFINE v == EnsureRun(w)
           r == v.run
           a == v.alive
           st == v.stale
           b == v.inbox
<1>0. w \in Session /\ Typed(w) /\ Exits(w, q) /\ Inbox(w, q) /\ Sent(w, q)
  BY DEF Good, Typed
<1>1. /\ v = [w EXCEPT !.run = r, !.alive = a, !.stale = st, !.inbox = b]
      /\ Typed(v) /\ Exits(v, q) /\ Inbox(v, q) /\ Sent(v, q)
  BY <1>0, EnsureRunIs
<1> HIDE DEF v, r, a, st, b
<1>2. /\ v.inputs = w.inputs /\ v.steerIn = w.steerIn /\ v.told = w.told /\ v.turn = w.turn
      /\ v.m = w.m /\ v.unobserved = w.unobserved
      /\ v.steerQ = w.steerQ /\ v.noticeQ = w.noticeQ /\ v.notes = w.notes
      /\ v.pending = w.pending /\ v.news = w.news /\ v.adopted = w.adopted
      /\ v.ended = w.ended /\ v.cancelled = w.cancelled /\ v.cancelling = w.cancelling
      /\ v.parked = w.parked /\ v.muted = w.muted /\ v.userStop = w.userStop
      /\ v.steerable = w.steerable /\ v.promised = w.promised
      /\ v.begun = w.begun /\ v.known = w.known /\ v.hushed = w.hushed /\ v.how = w.how
  BY <1>0, <1>1 DEF Session
<1>3. Boundary(v) /\ Apart(v, q, {}) /\ Landing(v, {})
  BY <1>2 DEF Good, Boundary, Waiting, Apart, Landing, Open, Cancelling
<1>4. InTurn(v, q) /\ Parks(v) /\ Still(v, w)
  BY <1>2 DEF Good, InTurn, Open, Parks, Still
<1> QED
  BY <1>1, <1>3, <1>4 DEF Good, v

\* runExit: an open turn ends with its coordinator, or goes on with the next.
LEMMA RunExitGood ==
  ASSUME NEW w \in Session, NEW q \in Seq(Message),
         Good([w EXCEPT !.run = "none", !.restart = "no"], q, {}),
         NothingOut(q), w.run = "up" => deaths # 0
  PROVE  LET v == RunExit(w)
         IN /\ Good(v, q, {}) /\ v.m = w.m
            /\ \/ v.turn = w.turn /\ w.unobserved \subseteq v.unobserved
                  /\ v.cancelling = w.cancelling /\ v.cancelled = w.cancelled /\ v.ended = w.ended
                  /\ v.how = w.how
               \/ ~Open(v) /\ v.how = "error" /\ w.unobserved \subseteq v.unobserved
<1> DEFINE gone == [w EXCEPT !.run = "none", !.restart = "no"]
           ended == IF w.run = "up" /\ Open(w) /\ ~Cancelling(w)
                      THEN CloseTurn(gone, <<>>, "error") ELSE gone
           r == [ended EXCEPT !.rebuilds = 1]
<1>1. RunExit(w) \in {ended, EnsureRun(r)}
  BY DEF RunExit
<1>2. /\ gone.turn = w.turn /\ gone.cancelling = w.cancelling /\ gone.m = w.m
      /\ gone.unobserved = w.unobserved /\ gone.cancelled = w.cancelled
      /\ gone.ended = w.ended /\ gone.how = w.how
  BY DEF Session
<1>3. /\ Good(ended, q, {})
      /\ Still(ended, gone) \/ Shut(ended, gone, "error")
  <2>1. CASE w.run = "up" /\ Open(w) /\ ~Cancelling(w)
    <3> HIDE DEF gone
    <3>1. Good(gone, q, {}) /\ ~Cancelling(gone) /\ Quits(gone, q, "error")
      BY <1>2, <2>1 DEF Cancelling, Quits, gone
    <3>2. LET v == CloseTurn(gone, <<>>, "error")
          IN Good(v, q, {}) /\ (Still(v, gone) \/ (Shut(v, gone, "error") /\ v.adopted = gone.adopted))
      BY <3>1, CloseTurnGood
    <3> QED
      BY <2>1, <3>2
  <2>2. CASE ~(w.run = "up" /\ Open(w) /\ ~Cancelling(w))
    <3>1. ended = gone
      BY <2>2
    <3> QED
      BY <3>1 DEF Still
  <2> QED
    BY <2>1, <2>2
<1> HIDE DEF gone, ended
<1>4. r \in Session /\ Alike(r, ended)
  <2>1. ended \in Session
    BY <1>3 DEF Good, Typed
  <2> QED
    BY ZenonT(60),<2>1 DEF Session, Alike
<1> HIDE DEF r
<1>5. Good(r, q, {}) /\ Still(r, ended)
  BY <1>3, <1>4, AlikeGood
<1>6. Good(EnsureRun(r), q, {}) /\ Still(EnsureRun(r), r)
  BY <1>5, EnsureRunGood
<1>7. CASE RunExit(w) = ended
  BY <1>2, <1>3, <1>7 DEF Still, Shut
<1>8. CASE RunExit(w) = EnsureRun(r)
  BY <1>2, <1>3, <1>5, <1>6, <1>8 DEF Still, Shut, Open
<1> QED
  BY <1>1, <1>7, <1>8

LEMMA RestartGood ==
  ASSUME NEW w, NEW q \in Seq(Message), Good(w, q, {})
  PROVE  LET v == Restart(w)
         IN /\ Good(v, q, {}) /\ Still(v, w) /\ v.steerIn = w.steerIn /\ v.steerQ = w.steerQ
            /\ v.unobserved = w.unobserved
<1> DEFINE n == [w EXCEPT !.restart = "no"]
           u == [w EXCEPT !.run = "stopping"]
<1>0. w \in Session
  BY DEF Good, Typed
<1>1. Restart(w) \in {w, n} \/ (Restart(w) = u /\ w.restart = "due")
  BY DEF Restart
<1>a. n \in Session
  BY ZenonT(60),<1>0 DEF Session
<1>2. u \in Session
  BY ZenonT(60),<1>0 DEF Session
<1>3. /\ n.unobserved = w.unobserved /\ n.run = w.run /\ n.alive = w.alive /\ n.restart = "no"
      /\ n.inbox = w.inbox /\ n.inputs = w.inputs /\ n.steerIn = w.steerIn
      /\ n.told = w.told /\ n.turn = w.turn /\ n.m = w.m
      /\ n.steerQ = w.steerQ /\ n.noticeQ = w.noticeQ /\ n.notes = w.notes
      /\ n.pending = w.pending /\ n.news = w.news /\ n.adopted = w.adopted
      /\ n.ended = w.ended /\ n.cancelled = w.cancelled /\ n.cancelling = w.cancelling
      /\ n.parked = w.parked /\ n.muted = w.muted /\ n.userStop = w.userStop
      /\ n.steerable = w.steerable /\ n.promised = w.promised
      /\ n.begun = w.begun /\ n.known = w.known /\ n.hushed = w.hushed /\ n.how = w.how
  BY <1>0 DEF Session
<1>4. /\ u.unobserved = w.unobserved /\ u.run = "stopping" /\ u.alive = w.alive
      /\ u.restart = w.restart
      /\ u.inbox = w.inbox /\ u.inputs = w.inputs /\ u.steerIn = w.steerIn
      /\ u.told = w.told /\ u.turn = w.turn /\ u.m = w.m
      /\ u.steerQ = w.steerQ /\ u.noticeQ = w.noticeQ /\ u.notes = w.notes
      /\ u.pending = w.pending /\ u.news = w.news /\ u.adopted = w.adopted
      /\ u.ended = w.ended /\ u.cancelled = w.cancelled /\ u.cancelling = w.cancelling
      /\ u.parked = w.parked /\ u.muted = w.muted /\ u.userStop = w.userStop
      /\ u.steerable = w.steerable /\ u.promised = w.promised
      /\ u.begun = w.begun /\ u.known = w.known /\ u.hushed = w.hushed /\ u.how = w.how
  BY <1>0 DEF Session
<1> HIDE DEF n, u
<1>5. Typed(n) /\ Exits(n, q) /\ Inbox(n, q) /\ Sent(n, q)
  BY <1>a, <1>3 DEF Good, Typed, Exits, Inbox, Sent, Owes
<1>6. Boundary(n) /\ Apart(n, q, {}) /\ Landing(n, {})
  BY <1>3 DEF Good, Boundary, Waiting, Apart, Landing, Open, Cancelling
<1>7. InTurn(n, q) /\ Parks(n) /\ Still(n, w)
  BY <1>3 DEF Good, InTurn, Open, Parks, Still
<1>8. w.restart = "due" => Typed(u) /\ Exits(u, q) /\ Inbox(u, q) /\ Sent(u, q)
  BY <1>2, <1>4 DEF Good, Typed, Exits, Inbox, Sent, Owes
<1>9. Boundary(u) /\ Apart(u, q, {}) /\ Landing(u, {})
  BY <1>4 DEF Good, Boundary, Waiting, Apart, Landing, Open, Cancelling
<1>10. InTurn(u, q) /\ Parks(u) /\ Still(u, w)
  BY <1>4 DEF Good, InTurn, Open, Parks, Still
<1>11. Good(n, q, {}) /\ (w.restart = "due" => Good(u, q, {}))
  BY <1>5, <1>6, <1>7, <1>8, <1>9, <1>10 DEF Good
<1> QED
  BY <1>1, <1>3, <1>4, <1>7, <1>10, <1>11 DEF Still

LEMMA DrainedGood ==
  ASSUME NEW w, NEW q \in Seq(Message), Good(w, q, {})
  PROVE  LET v == Drained(w)
         IN /\ Good(v, q, {}) /\ Still(v, w) /\ v.steerIn = w.steerIn /\ v.steerQ = w.steerQ
            /\ v.unobserved = w.unobserved /\ v.run = w.run /\ v.hushed = w.hushed
            /\ \/ v.drain = w.drain
               \/ v.drain = "returned" /\ Idle(w)
<1> DEFINE d == [w EXCEPT !.drain = "returned"]
<1>0. w \in Session
  BY DEF Good, Typed
<1>a. d \in Session
  BY ZenonT(60),<1>0 DEF Session
<1>1. d \in Session /\ Alike(d, w) /\ d.drain = "returned"
  BY ZenonT(60),<1>0, <1>a DEF Session, Alike
<1>2. Drained(w) = w \/ (Drained(w) = d /\ Idle(w))
  BY DEF Drained
<1> HIDE DEF d
<1>3. Good(d, q, {}) /\ Still(d, w)
  BY <1>1, AlikeGood
<1> QED
  BY <1>1, <1>2, <1>3 DEF Alike, Still

-----------------------------------------------------------------------------
(* Whether Drain returned is nothing but Drained's affair, and a gate that  *)
(* was parked by a cancel stays so but for the Gate.                       *)

Drains(v, w) ==
  /\ DOMAIN v = DOMAIN w /\ ("drain" \in DOMAIN w => v.drain = w.drain)
  /\ "hushed" \in DOMAIN w /\ w.hushed => v.hushed

LEMMA DrainsTrans ==
  ASSUME NEW u, NEW v, NEW w, Drains(u, v), Drains(v, w)
  PROVE  Drains(u, w)
  BY DEF Drains

LEMMA SendDrains ==
  ASSUME NEW w, NEW p
  PROVE  Drains(EnsureRun(w), w) /\ Drains(Send(w, p), w)
<1>1. ASSUME NEW x PROVE Drains(EnsureRun(x), x)
  BY DEF EnsureRun, Drains
<1> DEFINE o == [w EXCEPT !.unobserved = w.unobserved \cup Elements(p)]
           e == EnsureRun(o)
           I == w.inputs \cup Elements(p)
           b == IF w.run = "none" THEN e.inbox ELSE e.inbox \o p
           T == w.told \cup (Elements(p) \cap Steers)
           v == [e EXCEPT !.inputs = I, !.inbox = b, !.told = T]
<1>2. Drains(o, w) /\ Drains(e, o)
  BY <1>1 DEF Drains
<1>3. Send(w, p) \in {w, v}
  BY DEF Send
<1> HIDE DEF e, I, b, T
<1>4. Drains(v, e)
  BY DEF Drains
<1> QED
  BY <1>1, <1>2, <1>3, <1>4 DEF Drains

LEMMA TurnDrains ==
  ASSUME NEW w, NEW i, NEW t
  PROVE  Drains(OpenTurn(w, t), w) /\ Drains(SendWithNotes(w, i), w)
<1>1. Drains(OpenTurn(w, t), w)
  BY DEF OpenTurn, Drains
<1> DEFINE e == Send(w, <<i>>)
<1>2. Drains(e, w)
  BY SendDrains
<1>3. SendWithNotes(w, i) = [e EXCEPT !.notes = {}, !.told = w.told \cup w.notes \cup ({i} \cap Steers)]
  BY DEF SendWithNotes
<1> HIDE DEF e
<1> QED
  BY <1>1, <1>2, <1>3 DEF Drains

LEMMA QueueDrains ==
  ASSUME NEW w, NEW p, NEW i
  PROVE  /\ Drains(SteerOrQueue(w, p), w) /\ Drains(NoticeOrQueue(w, i), w)
         /\ Drains(Flush(w), w)
<1>1. Drains(Send(w, p), w) /\ Drains(Send(w, <<i>>), w) /\ Drains(Send(w, w.steerQ \o w.noticeQ), w)
  BY SendDrains
<1>2. Drains(SteerOrQueue(w, p), w)
  BY <1>1 DEF SteerOrQueue, Drains
<1>3. Drains(NoticeOrQueue(w, i), w)
  BY <1>1 DEF NoticeOrQueue, Drains
<1> DEFINE e == Send(w, w.steerQ \o w.noticeQ)
<1>4. Flush(w) = [e EXCEPT !.steerQ = <<>>, !.noticeQ = <<>>]
  BY DEF Flush
<1>5. Drains(e, w)
  BY <1>1
<1> HIDE DEF e
<1>6. Drains(Flush(w), w)
  BY <1>4, <1>5 DEF Drains
<1> QED
  BY <1>2, <1>3, <1>6

LEMMA LandDrains ==
  ASSUME NEW w
  PROVE  Drains(LandQueued(w), w) /\ Drains(Notice(w), w)
<1>1. Drains(LandQueued(w), w)
  <2> DEFINE o == [w EXCEPT !.steerIn = <<>>]
             e == SteerOrQueue(o, Admitted(w.steerIn))
  <2>1. Drains(o, w) /\ Drains(e, o)
    BY QueueDrains DEF Drains
  <2>2. LandQueued(w) = [e EXCEPT !.told = e.told \cup (Elements(w.steerIn) \cap Blocked)]
    BY DEF LandQueued
  <2> HIDE DEF e, o
  <2> QED
    BY <2>1, <2>2 DEF Drains
<1>2. Drains(Notice(w), w)
  <2> DEFINE x == [w EXCEPT !.noticeWaits = TRUE]
             i == CHOOSE n \in w.news : TRUE
             t == [w EXCEPT !.news = {}]
             o == OpenTurn(t, i)
             a == NoticeOrQueue(t, i)
             b == SendWithNotes(o, i)
  <2>1. Notice(w) \in {w, x, a, b}
    BY DEF Notice
  <2>2. Drains(x, w) /\ Drains(t, w)
    BY DEF Drains
  <2>3. Drains(a, t) /\ Drains(o, t) /\ Drains(b, o)
    BY QueueDrains, TurnDrains
  <2> HIDE DEF x, t, o, a, b
  <2> QED
    BY <2>1, <2>2, <2>3 DEF Drains
<1> QED
  BY <1>1, <1>2

LEMMA DoneDrains ==
  ASSUME NEW w, NEW how
  PROVE  Drains(Done(w, how), w) /\ Drains(CheckCancel(w), w)
<1>1. Drains(Done(w, how), w) /\ Drains(Done(w, "cancel"), w)
  BY DEF Done, Drains
<1> DEFINE d == Done(w, "cancel")
           c == [d EXCEPT !.cancelling = "no", !.waits = {}]
           n == [c EXCEPT !.noticeWaits = FALSE]
<1>2. CheckCancel(w) \in {w, c, Notice(n)}
  BY DEF CheckCancel
<1>3. Drains(d, w)
  BY <1>1
<1> HIDE DEF d
<1>4. Drains(c, w) /\ Drains(n, w)
  BY <1>3 DEF Drains
<1> HIDE DEF c, n
<1>5. Drains(Notice(n), n)
  BY LandDrains
<1> QED
  BY <1>1, <1>2, <1>4, <1>5 DEF Drains

LEMMA CancelDrains ==
  ASSUME NEW w
  PROVE  Drains(CancelTurn(w), w)
<1> DEFINE c == [w EXCEPT !.cancelAt = TRUE,
                          !.cancelOnReady = ~Ready /\ (w.pending # <<>> \/ Posted("submit"))]
           u == LandQueued(w)
           reported == u.m.reasons \cup u.m.turnReasons
           waits == (u.m.outstanding \cap u.turnCalls) \ u.adopted
           k == KeepSteers(u)
           M == u.muted \cup (u.turnCalls \ u.adopted)
                         \cup ((reported \cap Calls) \ (u.adopted \ u.ended)) \cup u.inputs
           U == u.userStop \/ req.at \in {"starting", "provider"}
           C == u.cancelled \cup waits
           K == u.inputs \cup reported \cup waits
           v == [k EXCEPT !.steerable = FALSE, !.settle = "off", !.parked = TRUE, !.muted = M,
                          !.userStop = U, !.waits = waits, !.cancelled = C,
                          !.cancelling = "waiting", !.known = K, !.hushed = TRUE]
<1>1. CancelTurn(w) \in {w, c, v}
  BY DEF CancelTurn
<1>2. Drains(c, w) /\ Drains(u, w)
  BY LandDrains DEF Drains
<1>3. Drains(k, u)
  BY DEF KeepSteers, Drains
<1> HIDE DEF u, k, M, U, C, K, waits, c
<1>4. Drains(v, k)
  BY DEF Drains
<1> QED
  BY <1>1, <1>2, <1>3, <1>4 DEF Drains

LEMMA SubmitDrains ==
  ASSUME NEW w, NEW l
  PROVE  Drains(StartTurn(w, l), w) /\ Drains(Submit(w, l), w)
<1>1. ASSUME NEW x PROVE Drains(StartTurn(x, l), x)
  <2> DEFINE b == [x EXCEPT !.begun = x.begun \cup {l}]
             f == [x EXCEPT !.begun = x.begun \cup {l}, !.finished = x.finished \cup {l}]
             o == OpenTurn(b, l)
  <2>1. StartTurn(x, l) \in {f, SendWithNotes(o, l)}
    BY DEF StartTurn
  <2>2. Drains(f, x) /\ Drains(b, x)
    BY DEF Drains
  <2>3. Drains(o, b) /\ Drains(SendWithNotes(o, l), o)
    BY TurnDrains
  <2> HIDE DEF b, f, o
  <2> QED
    BY <2>1, <2>2, <2>3 DEF Drains
<1> DEFINE p == [w EXCEPT !.pending = Append(w.pending, l)]
           x == [w EXCEPT !.cancelAt = FALSE, !.cancelOnReady = FALSE]
           t == StartTurn(x, l)
<1>2. Submit(w, l) \in {p, t, CancelTurn(t)}
  BY DEF Submit
<1>3. Drains(p, w) /\ Drains(x, w)
  BY DEF Drains
<1>4. Drains(t, x) /\ Drains(CancelTurn(t), t)
  BY <1>1, CancelDrains
<1> HIDE DEF p, x, t
<1> QED
  BY <1>1, <1>2, <1>3, <1>4 DEF Drains

LEMMA SteersDrain ==
  ASSUME NEW w
  PROVE  Drains(LandSteers(w), w)
<1> DEFINE x == [w EXCEPT !.steerIn = <<>>]
<1>1. LandSteers(w) \in {LandQueued(w), Submit(x, Head(w.steerIn))}
  BY DEF LandSteers
<1>2. Drains(x, w) /\ Drains(Submit(x, Head(w.steerIn)), x) /\ Drains(LandQueued(w), w)
  BY SubmitDrains, LandDrains DEF Drains
<1> QED
  BY <1>1, <1>2 DEF Drains

LEMMA CloseDrains ==
  ASSUME NEW w, NEW nudge, NEW how
  PROVE  Drains(CloseTurn(w, nudge, how), w)
<1> DEFINE x == [w EXCEPT !.stopUsed = TRUE]
<1>1. CloseTurn(w, nudge, how) \in {LandQueued(w), Send(x, nudge), Done(w, how)}
  BY DEF CloseTurn
<1>2. /\ Drains(LandQueued(w), w) /\ Drains(x, w) /\ Drains(Send(x, nudge), x)
      /\ Drains(Done(w, how), w)
  BY LandDrains, SendDrains, DoneDrains DEF Drains
<1> QED
  BY <1>1, <1>2 DEF Drains

LEMMA JudgeDrains ==
  ASSUME NEW w, NEW nudge
  PROVE  Drains(Judge(w, nudge), w) /\ Drains(SettleFired(w), w)
<1> DEFINE off == [w EXCEPT !.settle = "off"]
           arm == [w EXCEPT !.settle = "armed"]
           a == Adopt(off, Foreground(w))
           j == CloseTurn(off, nudge, "done")
           r == CloseTurn(a, <<>>, "running")
<1>1. Judge(w, nudge) \in {off, arm, w, j}
  BY DEF Judge
<1>2. SettleFired(w) \in {w, off, LandQueued(off), r}
  BY DEF SettleFired
<1>3. Drains(off, w) /\ Drains(arm, w) /\ Drains(a, off)
  BY DEF Adopt, Drains
<1>4. Drains(j, off) /\ Drains(LandQueued(off), off) /\ Drains(r, a)
  BY CloseDrains, LandDrains
<1> HIDE DEF off, arm, a, j, r
<1> QED
  BY <1>1, <1>2, <1>3, <1>4 DEF Drains

LEMMA ResponseDrains ==
  ASSUME NEW w, NEW how, NEW calls
  PROVE  Drains(Response(w, how, calls), w)
<1> DEFINE a == Adopt(w, Foreground(w))
           p == [a EXCEPT !.parked = TRUE, !.muted = w.muted \cup w.turnCalls]
           e == CloseTurn(p, <<>>, "error")
           t == [w EXCEPT !.turnCalls = w.turnCalls \cup calls]
<1>1. Response(w, how, calls) \in {w, Flush(w), e, Flush(t)}
  BY DEF Response, ProviderError
<1>2. Drains(a, w)
  BY DEF Adopt, Drains
<1> HIDE DEF a
<1>3. Drains(p, a) /\ Drains(t, w)
  BY DEF Drains
<1>4. Drains(e, p) /\ Drains(Flush(w), w) /\ Drains(Flush(t), t)
  BY CloseDrains, QueueDrains
<1> HIDE DEF p, t, e
<1> QED
  BY <1>1, <1>2, <1>3, <1>4 DEF Drains

LEMMA ExitDrains ==
  ASSUME NEW w
  PROVE  Drains(RunExit(w), w) /\ Drains(Restart(w), w) /\ Drains(ToolsChanged(w), w)
<1> DEFINE gone == [w EXCEPT !.run = "none", !.restart = "no"]
           c == CloseTurn(gone, <<>>, "error")
           e == IF w.run = "up" /\ Open(w) /\ ~Cancelling(w) THEN c ELSE gone
           r == [e EXCEPT !.rebuilds = 1]
<1>1. RunExit(w) \in {e, EnsureRun(r)}
  BY DEF RunExit
<1>a. Drains(gone, w)
  BY DEF Drains
<1>2. Drains(gone, w) /\ Drains(c, gone)
  BY <1>a, CloseDrains
<1>3. e \in {c, gone}
  OBVIOUS
<1> HIDE DEF c, gone, e
<1>4. Drains(e, w)
  BY <1>2, <1>3 DEF Drains
<1>5. Drains(r, e) /\ Drains(EnsureRun(r), r)
  BY SendDrains DEF Drains
<1> HIDE DEF r
<1>6. Drains(RunExit(w), w)
  BY <1>1, <1>4, <1>5 DEF Drains
<1>7. Drains(Restart(w), w)
  BY DEF Restart, Drains
<1>8. Drains(ToolsChanged(w), w)
  BY DEF ToolsChanged, Drains
<1> QED
  BY <1>6, <1>7, <1>8

-----------------------------------------------------------------------------
(* The end of every handler: evaluate.                                     *)

\* The turn is over although nothing was cancelled: nothing of it is left.
Over(v, w) ==
  /\ ~Cancelling(w) /\ Quiescent(w) /\ Foreground(w) = {}
  /\ w.adopted \subseteq v.adopted \cup w.ended
  /\ v.steerIn = <<>> /\ v.steerQ = <<>>

\* Drain returns although there is a coordinator: it has nothing left to do.
Spent(v) == v.run = "none" \/ (~v.m.inflight /\ v.m.reasons = {} /\ v.m.outstanding = {})

\* With no turn open nothing holds back the line that waits.
LEMMA NextLineGood ==
  ASSUME NEW w, NEW q \in Seq(Message), Good(w, q, {}), w.pending # <<>>
  PROVE  LET v == Submit([w EXCEPT !.pending = Tail(w.pending)], Head(w.pending))
         IN /\ Good(v, q, {}) /\ v.m = w.m /\ v.how = w.how
            /\ w.adopted \subseteq v.adopted \cup w.ended
            /\ w.unobserved = {} \/ v.unobserved # {}
            /\ w.steerIn = <<>> /\ w.steerQ = <<>> => v.steerIn = <<>> /\ v.steerQ = <<>>
            /\ Drains(v, w)
<1> DEFINE p == Tail(w.pending)
           l == Head(w.pending)
           x == [w EXCEPT !.pending = p]
<1>0. w \in Session /\ w.pending \in Seq(Lines \cup Steers) /\ Distinct(w.pending)
  BY DEF Good, Typed, Session, Apart
<1>1. /\ p \in Seq(Lines \cup Steers) /\ l \in Lines \cup Steers
      /\ Elements(w.pending) = Elements(p) \cup {l} /\ Distinct(p) /\ l \notin Elements(p)
  BY <1>0, ElementsTail
<1> HIDE DEF p, l
<1>2. x \in Session
  BY ZenonT(60),<1>0, <1>1 DEF Session
<1>3. /\ x.unobserved = w.unobserved /\ x.run = w.run /\ x.alive = w.alive
      /\ x.inbox = w.inbox /\ x.restart = w.restart /\ x.inputs = w.inputs
      /\ x.steerIn = w.steerIn /\ x.told = w.told /\ x.turn = w.turn /\ x.m = w.m
      /\ x.steerQ = w.steerQ /\ x.noticeQ = w.noticeQ /\ x.notes = w.notes
      /\ x.pending = p /\ x.news = w.news /\ x.adopted = w.adopted
      /\ x.ended = w.ended /\ x.cancelled = w.cancelled /\ x.cancelling = w.cancelling
      /\ x.parked = w.parked /\ x.muted = w.muted /\ x.userStop = w.userStop
      /\ x.steerable = w.steerable /\ x.promised = w.promised
      /\ x.begun = w.begun /\ x.known = w.known /\ x.hushed = w.hushed /\ x.how = w.how
  BY <1>0 DEF Session
<1>4. Drains(x, w) /\ Drains(Submit(x, l), x)
  BY SubmitDrains DEF Drains
<1> HIDE DEF x
<1>5. Typed(x) /\ Exits(x, q) /\ Inbox(x, q) /\ Sent(x, q) /\ Boundary(x)
  BY <1>2, <1>3 DEF Good, Typed, Exits, Inbox, Sent, Owes, Boundary, Waiting
<1>6. l \notin w.news
  BY <1>0, <1>1, IdsAssumption DEF Session
<1>7. Apart(x, q, {l})
  BY <1>1, <1>3, <1>6 DEF Good, Apart
<1>8. Landing(x, {l})
  BY <1>1, <1>3 DEF Good, Landing, Open, Cancelling
<1>9. InTurn(x, q) /\ Parks(x) /\ Still(x, w)
  BY <1>3 DEF Good, InTurn, Parks, Open, Still
<1>10. Good(x, q, {l})
  BY <1>5, <1>7, <1>8, <1>9 DEF Good
<1>11. LET v == Submit(x, l)
       IN /\ Good(v, q, {}) /\ v.m = x.m /\ v.how = x.how
          /\ Open(x) => Still(v, x)
          /\ x.adopted \subseteq v.adopted \cup x.ended
          /\ Still(v, x) \/ v.unobserved # {}
          /\ x.steerIn = <<>> /\ x.steerQ = <<>> => v.steerIn = <<>> /\ v.steerQ = <<>>
  BY <1>1, <1>10, SubmitGood
<1> QED
  BY <1>3, <1>4, <1>11, DrainsTrans DEF x, p, l, Still

LEMMA EvaluateGood ==
  ASSUME NEW w, NEW q \in Seq(Message), Good(w, q, {}), Lags(w.m, q),
         NEW nudge, nudge = <<>> \/ \E n \in Nudges \ w.inputs : nudge = <<n>>
  PROVE  LET v == Evaluate(w, nudge)
         IN /\ Good(v, q, {}) /\ v.m = w.m
            /\ ~Open(w) => v.how = w.how
            /\ Open(w) /\ v.turn # w.turn /\ v.how = "done" => Over(v, w)
            /\ v.drain = "returned" /\ w.drain # "returned" => Spent(v) /\ w.unobserved = {}
            /\ w.hushed => v.hushed
<1> DEFINE c == IF Cancelling(w) THEN CheckCancel(w) ELSE w
           j == IF Open(c) /\ ~Cancelling(c) THEN Judge(c, nudge) ELSE c
           r == Restart(j)
           d == Drained(r)
           l == Submit([j EXCEPT !.pending = Tail(j.pending)], Head(j.pending))
           v == Evaluate(w, nudge)
<1>0. w \in Session
  BY DEF Good, Typed
<1>1. \/ ~Ready /\ v = w
      \/ (Open(j) \/ Cancelling(j)) /\ v = j
      \/ ~Open(j) /\ ~Cancelling(j) /\ v = d
      \/ ~Open(j) /\ ~Cancelling(j) /\ j.pending # <<>> /\ v = l
  BY DEF Evaluate
<1>2. /\ Good(c, q, {}) /\ c.m = w.m /\ c.inputs \subseteq w.inputs \cup News
      /\ \/ Still(c, w) /\ (Cancelling(w) <=> Cancelling(c)) /\ (~Cancelling(w) => c = w)
         \/ Cancelling(w) /\ ~Cancelling(c) /\ c.how = "cancel" /\ (Open(c) => c.unobserved # {})
      /\ c.unobserved = {} => w.unobserved = {}
      /\ Drains(c, w)
  <2>1. CASE Cancelling(w)
    <3>1. c = CheckCancel(w)
      BY <2>1
    <3>2. LET x == CheckCancel(w)
          IN /\ Good(x, q, {}) /\ x.m = w.m /\ x.inputs \subseteq w.inputs \cup News
             /\ \/ Cancelling(x) /\ Still(x, w)
                \/ ~Cancelling(x) /\ x.how = "cancel" /\ (Open(x) => x.unobserved # {})
             /\ x.unobserved = {} => w.unobserved = {}
      BY <2>1, CheckCancelGood
    <3>3. Drains(CheckCancel(w), w)
      BY DoneDrains
    <3> HIDE DEF c
    <3> QED
      BY <2>1, <3>1, <3>2, <3>3
  <2>2. CASE ~Cancelling(w)
    <3>1. c = w
      BY <2>2
    <3> QED
      BY <2>2, <3>1 DEF Still, Drains
  <2> QED
    BY <2>1, <2>2
<1> HIDE DEF c
<1>3. nudge = <<>> \/ \E n \in Nudges \ c.inputs : nudge = <<n>>
  BY <1>2, IdsAssumption
<1>4. /\ Good(j, q, {})
      /\ \/ Still(j, c)
         \/ /\ Shut(j, c, "done") /\ Quiescent(c) /\ Foreground(c) = {} /\ j.adopted = c.adopted
            /\ Open(c) /\ ~Cancelling(c)
      /\ Drains(j, c)
  <2>1. CASE Open(c) /\ ~Cancelling(c)
    <3>1. j = Judge(c, nudge)
      BY <2>1
    <3>2. Lags(c.m, q)
      BY <1>2
    <3>3. LET x == Judge(c, nudge)
          IN /\ Good(x, q, {})
             /\ \/ Still(x, c)
                \/ /\ Shut(x, c, "done") /\ Quiescent(c) /\ Foreground(c) = {}
                   /\ x.adopted = c.adopted
      BY <1>2, <1>3, <2>1, <3>2, JudgeGood
    <3>4. Drains(Judge(c, nudge), c)
      BY JudgeDrains
    <3> HIDE DEF j
    <3> QED
      BY <2>1, <3>1, <3>3, <3>4
  <2>2. CASE ~(Open(c) /\ ~Cancelling(c))
    <3>1. j = c
      BY <2>2
    <3> QED
      BY <1>2, <3>1 DEF Still, Drains
  <2> QED
    BY <2>1, <2>2
<1> HIDE DEF j
<1>5. /\ Good(r, q, {}) /\ Still(r, j) /\ r.steerIn = j.steerIn /\ r.steerQ = j.steerQ
      /\ r.unobserved = j.unobserved
  BY <1>4, RestartGood
<1>6. Drains(r, j)
  BY ExitDrains
<1> HIDE DEF r
<1>7. /\ Good(d, q, {}) /\ Still(d, r) /\ d.steerIn = r.steerIn /\ d.steerQ = r.steerQ
      /\ d.unobserved = r.unobserved /\ d.run = r.run /\ d.hushed = r.hushed
      /\ \/ d.drain = r.drain
         \/ d.drain = "returned" /\ Idle(r)
  BY <1>5, DrainedGood
<1> HIDE DEF d
<1>8. j.pending # <<>> =>
        /\ Good(l, q, {}) /\ l.m = j.m /\ l.how = j.how
        /\ j.adopted \subseteq l.adopted \cup j.ended
        /\ j.unobserved = {} \/ l.unobserved # {}
        /\ j.steerIn = <<>> /\ j.steerQ = <<>> => l.steerIn = <<>> /\ l.steerQ = <<>>
        /\ Drains(l, j)
  BY <1>4, NextLineGood
<1> HIDE DEF l, v
<1>9. Good(v, q, {}) /\ v.m = w.m
  BY <1>1, <1>2, <1>4, <1>5, <1>7, <1>8 DEF Still, Shut
<1>10. Cancelling(w) => Open(w)
  BY DEF Good, Landing
<1>11. ASSUME ~Open(w) PROVE v.how = w.how
  <2>1. c = w /\ ~Open(c)
    BY <1>2, <1>10, <1>11
  <2>2. j.how = w.how
    BY <1>4, <2>1 DEF Still
  <2> QED
    BY <1>1, <1>5, <1>7, <1>8, <2>2 DEF Still
<1>12. ASSUME Open(w), v.turn # w.turn, v.how = "done" PROVE Over(v, w)
  <2>1. v # w /\ (v = j \/ v = d \/ (j.pending # <<>> /\ v = l))
    BY <1>1, <1>12
  <2>2. v.how = j.how
    BY <1>5, <1>7, <1>8, <2>1 DEF Still
  <2>3. CASE Cancelling(w)
    <3>1. CASE Cancelling(c)
      <4>1. Still(j, c) /\ Still(c, w)
        BY <1>2, <1>4, <2>3, <3>1
      <4>2. v = j
        BY <1>1, <1>12, <2>3, <4>1 DEF Still, Open
      <4> QED
        BY <1>12, <4>1, <4>2 DEF Still
    <3>2. CASE ~Cancelling(c)
      <4>1. c.how = "cancel" /\ (Open(c) => c.unobserved # {})
        BY <1>2, <2>3, <3>2
      <4>2. Still(j, c)
        BY <1>4, <4>1 DEF Quiescent
      <4> QED
        BY <1>12, <2>2, <4>1, <4>2 DEF Still
    <3> QED
      BY <3>1, <3>2
  <2>4. CASE ~Cancelling(w)
    <3>1. c = w
      BY <1>2, <2>4
    <3>2. CASE Still(j, c)
      <4>1. Open(j) /\ j.turn = w.turn
        BY <1>12, <3>1, <3>2 DEF Still, Open
      <4>2. v = j
        BY <1>1, <1>12, <4>1
      <4> QED
        BY <1>12, <4>1, <4>2
    <3>3. CASE ~Still(j, c)
      <4>1. Shut(j, w, "done") /\ Quiescent(w) /\ Foreground(w) = {} /\ j.adopted = w.adopted
        BY <1>4, <3>1, <3>3
      <4>2. j.steerIn = <<>> /\ j.steerQ = <<>> /\ j.ended = w.ended
        BY <4>1 DEF Shut, Quiescent
      <4>3. v.steerIn = <<>> /\ v.steerQ = <<>> /\ w.adopted \subseteq v.adopted \cup w.ended
        BY <1>5, <1>7, <1>8, <2>1, <4>1, <4>2 DEF Still
      <4> QED
        BY <2>4, <4>1, <4>3 DEF Over
    <3> QED
      BY <3>2, <3>3
  <2> QED
    BY <2>3, <2>4
<1>13. ASSUME v.drain = "returned", w.drain # "returned" PROVE Spent(v) /\ w.unobserved = {}
  <2>1. c.drain = w.drain
    BY <1>0, <1>2 DEF Drains, Session
  <2>2. c \in Session /\ j \in Session
    BY <1>2, <1>4 DEF Good, Typed
  <2>3. j.drain = w.drain
    BY <1>4, <2>1, <2>2 DEF Drains, Session
  <2>4. r.drain = w.drain /\ (j.pending # <<>> => l.drain = w.drain)
    BY <1>6, <1>8, <2>2, <2>3 DEF Drains, Session
  <2>5. v = d /\ Idle(r)
    BY <1>1, <1>7, <1>13, <2>3, <2>4
  <2>6. w.unobserved = {}
    BY <1>2, <1>4, <1>5, <2>5 DEF Idle, Still, Shut
  <2>7. Spent(v)
    BY <1>7, <2>5 DEF Idle, Spent, Still
  <2> QED
    BY <2>6, <2>7
<1>14. ASSUME w.hushed PROVE v.hushed
  <2>1. c \in Session /\ j \in Session /\ r \in Session
    BY <1>2, <1>4, <1>5 DEF Good, Typed
  <2>2. c.hushed
    BY <1>0, <1>2, <1>14 DEF Drains, Session
  <2>3. j.hushed
    BY <1>4, <2>1, <2>2 DEF Drains, Session
  <2>4. r.hushed /\ (j.pending # <<>> => l.hushed)
    BY <1>6, <1>8, <2>1, <2>3 DEF Drains, Session
  <2>5. d.hushed
    BY <1>7, <2>4
  <2> QED
    BY <1>1, <1>14, <2>3, <2>4, <2>5
<1> QED
  BY <1>9, <1>11, <1>12, <1>13, <1>14 DEF v

-----------------------------------------------------------------------------
(* The function that is handled leaves the queue.                          *)

LEMMA TailIs ==
  ASSUME NEW q \in Seq(Message), q # <<>>
  PROVE  /\ Tail(q) \in Seq(Message) /\ Head(q) \in Message
         /\ Len(q) \in Nat /\ Len(q) > 0 /\ Len(Tail(q)) = Len(q) - 1
         /\ DOMAIN q = 1..Len(q) /\ DOMAIN Tail(q) = 1..(Len(q) - 1)
         /\ q[1] = Head(q)
         /\ \A n \in 1..(Len(q) - 1) : Tail(q)[n] = q[n + 1]
         /\ \A n \in DOMAIN q : n # 1 => n - 1 \in DOMAIN Tail(q) /\ q[n] = Tail(q)[n - 1]
<1>1. /\ Tail(q) \in Seq(Message) /\ Head(q) \in Message
      /\ Len(q) \in Nat /\ Len(q) > 0 /\ Len(Tail(q)) = Len(q) - 1
      /\ DOMAIN q = 1..Len(q) /\ DOMAIN Tail(q) = 1..Len(Tail(q))
      /\ q[1] = Head(q)
      /\ \A n \in 1..(Len(q) - 1) : Tail(q)[n] = q[n + 1]
  OBVIOUS
<1>2. \A n \in DOMAIN q : n # 1 => n - 1 \in DOMAIN Tail(q) /\ q[n] = Tail(q)[n - 1]
  BY <1>1
<1> QED
  BY <1>1, <1>2

LEMMA TailHas ==
  ASSUME NEW q \in Seq(Message), q # <<>>
  PROVE  LET t == Tail(q)
             x == Head(q)
         IN /\ \A k : Has(q, k) <=> x.k = k \/ Has(t, k)
            /\ \A i : Input(q, i) <=> (x.k = "input" /\ x.id = i) \/ Input(t, i)
            /\ Submits(q) = Submits(t) \cup (IF x.k = "submit" THEN {x.line} ELSE {})
            /\ Results(q) = Results(t) \cup (IF x.k = "result" THEN {x.call} ELSE {})
            /\ AnsweredCalls(q) = AnsweredCalls(t) \cup (IF x.k = "response" THEN x.calls ELSE {})
<1> DEFINE t == Tail(q)
           x == Head(q)
<1>1. /\ DOMAIN q = 1..Len(q) /\ DOMAIN t = 1..(Len(q) - 1)
      /\ Len(q) \in Nat /\ Len(q) > 0 /\ q[1] = x
      /\ \A n \in 1..(Len(q) - 1) : t[n] = q[n + 1]
      /\ \A n \in DOMAIN q : n # 1 => n - 1 \in DOMAIN t /\ q[n] = t[n - 1]
  BY TailIs
<1> HIDE DEF t, x
<1>2. \A n \in DOMAIN t : n + 1 \in DOMAIN q /\ q[n + 1] = t[n]
  BY <1>1
<1>3. 1 \in DOMAIN q
  BY <1>1
<1>4. ASSUME NEW k PROVE Has(q, k) <=> x.k = k \/ Has(t, k)
  BY <1>1, <1>2, <1>3 DEF Has
<1>5. ASSUME NEW i PROVE Input(q, i) <=> (x.k = "input" /\ x.id = i) \/ Input(t, i)
  BY ZenonT(60),<1>1, <1>2, <1>3 DEF Input
<1>6. Submits(q) = Submits(t) \cup (IF x.k = "submit" THEN {x.line} ELSE {})
  BY <1>1, <1>2, <1>3 DEF Submits
<1>7. Results(q) = Results(t) \cup (IF x.k = "result" THEN {x.call} ELSE {})
  BY <1>1, <1>2, <1>3 DEF Results
<1>8. AnsweredCalls(q) = AnsweredCalls(t) \cup (IF x.k = "response" THEN x.calls ELSE {})
  BY <1>1, <1>2, <1>3 DEF AnsweredCalls
<1> QED
  BY <1>4, <1>5, <1>6, <1>7, <1>8 DEF t, x

LEMMA TailTurns ==
  ASSUME NEW q \in Seq(Message), q # <<>>
  PROVE  LET t == Tail(q)
         IN /\ \A n \in DOMAIN t : \A x : Brings(t, n, x) <=> Brings(q, n + 1, x)
            /\ \A a \in 1..Len(q), b \in 0..(Len(q) - 1) : TurnIn(t, a, b) <=> TurnIn(q, a + 1, b + 1)
            /\ \A b \in 0..Len(q) : Head(q).k # "turn" => (TurnIn(q, 1, b) <=> TurnIn(q, 2, b))
<1> DEFINE t == Tail(q)
<1>1. /\ DOMAIN q = 1..Len(q) /\ DOMAIN t = 1..(Len(q) - 1)
      /\ Len(q) \in Nat /\ Len(q) > 0 /\ q[1] = Head(q)
      /\ \A n \in 1..(Len(q) - 1) : t[n] = q[n + 1]
      /\ \A n \in DOMAIN q : n # 1 => n - 1 \in DOMAIN t /\ q[n] = t[n - 1]
  BY TailIs
<1> HIDE DEF t
<1>2. \A n \in DOMAIN t : \A x : Brings(t, n, x) <=> Brings(q, n + 1, x)
  BY <1>1 DEF Brings
<1>3. ASSUME NEW a \in 1..Len(q), NEW b \in 0..(Len(q) - 1)
      PROVE  TurnIn(t, a, b) <=> TurnIn(q, a + 1, b + 1)
  <2>1. ASSUME TurnIn(t, a, b) PROVE TurnIn(q, a + 1, b + 1)
    <3>1. PICK n \in a..b : t[n].k = "turn"
      BY <2>1 DEF TurnIn
    <3>2. n + 1 \in (a + 1)..(b + 1) /\ q[n + 1].k = "turn"
      BY <1>1, <3>1
    <3> QED
      BY <3>2 DEF TurnIn
  <2>2. ASSUME TurnIn(q, a + 1, b + 1) PROVE TurnIn(t, a, b)
    <3>1. PICK n \in (a + 1)..(b + 1) : q[n].k = "turn"
      BY <2>2 DEF TurnIn
    <3>2. n - 1 \in a..b /\ t[n - 1].k = "turn"
      BY <1>1, <3>1
    <3> QED
      BY <3>2 DEF TurnIn
  <2> QED
    BY <2>1, <2>2
<1>4. \A b \in 0..Len(q) : Head(q).k # "turn" => (TurnIn(q, 1, b) <=> TurnIn(q, 2, b))
  BY <1>1 DEF TurnIn
<1> QED
  BY <1>2, <1>3, <1>4 DEF t

\* What was recorded is what the queue brings.
LEMMA RecordedIs ==
  ASSUME fifo \in Seq(Message), NEW i \in Inputs
  PROVE  Recorded(i) <=> Input(fifo, i)
<1>1. ASSUME Recorded(i) PROVE Input(fifo, i)
  <2>1. PICK n \in DOMAIN fifo : fifo[n] = [k |-> "input", id |-> i]
    BY <1>1 DEF Recorded, Elements
  <2> QED
    BY <2>1 DEF Input
<1>2. ASSUME Input(fifo, i) PROVE Recorded(i)
  <2>1. PICK n \in DOMAIN fifo : fifo[n].k = "input" /\ fifo[n].id = i
    BY <1>2 DEF Input
  <2>2. fifo[n] \in Message
    BY <2>1
  <2>3. fifo[n] \in [k : {"input"}, id : Inputs]
    BY <2>1, <2>2 DEF Message
  <2>4. fifo[n] = [k |-> "input", id |-> i]
    BY <2>1, <2>3
  <2> QED
    BY <2>1, <2>4 DEF Recorded, Elements
<1> QED
  BY <1>1, <1>2

\* What the actor makes of an item.
Heard(m, x) ==
  CASE x.k = "turn" -> ApplyTurn(m)
    [] x.k = "input" -> ApplyInput(m, x.id)
    [] x.k = "response" -> ApplyResponse(m, x.calls)
    [] x.k = "result" -> ApplyResult(m, x.call)
    [] OTHER -> m

LEMMA HeardIs ==
  ASSUME NEW m \in MirrorOf(Inputs, Calls), NEW x \in Message
  PROVE  LET v == Heard(m, x)
         IN /\ v \in MirrorOf(Inputs, Calls)
            /\ x.k \notin {"turn", "input", "response", "result"} => v = m
            /\ x.k = "turn" =>
                 /\ v.reasons = {} /\ v.turnReasons = m.reasons /\ v.inflight
                 /\ v.outstanding = m.outstanding
            /\ x.k = "input" =>
                 /\ v.reasons = m.reasons \cup {x.id} /\ v.turnReasons = m.turnReasons
                 /\ v.inflight = m.inflight /\ v.outstanding = m.outstanding /\ x.id \in Inputs
            /\ x.k = "response" =>
                 /\ v.reasons = m.reasons /\ v.turnReasons = m.turnReasons
                 /\ ~v.inflight /\ v.outstanding = m.outstanding \cup x.calls
                 /\ x.calls \subseteq Calls
            /\ x.k = "result" =>
                 /\ v.turnReasons = m.turnReasons /\ v.inflight = m.inflight
                 /\ v.outstanding = m.outstanding \ {x.call} /\ x.call \in Calls
                 /\ v.reasons = m.reasons \cup ({x.call} \cap m.outstanding)
<1> DEFINE v == Heard(m, x)
<1>1. CASE x.k \notin {"turn", "input", "response", "result"}
  <2>1. v = m
    BY <1>1 DEF Heard
  <2> QED
    BY <1>1, <2>1
<1>2. CASE x.k = "turn"
  <2>1. v = ApplyTurn(m)
    BY <1>2 DEF Heard
  <2> QED
    BY <1>2, <2>1 DEF ApplyTurn, MirrorOf
<1>3. CASE x.k = "input"
  <2>1. v = ApplyInput(m, x.id) /\ x.id \in Inputs
    BY <1>3 DEF Heard, Message
  <2> QED
    BY <1>3, <2>1 DEF ApplyInput, MirrorOf
<1>4. CASE x.k = "response"
  <2>1. v = ApplyResponse(m, x.calls) /\ x.calls \subseteq Calls
    BY <1>4 DEF Heard, Message
  <2> DEFINE O == m.outstanding \cup x.calls
  <2>2. O \subseteq Calls
    BY <2>1 DEF MirrorOf
  <2>3. v = [m EXCEPT !.inflight = FALSE, !.outstanding = O]
    BY <2>1 DEF ApplyResponse
  <2>4. O = m.outstanding \cup x.calls
    OBVIOUS
  <2> HIDE DEF O, v
  <2>5. v \in MirrorOf(Inputs, Calls)
    BY <2>2, <2>3 DEF MirrorOf
  <2>6. v.reasons = m.reasons /\ v.turnReasons = m.turnReasons /\ ~v.inflight /\ v.outstanding = O
    BY <2>3 DEF MirrorOf
  <2> QED
    BY <1>4, <2>1, <2>4, <2>5, <2>6 DEF v
<1>5. CASE x.k = "result"
  <2>1. v = ApplyResult(m, x.call) /\ x.call \in Calls
    BY <1>5 DEF Heard, Message
  <2> DEFINE O == m.outstanding \ {x.call}
             R == m.reasons \cup {x.call}
  <2>2. O \subseteq Calls /\ R \subseteq Inputs \cup Calls
    BY <2>1 DEF MirrorOf
  <2>3. CASE x.call \notin m.outstanding
    <3>1. v = m
      BY <2>1, <2>3 DEF ApplyResult
    <3> QED
      BY <1>5, <2>1, <2>3, <3>1
  <2>4. CASE x.call \in m.outstanding
    <3>1. v = [m EXCEPT !.outstanding = O, !.reasons = R]
      BY <2>1, <2>4 DEF ApplyResult
    <3>2. O = m.outstanding \ {x.call} /\ R = m.reasons \cup ({x.call} \cap m.outstanding)
      BY <2>4
    <3> HIDE DEF O, R, v
    <3>3. v \in MirrorOf(Inputs, Calls)
      BY <2>2, <3>1 DEF MirrorOf
    <3>4. /\ v.reasons = R /\ v.turnReasons = m.turnReasons
          /\ v.inflight = m.inflight /\ v.outstanding = O
      BY <3>1 DEF MirrorOf
    <3> QED
      BY <1>5, <2>1, <3>2, <3>3, <3>4 DEF v
  <2> QED
    BY <2>3, <2>4
<1> QED
  BY <1>1, <1>2, <1>3, <1>4, <1>5

LEMMA TailLags ==
  ASSUME NEW q \in Seq(Message), q # <<>>, NEW m \in MirrorOf(Inputs, Calls), Lags(m, q),
         sync.inflight \in BOOLEAN
  PROVE  /\ Lags(Heard(m, Head(q)), Tail(q))
         /\ Head(q).k = "result" => Head(q).call \in m.outstanding
<1> DEFINE t == Tail(q)
           x == Head(q)
           v == Heard(m, x)
<1>1. /\ t \in Seq(Message) /\ x \in Message
      /\ DOMAIN q = 1..Len(q) /\ DOMAIN t = 1..(Len(q) - 1)
      /\ Len(q) \in Nat /\ Len(q) > 0 /\ q[1] = x /\ Len(t) = Len(q) - 1
      /\ \A n \in 1..(Len(q) - 1) : t[n] = q[n + 1]
      /\ \A n \in DOMAIN q : n # 1 => n - 1 \in DOMAIN t /\ q[n] = t[n - 1]
  BY TailIs
<1>2. /\ \A k : Has(q, k) <=> x.k = k \/ Has(t, k)
      /\ Results(q) = Results(t) \cup (IF x.k = "result" THEN {x.call} ELSE {})
      /\ AnsweredCalls(q) = AnsweredCalls(t) \cup (IF x.k = "response" THEN x.calls ELSE {})
  BY TailHas
<1>3. /\ \A n \in DOMAIN t : \A i : Brings(t, n, i) <=> Brings(q, n + 1, i)
      /\ \A a \in 1..Len(q), b \in 0..(Len(q) - 1) : TurnIn(t, a, b) <=> TurnIn(q, a + 1, b + 1)
      /\ \A b \in 0..Len(q) : x.k # "turn" => (TurnIn(q, 1, b) <=> TurnIn(q, 2, b))
  BY TailTurns
<1>4. /\ v \in MirrorOf(Inputs, Calls)
      /\ x.k \notin {"turn", "input", "response", "result"} => v = m
      /\ x.k = "turn" =>
           /\ v.reasons = {} /\ v.turnReasons = m.reasons /\ v.inflight
           /\ v.outstanding = m.outstanding
      /\ x.k = "input" =>
           /\ v.reasons = m.reasons \cup {x.id} /\ v.turnReasons = m.turnReasons
           /\ v.inflight = m.inflight /\ v.outstanding = m.outstanding /\ x.id \in Inputs
      /\ x.k = "response" =>
           /\ v.reasons = m.reasons /\ v.turnReasons = m.turnReasons
           /\ ~v.inflight /\ v.outstanding = m.outstanding \cup x.calls
           /\ x.calls \subseteq Calls
      /\ x.k = "result" =>
           /\ v.turnReasons = m.turnReasons /\ v.inflight = m.inflight
           /\ v.outstanding = m.outstanding \ {x.call} /\ x.call \in Calls
           /\ v.reasons = m.reasons \cup ({x.call} \cap m.outstanding)
  BY <1>1, HeardIs
<1> HIDE DEF t, x, v
<1>5. x.k = "result" => x.call \in m.outstanding
  BY <1>1 DEF Lags, CallsOnce
<1>a. \A n \in DOMAIN t : n + 1 \in DOMAIN q /\ q[n + 1] = t[n] /\ 1 < n + 1 /\ n \in Nat
  BY <1>1
<1>b. /\ \A n, k \in DOMAIN q :
           n < k /\ q[n].k \in {"turn", "response"} => q[k].k # "response"
      /\ \A n \in DOMAIN q : q[n].k = "ready" =>
           /\ req.at = "barrier"
           /\ \A k \in DOMAIN q : k > n => q[k].k \notin {"turn", "response", "ready"}
  BY DEF Lags, Answers
<1>6. ASSUME x.k \in {"turn", "response"}, Has(t, "response") PROVE FALSE
  <2>1. PICK n \in DOMAIN t : t[n].k = "response"
    BY <1>6 DEF Has
  <2>2. 1 \in DOMAIN q /\ q[1].k \in {"turn", "response"}
    BY <1>1, <1>6
  <2>3. n + 1 \in DOMAIN q /\ q[n + 1].k = "response" /\ 1 < n + 1
    BY <1>a, <2>1
  <2> QED
    BY <1>b, <2>2, <2>3
<1>7. Answers(v, t)
  <2>1. \A n, k \in DOMAIN t :
          n < k /\ t[n].k \in {"turn", "response"} => t[k].k # "response"
    <3>1. SUFFICES ASSUME NEW n \in DOMAIN t, NEW k \in DOMAIN t, n < k,
                          t[n].k \in {"turn", "response"}
                   PROVE  t[k].k # "response"
      OBVIOUS
    <3>2. /\ n + 1 \in DOMAIN q /\ k + 1 \in DOMAIN q /\ n + 1 < k + 1
          /\ q[n + 1] = t[n] /\ q[k + 1] = t[k]
      BY <1>a, <3>1
    <3> QED
      BY <1>b, <3>1, <3>2
  <2>2. \A n \in DOMAIN t : t[n].k = "ready" =>
          /\ req.at = "barrier"
          /\ \A k \in DOMAIN t : k > n => t[k].k \notin {"turn", "response", "ready"}
    <3>1. SUFFICES ASSUME NEW n \in DOMAIN t, t[n].k = "ready"
                   PROVE  /\ req.at = "barrier"
                          /\ \A k \in DOMAIN t : k > n => t[k].k \notin {"turn", "response", "ready"}
      OBVIOUS
    <3>2. n + 1 \in DOMAIN q /\ q[n + 1].k = "ready" /\ n \in Nat
      BY <1>a, <3>1
    <3>3. \A k \in DOMAIN t : k > n => k + 1 > n + 1
      BY <1>a, <3>2
    <3> QED
      BY <1>a, <1>b, <3>2, <3>3
  <2>3. /\ Has(t, "turn") \/ Has(t, "response") => req.at \in {"none", "called", "barrier"}
        /\ req.at # "none" \/ Has(t, "turn") => sync.inflight
    BY <1>2 DEF Lags, Answers
  <2>4. Has(t, "response") => v.inflight
    BY <1>2, <1>4, <1>6 DEF Lags, Answers
  <2>5. Has(t, "turn") \/ Has(t, "response") \/ v.inflight = sync.inflight
    <3>1. m.inflight \in BOOLEAN /\ v.inflight \in BOOLEAN
      BY <1>4 DEF MirrorOf
    <3>2. /\ Has(q, "turn") \/ Has(q, "response") \/ m.inflight = sync.inflight
          /\ req.at # "none" \/ Has(q, "turn") => sync.inflight
          /\ Has(q, "response") /\ sync.inflight => Has(q, "turn")
      BY DEF Lags, Answers
    <3>3. CASE x.k = "turn"
      BY <1>2, <1>4, <3>1, <3>2, <3>3
    <3>4. CASE x.k = "response"
      BY <1>2, <1>4, <3>1, <3>2, <3>4
    <3>5. CASE x.k \notin {"turn", "response"}
      BY <1>2, <1>4, <3>1, <3>2, <3>5
    <3> QED
      BY <3>3, <3>4, <3>5
  <2>6. Has(t, "response") /\ sync.inflight => Has(t, "turn")
    BY <1>2, <1>6 DEF Lags, Answers
  <2> QED
    BY <2>1, <2>2, <2>3, <2>4, <2>5, <2>6 DEF Answers
<1>8. /\ x.k # "turn" => m.reasons \subseteq v.reasons
      /\ x.k \in {"input", "result"} => v.reasons # {}
      /\ \A i : Brings(q, 1, i) => i \in v.reasons
      /\ 1 \in DOMAIN q
  <2>1. 1 \in DOMAIN q /\ q[1] = x
    BY <1>1
  <2>2. x.k # "turn" => m.reasons \subseteq v.reasons
    BY <1>1, <1>4
  <2>3. /\ x.k = "input" => x.id \in v.reasons
        /\ x.k = "result" => x.call \in v.reasons
    BY <1>4, <1>5
  <2>4. \A i : Brings(q, 1, i) => i \in v.reasons
    BY <2>1, <2>3 DEF Brings
  <2> QED
    BY <2>1, <2>2, <2>3, <2>4
<1>9. Reasons(v, t)
  <2>1. ASSUME NEW i \in sync.reasons
        PROVE  \/ i \in v.reasons /\ ~Has(t, "turn")
               \/ \E n \in DOMAIN t : Brings(t, n, i) /\ ~TurnIn(t, n, Len(t))
    <3>1. CASE i \in m.reasons /\ ~Has(q, "turn")
      BY <1>2, <1>8, <3>1
    <3>2. CASE \E n \in DOMAIN q : Brings(q, n, i) /\ ~TurnIn(q, n, Len(q))
      <4>1. PICK n \in DOMAIN q : Brings(q, n, i) /\ ~TurnIn(q, n, Len(q))
        BY <3>2
      <4>2. CASE n = 1
        <5>1. ~Has(q, "turn")
          BY <1>1, <4>1, <4>2 DEF TurnIn, Has
        <5> QED
          BY <1>2, <1>8, <4>1, <4>2, <5>1
      <4>3. CASE n # 1
        <5>1. n - 1 \in DOMAIN t /\ n - 1 \in 1..Len(q) /\ (n - 1) + 1 = n /\ Len(t) + 1 = Len(q)
              /\ Len(t) \in 0..(Len(q) - 1)
          BY <1>1, <4>3
        <5>2. Brings(t, n - 1, i) /\ ~TurnIn(t, n - 1, Len(t))
          BY <1>3, <4>1, <5>1
        <5> QED
          BY <5>1, <5>2
      <4> QED
        BY <4>2, <4>3
    <3> QED
      BY <3>1, <3>2 DEF Lags, Reasons
  <2>2. ASSUME NEW n \in DOMAIN t, t[n].k = "turn", ~TurnIn(t, n + 1, Len(t)),
               NEW i \in sync.turnReasons
        PROVE  \/ i \in v.reasons /\ ~TurnIn(t, 1, n - 1)
               \/ \E k \in 1..(n - 1) : Brings(t, k, i) /\ ~TurnIn(t, k, n - 1)
    <3>1. /\ n + 1 \in DOMAIN q /\ q[n + 1].k = "turn" /\ (n + 1) - 1 = n
          /\ n + 1 \in 1..Len(q) /\ n - 1 \in 0..(Len(q) - 1) /\ (n - 1) + 1 = n
          /\ n \in 0..Len(q) /\ Len(t) + 1 = Len(q) /\ Len(t) \in 0..(Len(q) - 1)
          /\ 1 \in 1..Len(q) /\ 1 + 1 = 2
      BY <1>1, <2>2
    <3>2. ~TurnIn(q, (n + 1) + 1, Len(q))
      BY <1>3, <2>2, <3>1
    <3>3. \/ i \in m.reasons /\ ~TurnIn(q, 1, n)
          \/ \E k \in 1..n : Brings(q, k, i) /\ ~TurnIn(q, k, n)
      BY <3>1, <3>2 DEF Lags, Reasons
    <3>4. ~TurnIn(q, 1, n) => x.k # "turn" /\ ~TurnIn(t, 1, n - 1)
      <4>1. ASSUME ~TurnIn(q, 1, n) PROVE x.k # "turn"
        BY <1>1, <3>1, <4>1 DEF TurnIn
      <4> QED
        BY <1>3, <3>1, <4>1
    <3>5. CASE i \in m.reasons /\ ~TurnIn(q, 1, n)
      BY <1>8, <3>4, <3>5
    <3>6. CASE \E k \in 1..n : Brings(q, k, i) /\ ~TurnIn(q, k, n)
      <4>1. PICK k \in 1..n : Brings(q, k, i) /\ ~TurnIn(q, k, n)
        BY <3>6
      <4>2. CASE k = 1
        BY <1>8, <3>4, <4>1, <4>2
      <4>3. CASE k # 1
        <5>1. /\ k - 1 \in DOMAIN t /\ k - 1 \in 1..(n - 1) /\ (k - 1) + 1 = k
              /\ k - 1 \in 1..Len(q)
          BY <1>1, <3>1, <4>3
        <5>2. Brings(t, k - 1, i) /\ ~TurnIn(t, k - 1, n - 1)
          BY <1>3, <3>1, <4>1, <5>1
        <5> QED
          BY <5>1, <5>2
      <4> QED
        BY <4>2, <4>3
    <3> QED
      BY <3>3, <3>5, <3>6
  <2>3. ASSUME NEW n \in DOMAIN t, t[n].k = "turn", ~TurnIn(t, 1, n - 1),
               ~v.inflight \/ Has(t, "response")
        PROVE  v.reasons # {} \/ \E k \in 1..(n - 1) : t[k].k \in {"input", "result"}
    <3>1. x.k # "turn"
      BY <1>4, <1>6, <2>3
    <3>2. ~m.inflight \/ Has(q, "response")
      BY <1>2, <1>4, <2>3, <3>1
    <3>3. /\ n + 1 \in DOMAIN q /\ q[n + 1].k = "turn" /\ (n + 1) - 1 = n
          /\ n - 1 \in 0..(Len(q) - 1) /\ (n - 1) + 1 = n
          /\ n \in 0..Len(q) /\ 1 \in 1..Len(q) /\ 1 + 1 = 2
      BY <1>1, <2>3
    <3>4. ~TurnIn(q, 1, n)
      BY <1>3, <2>3, <3>1, <3>3
    <3>5. m.reasons # {} \/ \E k \in 1..n : q[k].k \in {"input", "result"}
      BY <3>2, <3>3, <3>4 DEF Lags, Reasons
    <3>6. CASE m.reasons # {}
      BY <1>8, <3>1, <3>6
    <3>7. CASE \E k \in 1..n : q[k].k \in {"input", "result"}
      <4>1. PICK k \in 1..n : q[k].k \in {"input", "result"}
        BY <3>7
      <4>2. CASE k = 1
        BY <1>1, <1>8, <4>1, <4>2
      <4>3. CASE k # 1
        <5>1. k - 1 \in 1..(n - 1) /\ k \in DOMAIN q
          BY <1>1, <3>3, <4>3
        <5>2. t[k - 1].k \in {"input", "result"}
          BY <1>1, <4>1, <4>3, <5>1
        <5> QED
          BY <5>1, <5>2
      <4> QED
        BY <4>2, <4>3
    <3> QED
      BY <3>5, <3>6, <3>7
  <2> QED
    BY <2>1, <2>2, <2>3 DEF Reasons
<1>10. CallsOnce(v, t)
  <2>1. /\ x.k = "response" => AnsweredCalls(t) = {}
        /\ Calls \cap Inputs = {}
    BY <1>6, IdsAssumption DEF AnsweredCalls, Has
  <2>2. /\ Results(t) \subseteq Results(q) /\ AnsweredCalls(t) \subseteq AnsweredCalls(q)
        /\ x.k = "response" => x.calls \subseteq AnsweredCalls(q)
        /\ x.k = "result" => x.call \in Results(q)
    BY <1>2
  <2>3. /\ v.outstanding \subseteq m.outstanding \cup AnsweredCalls(q)
        /\ (v.reasons \cup v.turnReasons) \cap Calls \subseteq Seen(m)
        /\ Seen(v) \cap Calls \subseteq (Seen(m) \cap Calls) \cup (IF x.k = "response" THEN x.calls ELSE {})
    BY <1>4, <2>1, <2>2 DEF Seen, MirrorOf
  <2>4. (req.calls \cup AnsweredCalls(t) \cup Results(t) \cup (Seen(v) \cap Calls)
           \cup sync.outstanding) \subseteq Issued
    BY <2>2, <2>3 DEF Lags, CallsOnce
  <2>5. AnsweredCalls(t) \subseteq Calls /\ req.calls \cap Seen(v) = {} /\ AnsweredCalls(t) \cap Seen(v) = {}
    <3>1. AnsweredCalls(t) \cup req.calls \subseteq Calls
      BY <2>2 DEF Lags, CallsOnce, Issued, Calls
    <3>2. req.calls \cap Seen(v) \cap Calls = {} /\ AnsweredCalls(t) \cap Seen(v) \cap Calls = {}
      BY <2>1, <2>2, <2>3 DEF Lags, CallsOnce
    <3> QED
      BY <3>1, <3>2
  <2>6. v.outstanding \cap (v.reasons \cup v.turnReasons) = {}
    BY <1>4, <2>1, <2>2 DEF Lags, CallsOnce, Seen, MirrorOf
  <2>7. /\ sync.outstanding \subseteq v.outstanding \cup AnsweredCalls(t)
        /\ sync.outstanding \cap Results(t) = {}
    BY <1>2, <1>4, <2>2 DEF Lags, CallsOnce
  <2>8. ASSUME NEW n \in DOMAIN t, t[n].k = "result"
        PROVE  \/ t[n].call \in v.outstanding
               \/ \E k \in 1..(n - 1) : t[k].k = "response" /\ t[n].call \in t[k].calls
    <3>1. n + 1 \in DOMAIN q /\ q[n + 1] = t[n] /\ n + 1 # 1 /\ (n + 1) - 1 = n
      BY <1>1
    <3>2. x.k = "result" => x.call # t[n].call
      BY <1>1, <1>8, <2>8, <3>1 DEF Lags, CallsOnce
    <3>3. CASE t[n].call \in m.outstanding
      BY <1>4, <3>2, <3>3
    <3>4. CASE \E k \in 1..n : q[k].k = "response" /\ t[n].call \in q[k].calls
      <4>1. PICK k \in 1..n : q[k].k = "response" /\ t[n].call \in q[k].calls
        BY <3>4
      <4>2. CASE k = 1
        BY <1>1, <1>4, <4>1, <4>2
      <4>3. CASE k # 1
        <5>1. k - 1 \in 1..(n - 1) /\ q[k] = t[k - 1]
          BY <1>1, <3>1, <4>3
        <5> QED
          BY <4>1, <5>1
      <4> QED
        BY <4>2, <4>3
    <3> QED
      BY <2>8, <3>1, <3>3, <3>4 DEF Lags, CallsOnce
  <2>9. \A n, k \in DOMAIN t :
          t[n].k = "result" /\ t[k].k = "result" /\ t[n].call = t[k].call => n = k
    <3>1. SUFFICES ASSUME NEW n \in DOMAIN t, NEW k \in DOMAIN t,
                          t[n].k = "result", t[k].k = "result", t[n].call = t[k].call
                   PROVE  n = k
      OBVIOUS
    <3>2. /\ n + 1 \in DOMAIN q /\ q[n + 1] = t[n] /\ n \in Nat
          /\ k + 1 \in DOMAIN q /\ q[k + 1] = t[k] /\ k \in Nat
      BY <1>1
    <3>3. n + 1 = k + 1
      BY <3>1, <3>2 DEF Lags, CallsOnce
    <3> QED
      BY <3>2, <3>3
  <2>10. /\ issued \in 0..Len(Call) /\ (req.at # "answered" => req.calls = {})
         /\ req.calls \cap (AnsweredCalls(t) \cup Results(t) \cup Seen(v) \cup sync.outstanding) = {}
    BY <2>2, <2>5 DEF Lags, CallsOnce
  <2> QED
    BY <2>4, <2>5, <2>6, <2>7, <2>8, <2>9, <2>10 DEF CallsOnce
<1> QED
  BY <1>5, <1>7, <1>9, <1>10 DEF Lags, t, x, v

-----------------------------------------------------------------------------
(* The session as a handler finds it, without the function in the queue.   *)

\* What the queue says less, and the parts of the invariant that only shrink.
LEMMA TailParts ==
  ASSUME NEW q \in Seq(Message), q # <<>>, NEW w, NEW h, Good(w, q, h)
  PROVE  /\ Exits(w, Tail(q))
         /\ Head(q).k \notin {"input"} => Inbox(w, Tail(q)) /\ Sent(w, Tail(q))
         /\ Head(q).k # "submit" => Apart(w, Tail(q), h)
         /\ (Head(q).k = "start" => Open(w)) => InTurn(w, Tail(q))
         /\ Head(q).k = "exit" => ~Has(Tail(q), "exit") /\ ~Has(Tail(q), "response")
<1> DEFINE t == Tail(q)
           x == Head(q)
<1>1. /\ DOMAIN q = 1..Len(q) /\ DOMAIN t = 1..(Len(q) - 1)
      /\ Len(q) \in Nat /\ Len(q) > 0 /\ q[1] = x
      /\ \A n \in 1..(Len(q) - 1) : t[n] = q[n + 1]
      /\ \A n \in DOMAIN q : n # 1 => n - 1 \in DOMAIN t /\ q[n] = t[n - 1]
  BY TailIs
<1>2. /\ \A k : Has(q, k) <=> x.k = k \/ Has(t, k)
      /\ \A i : Input(q, i) <=> (x.k = "input" /\ x.id = i) \/ Input(t, i)
      /\ Submits(q) = Submits(t) \cup (IF x.k = "submit" THEN {x.line} ELSE {})
  BY TailHas
<1> HIDE DEF t, x
<1>3. \A n \in DOMAIN t : n + 1 \in DOMAIN q /\ q[n + 1] = t[n] /\ 1 < n + 1 /\ n \in Nat
  BY <1>1
<1>4. Exits(w, t)
  <2>1. \A n, k \in DOMAIN t : n < k /\ t[n].k = "exit" => t[k].k \notin {"exit", "response"}
    <3>1. SUFFICES ASSUME NEW n \in DOMAIN t, NEW k \in DOMAIN t, n < k, t[n].k = "exit"
                   PROVE  t[k].k \notin {"exit", "response"}
      OBVIOUS
    <3>2. /\ n + 1 \in DOMAIN q /\ k + 1 \in DOMAIN q /\ n + 1 < k + 1
          /\ q[n + 1] = t[n] /\ q[k + 1] = t[k]
      BY <1>3, <3>1
    <3> QED
      BY <3>1, <3>2 DEF Good, Exits
  <2> QED
    BY <1>2, <2>1 DEF Good, Exits
<1>5. ASSUME x.k \notin {"input"} PROVE Inbox(w, t) /\ Sent(w, t)
  <2>1. \A i : Input(q, i) <=> Input(t, i)
    BY <1>2, <1>5
  <2>2. \A n, k \in DOMAIN t : t[n].k = "input" /\ t[k].k = "input" /\ t[n].id = t[k].id => n = k
    <3>1. SUFFICES ASSUME NEW n \in DOMAIN t, NEW k \in DOMAIN t,
                          t[n].k = "input", t[k].k = "input", t[n].id = t[k].id
                   PROVE  n = k
      OBVIOUS
    <3>2. /\ n + 1 \in DOMAIN q /\ q[n + 1] = t[n] /\ n \in Nat
          /\ k + 1 \in DOMAIN q /\ q[k + 1] = t[k] /\ k \in Nat
      BY <1>3
    <3>3. n + 1 = k + 1
      BY <3>1, <3>2 DEF Good, Sent
    <3> QED
      BY <3>2, <3>3
  <2> QED
    BY <2>1, <2>2 DEF Good, Inbox, Owes, Sent
<1>6. ASSUME x.k # "submit" PROVE Apart(w, t, h)
  <2>1. Submits(q) = Submits(t)
    BY <1>2, <1>6
  <2>2. \A n, k \in DOMAIN t :
          t[n].k = "submit" /\ t[k].k = "submit" /\ t[n].line = t[k].line => n = k
    <3>1. SUFFICES ASSUME NEW n \in DOMAIN t, NEW k \in DOMAIN t,
                          t[n].k = "submit", t[k].k = "submit", t[n].line = t[k].line
                   PROVE  n = k
      OBVIOUS
    <3>2. /\ n + 1 \in DOMAIN q /\ q[n + 1] = t[n] /\ n \in Nat
          /\ k + 1 \in DOMAIN q /\ q[k + 1] = t[k] /\ k \in Nat
      BY <1>3
    <3>3. n + 1 = k + 1
      BY <3>1, <3>2 DEF Good, Apart
    <3> QED
      BY <3>2, <3>3
  <2> QED
    BY <2>1, <2>2 DEF Good, Apart
<1>7. ASSUME x.k = "start" => Open(w) PROVE InTurn(w, t)
  <2>1. Has(q, "start") => Open(w) \/ Has(t, "start")
    BY <1>2, <1>7
  <2>2. ASSUME NEW n \in DOMAIN t, t[n].k = "response", t[n].calls # {}
        PROVE  Open(w) \/ w.how = "cancel" \/ \E k \in 1..(n - 1) : t[k].k = "start"
    <3>1. n + 1 \in DOMAIN q /\ q[n + 1] = t[n] /\ n \in Nat /\ (n + 1) - 1 = n
      BY <1>3
    <3>2. Open(w) \/ w.how = "cancel" \/ \E k \in 1..n : q[k].k = "start"
      BY <2>2, <3>1 DEF Good, InTurn
    <3>3. ASSUME NEW k \in 1..n, q[k].k = "start"
          PROVE  Open(w) \/ \E j \in 1..(n - 1) : t[j].k = "start"
      <4>1. CASE k = 1
        BY <1>1, <1>7, <3>3, <4>1
      <4>2. CASE k # 1
        <5>1. k - 1 \in 1..(n - 1) /\ q[k] = t[k - 1]
          BY <1>1, <3>1, <4>2
        <5> QED
          BY <3>3, <5>1
      <4> QED
        BY <4>1, <4>2
    <3> QED
      BY <3>2, <3>3
  <2> QED
    BY <2>1, <2>2 DEF Good, InTurn
<1>8. ASSUME x.k = "exit" PROVE ~Has(t, "exit") /\ ~Has(t, "response")
  <2>1. SUFFICES ASSUME NEW n \in DOMAIN t, t[n].k \in {"exit", "response"} PROVE FALSE
    BY DEF Has
  <2>2. 1 \in DOMAIN q /\ q[1].k = "exit" /\ n + 1 \in DOMAIN q /\ q[n + 1] = t[n] /\ 1 < n + 1
    BY <1>1, <1>3, <1>8
  <2> QED
    BY <2>1, <2>2 DEF Good, Exits
<1> QED
  BY <1>4, <1>5, <1>6, <1>7, <1>8 DEF t, x

LEMMA TailGood ==
  ASSUME NEW q \in Seq(Message), q # <<>>, NEW w, NEW h, Good(w, q, h),
         Head(q).k \notin {"input", "submit"}, Head(q).k = "start" => Open(w)
  PROVE  Good(w, Tail(q), h)
<1>1. Exits(w, Tail(q)) /\ Inbox(w, Tail(q)) /\ Sent(w, Tail(q)) /\ Apart(w, Tail(q), h)
      /\ InTurn(w, Tail(q))
  BY TailParts
<1> QED
  BY <1>1 DEF Good

\* submit: the line is in hand.
LEMMA SubmitTail ==
  ASSUME NEW q \in Seq(Message), q # <<>>, NEW w, Good(w, q, {}), Head(q).k = "submit"
  PROVE  Head(q).line \in Lines /\ Good(w, Tail(q), {Head(q).line})
<1> DEFINE t == Tail(q)
           x == Head(q)
           l == x.line
<1>1. /\ DOMAIN q = 1..Len(q) /\ DOMAIN t = 1..(Len(q) - 1)
      /\ Len(q) \in Nat /\ Len(q) > 0 /\ q[1] = x /\ x \in Message
      /\ \A n \in 1..(Len(q) - 1) : t[n] = q[n + 1]
  BY TailIs
<1>2. Submits(q) = Submits(t) \cup {l}
  BY TailHas
<1>3. l \in Lines
  BY <1>1 DEF Message
<1>4. Exits(w, t) /\ Inbox(w, t) /\ Sent(w, t) /\ InTurn(w, t)
  BY TailParts
<1>5. x.k = "submit"
  OBVIOUS
<1> HIDE DEF t, x
<1>6. \A n \in DOMAIN t : n + 1 \in DOMAIN q /\ q[n + 1] = t[n] /\ 1 < n + 1 /\ n \in Nat
  BY <1>1
<1>7. l \notin Submits(t)
  <2>1. SUFFICES ASSUME NEW n \in DOMAIN t, t[n].k = "submit", t[n].line = l PROVE FALSE
    BY DEF Submits
  <2>2. 1 \in DOMAIN q /\ q[1].k = "submit" /\ q[1].line = l
    BY <1>1, <1>5
  <2>3. n + 1 \in DOMAIN q /\ q[n + 1].k = "submit" /\ q[n + 1].line = l /\ 1 # n + 1
    BY <1>6, <2>1
  <2> QED
    BY <2>2, <2>3 DEF Good, Apart
<1>8. \A n, k \in DOMAIN t :
        t[n].k = "submit" /\ t[k].k = "submit" /\ t[n].line = t[k].line => n = k
  <2>1. SUFFICES ASSUME NEW n \in DOMAIN t, NEW k \in DOMAIN t,
                        t[n].k = "submit", t[k].k = "submit", t[n].line = t[k].line
                 PROVE  n = k
    OBVIOUS
  <2>2. /\ n + 1 \in DOMAIN q /\ q[n + 1] = t[n] /\ n \in Nat
        /\ k + 1 \in DOMAIN q /\ q[k + 1] = t[k] /\ k \in Nat
    BY <1>6
  <2>3. n + 1 = k + 1
    BY <2>1, <2>2 DEF Good, Apart
  <2> QED
    BY <2>2, <2>3
<1> HIDE DEF l
<1>9. l \notin w.news /\ l \notin Elements(w.steerIn) /\ l \notin Steers
  <2>1. w.news \subseteq News /\ Elements(w.steerIn) \subseteq Steers
    BY ElementsIn DEF Good, Typed, Session
  <2> QED
    BY <1>3, <2>1, IdsAssumption
<1>10. Apart(w, t, {l})
  BY <1>2, <1>7, <1>8, <1>9 DEF Good, Apart
<1>11. Landing(w, {l})
  BY <1>9 DEF Good, Landing, Apart
<1> QED
  BY <1>3, <1>4, <1>10, <1>11 DEF Good, t, x, l

\* item: a request takes what is pending.
LEMMA TurnTail ==
  ASSUME NEW q \in Seq(Message), q # <<>>, NEW w, Good(w, q, {}), Head(q).k = "turn"
  PROVE  Good([w EXCEPT !.m = ApplyTurn(w.m)], Tail(q), {})
<1> DEFINE t == Tail(q)
           m == ApplyTurn(w.m)
           v == [w EXCEPT !.m = m]
<1>0. w \in Session /\ w.m \in MirrorOf(Inputs, Calls)
  BY DEF Good, Typed, Session
<1>1. Good(w, t, {})
  BY TailGood
<1>2. m \in MirrorOf(Inputs, Calls) /\ m.outstanding = w.m.outstanding
      /\ m.reasons \cup m.turnReasons \subseteq w.m.reasons \cup w.m.turnReasons
  BY <1>0 DEF ApplyTurn, MirrorOf
<1> HIDE DEF m, t
<1>3. v \in Session
  BY ZenonT(60),<1>0, <1>2 DEF Session
<1>4. /\ v.unobserved = w.unobserved /\ v.run = w.run /\ v.alive = w.alive
      /\ v.inbox = w.inbox /\ v.restart = w.restart /\ v.inputs = w.inputs
      /\ v.steerIn = w.steerIn /\ v.told = w.told /\ v.turn = w.turn /\ v.m = m
      /\ v.steerQ = w.steerQ /\ v.noticeQ = w.noticeQ /\ v.notes = w.notes
      /\ v.pending = w.pending /\ v.news = w.news /\ v.adopted = w.adopted
      /\ v.ended = w.ended /\ v.cancelled = w.cancelled /\ v.cancelling = w.cancelling
      /\ v.parked = w.parked /\ v.muted = w.muted /\ v.userStop = w.userStop
      /\ v.steerable = w.steerable /\ v.promised = w.promised
      /\ v.begun = w.begun /\ v.known = w.known /\ v.hushed = w.hushed /\ v.how = w.how
  BY <1>0 DEF Session
<1> HIDE DEF v
<1>5. Typed(v) /\ Exits(v, t) /\ Inbox(v, t) /\ Sent(v, t) /\ Boundary(v)
  BY <1>1, <1>3, <1>4 DEF Good, Typed, Exits, Inbox, Sent, Owes, Boundary, Waiting
<1>6. Apart(v, t, {}) /\ Landing(v, {})
  BY <1>1, <1>4 DEF Good, Apart, Landing, Open, Cancelling
<1>7. InTurn(v, t)
  BY <1>1, <1>2, <1>4 DEF Good, InTurn, Open
<1>8. Parks(v)
  BY <1>1, <1>2, <1>4 DEF Good, Parks
<1> QED
  BY <1>5, <1>6, <1>7, <1>8 DEF Good, v, m, t

\* item: an input was recorded.
LEMMA InputTail ==
  ASSUME NEW q \in Seq(Message), q # <<>>, NEW w, Good(w, q, {}), Head(q).k = "input"
  PROVE  LET i == Head(q).id
         IN /\ Good([w EXCEPT !.m = ApplyInput(w.m, i), !.unobserved = w.unobserved \ {i}],
                    Tail(q), {})
            /\ i \in Inputs /\ ~Input(Tail(q), i)
<1> DEFINE t == Tail(q)
           x == Head(q)
           i == x.id
           m == ApplyInput(w.m, i)
           U == w.unobserved \ {i}
           v == [w EXCEPT !.m = m, !.unobserved = U]
<1>0. w \in Session /\ w.m \in MirrorOf(Inputs, Calls) /\ w.unobserved \subseteq Inputs
      /\ IsFiniteSet(w.unobserved) /\ w.adopted \subseteq Calls
  BY DEF Good, Typed, Session
<1>1. /\ DOMAIN q = 1..Len(q) /\ DOMAIN t = 1..(Len(q) - 1)
      /\ Len(q) \in Nat /\ Len(q) > 0 /\ q[1] = x /\ x \in Message
      /\ \A n \in 1..(Len(q) - 1) : t[n] = q[n + 1]
  BY TailIs
<1>2. x.k = "input" /\ i \in Inputs
  BY <1>1 DEF Message
<1>3. \A j : Input(q, j) <=> j = i \/ Input(t, j)
  BY <1>2, TailHas
<1>4. Exits(w, t) /\ Apart(w, t, {}) /\ InTurn(w, t)
  BY TailParts
<1>5. /\ m \in MirrorOf(Inputs, Calls) /\ m.outstanding = w.m.outstanding
      /\ m.reasons \cup m.turnReasons = w.m.reasons \cup w.m.turnReasons \cup {i}
  BY <1>0, <1>2 DEF ApplyInput, MirrorOf
<1>6. U \subseteq Inputs /\ IsFiniteSet(U) /\ U = w.unobserved \ {i}
  BY <1>0, FS_Subset
<1> HIDE DEF t, x, m, U
<1>7. \A n \in DOMAIN t : n + 1 \in DOMAIN q /\ q[n + 1] = t[n] /\ 1 < n + 1 /\ n \in Nat
  BY <1>1
<1>8. ~Input(t, i)
  <2>1. SUFFICES ASSUME NEW n \in DOMAIN t, t[n].k = "input", t[n].id = i PROVE FALSE
    BY DEF Input
  <2>2. 1 \in DOMAIN q /\ q[1].k = "input" /\ q[1].id = i
    BY <1>1, <1>2
  <2>3. n + 1 \in DOMAIN q /\ q[n + 1].k = "input" /\ q[n + 1].id = i /\ 1 # n + 1
    BY <1>7, <2>1
  <2> QED
    BY <2>2, <2>3 DEF Good, Sent
<1>9. \A n, k \in DOMAIN t : t[n].k = "input" /\ t[k].k = "input" /\ t[n].id = t[k].id => n = k
  <2>1. SUFFICES ASSUME NEW n \in DOMAIN t, NEW k \in DOMAIN t,
                        t[n].k = "input", t[k].k = "input", t[n].id = t[k].id
                 PROVE  n = k
    OBVIOUS
  <2>2. /\ n + 1 \in DOMAIN q /\ q[n + 1] = t[n] /\ n \in Nat
        /\ k + 1 \in DOMAIN q /\ q[k + 1] = t[k] /\ k \in Nat
    BY <1>7
  <2>3. n + 1 = k + 1
    BY <2>1, <2>2 DEF Good, Sent
  <2> QED
    BY <2>2, <2>3
<1>10. i \in w.unobserved /\ i \in w.inputs
  BY <1>2, <1>3 DEF Good, Sent
<1> HIDE DEF i
<1>11. v \in Session
  <2>1. m \in MirrorOf(Inputs, Calls) /\ U \in SUBSET Inputs /\ w \in Session
    BY <1>0, <1>5, <1>6
  <2> QED
    BY ZenonT(60),<2>1 DEF Session
<1>12. /\ v.unobserved = U /\ v.run = w.run /\ v.alive = w.alive
      /\ v.inbox = w.inbox /\ v.restart = w.restart /\ v.inputs = w.inputs
      /\ v.steerIn = w.steerIn /\ v.told = w.told /\ v.turn = w.turn /\ v.m = m
      /\ v.steerQ = w.steerQ /\ v.noticeQ = w.noticeQ /\ v.notes = w.notes
      /\ v.pending = w.pending /\ v.news = w.news /\ v.adopted = w.adopted
      /\ v.ended = w.ended /\ v.cancelled = w.cancelled /\ v.cancelling = w.cancelling
      /\ v.parked = w.parked /\ v.muted = w.muted /\ v.userStop = w.userStop
      /\ v.steerable = w.steerable /\ v.promised = w.promised
      /\ v.begun = w.begun /\ v.known = w.known /\ v.hushed = w.hushed /\ v.how = w.how
  BY <1>0 DEF Session
<1> HIDE DEF v
<1>13. Typed(v) /\ Exits(v, t)
  BY <1>4, <1>6, <1>11, <1>12 DEF Good, Typed, Exits
<1>14. Owes(v, t) = Owes(w, q)
  BY <1>3, <1>6, <1>8, <1>12 DEF Owes
<1>15. Inbox(v, t)
  BY <1>12, <1>14 DEF Good, Inbox
<1>16. Sent(v, t)
  BY <1>3, <1>6, <1>8, <1>9, <1>12 DEF Good, Sent
<1>17. Boundary(v)
  BY <1>6, <1>12 DEF Good, Boundary, Waiting
<1>18. Apart(v, t, {}) /\ Landing(v, {})
  BY <1>4, <1>12 DEF Good, Apart, Landing, Open, Cancelling
<1>19. InTurn(v, t)
  BY <1>4, <1>5, <1>12 DEF InTurn, Open
<1>20. Parks(v)
  <2>1. i \notin w.adopted
    BY <1>0, <1>2, IdsAssumption
  <2> QED
    BY <1>5, <1>10, <1>12, <2>1 DEF Good, Parks
<1> QED
  BY <1>2, <1>8, <1>13, <1>15, <1>16, <1>17, <1>18, <1>19, <1>20 DEF Good, v, m, t, U, i, x

\* item: the request answered.
LEMMA ResponseTail ==
  ASSUME NEW q \in Seq(Message), q # <<>>, NEW w, Good(w, q, {}), Head(q).k = "response"
  PROVE  Good([w EXCEPT !.m = ApplyResponse(w.m, Head(q).calls)], Tail(q), {})
<1> DEFINE t == Tail(q)
           x == Head(q)
           C == x.calls
           m == ApplyResponse(w.m, C)
           v == [w EXCEPT !.m = m]
<1>0. w \in Session /\ w.m \in MirrorOf(Inputs, Calls)
  BY DEF Good, Typed, Session
<1>1. Good(w, t, {})
  BY TailGood
<1>2. /\ DOMAIN q = 1..Len(q) /\ Len(q) > 0 /\ Len(q) \in Nat /\ q[1] = x /\ x \in Message
  BY TailIs
<1>3. x.k = "response" /\ C \subseteq Calls
  BY <1>2 DEF Message
<1>4. /\ m \in MirrorOf(Inputs, Calls) /\ m.outstanding = w.m.outstanding \cup C
      /\ m.reasons = w.m.reasons /\ m.turnReasons = w.m.turnReasons
  <2> DEFINE O == w.m.outstanding \cup C
  <2>1. m = [w.m EXCEPT !.inflight = FALSE, !.outstanding = O] /\ O = w.m.outstanding \cup C
    BY DEF ApplyResponse
  <2>2. O \subseteq Calls
    BY <1>0, <1>3 DEF MirrorOf
  <2> HIDE DEF O, m, C
  <2> QED
    BY <1>0, <2>1, <2>2 DEF MirrorOf
<1>5. C # {} => Open(w) \/ w.how = "cancel"
  <2>1. 1 \in DOMAIN q /\ ~(\E k \in 1..(1 - 1) : q[k].k = "start")
    BY <1>2
  <2> QED
    BY <1>2, <1>3, <2>1 DEF Good, InTurn
<1> HIDE DEF m, t, x, C
<1>6. v \in Session
  BY ZenonT(60),<1>0, <1>4 DEF Session
<1>7. /\ v.unobserved = w.unobserved /\ v.run = w.run /\ v.alive = w.alive
      /\ v.inbox = w.inbox /\ v.restart = w.restart /\ v.inputs = w.inputs
      /\ v.steerIn = w.steerIn /\ v.told = w.told /\ v.turn = w.turn /\ v.m = m
      /\ v.steerQ = w.steerQ /\ v.noticeQ = w.noticeQ /\ v.notes = w.notes
      /\ v.pending = w.pending /\ v.news = w.news /\ v.adopted = w.adopted
      /\ v.ended = w.ended /\ v.cancelled = w.cancelled /\ v.cancelling = w.cancelling
      /\ v.parked = w.parked /\ v.muted = w.muted /\ v.userStop = w.userStop
      /\ v.steerable = w.steerable /\ v.promised = w.promised
      /\ v.begun = w.begun /\ v.known = w.known /\ v.hushed = w.hushed /\ v.how = w.how
  BY <1>0 DEF Session
<1> HIDE DEF v
<1>8. Typed(v) /\ Exits(v, t) /\ Inbox(v, t) /\ Sent(v, t) /\ Boundary(v)
  BY <1>1, <1>6, <1>7 DEF Good, Typed, Exits, Inbox, Sent, Owes, Boundary, Waiting
<1>9. Apart(v, t, {}) /\ Landing(v, {})
  BY <1>1, <1>7 DEF Good, Apart, Landing, Open, Cancelling
<1>10. InTurn(v, t)
  BY <1>1, <1>4, <1>5, <1>7 DEF Good, InTurn, Open
<1>11. Parks(v)
  BY <1>1, <1>4, <1>7 DEF Good, Parks
<1> QED
  BY <1>8, <1>9, <1>10, <1>11 DEF Good, v, m, t, C, x

\* item: a call has its result.
LEMMA ResultTail ==
  ASSUME NEW q \in Seq(Message), q # <<>>, NEW w, Good(w, q, {}), Head(q).k = "result"
  PROVE  LET c == Head(q).call
         IN Good([w EXCEPT !.m = ApplyResult(w.m, c), !.cancelled = w.cancelled \ {c},
                           !.ended = w.ended \cup ({c} \cap w.adopted)], Tail(q), {})
<1> DEFINE t == Tail(q)
           c == Head(q).call
           m == ApplyResult(w.m, c)
           C == w.cancelled \ {c}
           E == w.ended \cup ({c} \cap w.adopted)
           v == [w EXCEPT !.m = m, !.cancelled = C, !.ended = E]
<1>0. w \in Session /\ w.m \in MirrorOf(Inputs, Calls) /\ w.cancelled \subseteq Calls
      /\ w.ended \subseteq Calls
  BY DEF Good, Typed, Session
<1>1. Good(w, t, {})
  BY TailGood
<1>2. c \in Calls
  BY TailIs DEF Message
<1> HIDE DEF t, c
<1>3. /\ m \in MirrorOf(Inputs, Calls) /\ m.outstanding = w.m.outstanding \ {c}
      /\ m.reasons \cup m.turnReasons \subseteq w.m.reasons \cup w.m.turnReasons \cup {c}
  BY <1>0, <1>2 DEF ApplyResult, MirrorOf
<1>4. /\ C \subseteq Calls /\ C = w.cancelled \ {c}
      /\ E \subseteq Calls /\ E = w.ended \cup ({c} \cap w.adopted)
  BY <1>0, <1>2
<1> HIDE DEF m, C, E
<1>5. v \in Session
  <2>1. m \in MirrorOf(Inputs, Calls) /\ C \in SUBSET Calls /\ E \in SUBSET Calls /\ w \in Session
    BY <1>0, <1>3, <1>4
  <2> QED
    BY ZenonT(60),<2>1 DEF Session
<1>6. /\ v.unobserved = w.unobserved /\ v.run = w.run /\ v.alive = w.alive
      /\ v.inbox = w.inbox /\ v.restart = w.restart /\ v.inputs = w.inputs
      /\ v.steerIn = w.steerIn /\ v.told = w.told /\ v.turn = w.turn /\ v.m = m
      /\ v.steerQ = w.steerQ /\ v.noticeQ = w.noticeQ /\ v.notes = w.notes
      /\ v.pending = w.pending /\ v.news = w.news /\ v.adopted = w.adopted
      /\ v.ended = E /\ v.cancelled = C /\ v.cancelling = w.cancelling
      /\ v.parked = w.parked /\ v.muted = w.muted /\ v.userStop = w.userStop
      /\ v.steerable = w.steerable /\ v.promised = w.promised
      /\ v.begun = w.begun /\ v.known = w.known /\ v.hushed = w.hushed /\ v.how = w.how
  BY <1>0 DEF Session
<1> HIDE DEF v
<1>7. Typed(v) /\ Exits(v, t) /\ Inbox(v, t) /\ Sent(v, t) /\ Boundary(v)
  BY <1>1, <1>5, <1>6 DEF Good, Typed, Exits, Inbox, Sent, Owes, Boundary, Waiting
<1>8. Apart(v, t, {}) /\ Landing(v, {})
  BY <1>1, <1>6 DEF Good, Apart, Landing, Open, Cancelling
<1>9. InTurn(v, t)
  BY <1>1, <1>3, <1>4, <1>6 DEF Good, InTurn, Open
<1>10. Parks(v)
  <2>1. c \notin Inputs
    BY <1>2, IdsAssumption
  <2> QED
    BY <1>1, <1>3, <1>4, <1>6, <2>1 DEF Good, Parks
<1> QED
  BY <1>7, <1>8, <1>9, <1>10 DEF Good, v, m, t, C, E, c

\* runExit: the coordinator that is heard of is gone.
LEMMA ExitTail ==
  ASSUME NEW q \in Seq(Message), q # <<>>, NEW w, Good(w, q, {}), Head(q).k = "exit"
  PROVE  /\ Good([w EXCEPT !.run = "none", !.restart = "no"], Tail(q), {})
         /\ NothingOut(Tail(q)) /\ (w.run = "up" => deaths # 0)
<1> DEFINE t == Tail(q)
           v == [w EXCEPT !.run = "none", !.restart = "no"]
<1>0. w \in Session
  BY DEF Good, Typed
<1>1. Good(w, t, {})
  BY TailGood
<1>2. ~Has(t, "exit") /\ ~Has(t, "response")
  BY TailParts
<1>3. Has(q, "exit")
  BY TailHas
<1>4. ~w.alive /\ req.at = "none" /\ (w.run = "up" => deaths > 0)
  BY <1>3 DEF Good, Exits
<1> HIDE DEF t
<1>5. v \in Session
  BY ZenonT(60),<1>0 DEF Session
<1>6. /\ v.unobserved = w.unobserved /\ v.run = "none" /\ v.alive = w.alive
      /\ v.inbox = w.inbox /\ v.restart = "no" /\ v.inputs = w.inputs
      /\ v.steerIn = w.steerIn /\ v.told = w.told /\ v.turn = w.turn /\ v.m = w.m
      /\ v.steerQ = w.steerQ /\ v.noticeQ = w.noticeQ /\ v.notes = w.notes
      /\ v.pending = w.pending /\ v.news = w.news /\ v.adopted = w.adopted
      /\ v.ended = w.ended /\ v.cancelled = w.cancelled /\ v.cancelling = w.cancelling
      /\ v.parked = w.parked /\ v.muted = w.muted /\ v.userStop = w.userStop
      /\ v.steerable = w.steerable /\ v.promised = w.promised
      /\ v.begun = w.begun /\ v.known = w.known /\ v.hushed = w.hushed /\ v.how = w.how
  BY <1>0 DEF Session
<1> HIDE DEF v
<1>7. Typed(v) /\ Exits(v, t) /\ Inbox(v, t) /\ Sent(v, t) /\ Boundary(v)
  BY <1>1, <1>2, <1>4, <1>5, <1>6 DEF Good, Typed, Exits, Inbox, Sent, Owes, Boundary, Waiting
<1>8. Apart(v, t, {}) /\ Landing(v, {})
  BY <1>1, <1>6 DEF Good, Apart, Landing, Open, Cancelling
<1>9. InTurn(v, t) /\ Parks(v)
  BY <1>1, <1>6 DEF Good, InTurn, Open, Parks
<1>10. NothingOut(t)
  BY <1>2, <1>4 DEF NothingOut
<1> QED
  BY <1>4, <1>7, <1>8, <1>9, <1>10 DEF Good, v, t

-----------------------------------------------------------------------------
(* When the actor finds nothing pending there is nothing but jobs.         *)

LEMMA LeastNat ==
  ASSUME NEW T \in SUBSET Nat, T # {}
  PROVE  \E n \in T : \A k \in T : n <= k
<1> DEFINE R == OpToRel(<, Nat)
<1>1. PICK n \in T : \A k \in T : <<k, n>> \notin R
  BY NatLessThanWellFounded, WFMin
<1>2. \A k \in T : ~(k < n)
  BY <1>1 DEF OpToRel
<1> QED
  BY <1>2

\* The turns in the queue have a first and a last.
LEMMA FirstAndLastTurn ==
  ASSUME NEW q \in Seq(Message), Has(q, "turn")
  PROVE  /\ \E n \in DOMAIN q : q[n].k = "turn" /\ ~TurnIn(q, 1, n - 1)
         /\ \E n \in DOMAIN q : q[n].k = "turn" /\ ~TurnIn(q, n + 1, Len(q))
<1> DEFINE T == {n \in DOMAIN q : q[n].k = "turn"}
           B == {Len(q) - n : n \in T}
<1>1. DOMAIN q = 1..Len(q) /\ Len(q) \in Nat
  OBVIOUS
<1>2. T # {} /\ T \subseteq Nat /\ B # {} /\ B \subseteq Nat
  BY <1>1 DEF Has
<1>3. PICK n \in T : \A k \in T : n <= k
  BY <1>2, LeastNat
<1>4. ~TurnIn(q, 1, n - 1)
  BY <1>1, <1>3 DEF TurnIn
<1>5. PICK b \in B : \A k \in B : b <= k
  BY <1>2, LeastNat
<1>6. PICK l \in T : b = Len(q) - l
  BY <1>5
<1>7. ASSUME NEW k \in T PROVE k <= l
  <2>1. Len(q) - k \in B
    OBVIOUS
  <2>2. b <= Len(q) - k
    BY <1>5, <2>1
  <2>3. k \in Nat /\ l \in Nat /\ Len(q) \in Nat
    BY <1>1
  <2> HIDE DEF T, B
  <2> QED
    BY <1>6, <2>2, <2>3
<1>8. ~TurnIn(q, l + 1, Len(q))
  BY <1>1, <1>6, <1>7 DEF TurnIn
<1> QED
  BY <1>3, <1>4, <1>6, <1>8

\* The mirror that lags behind is quiet, and so is the coordinator's, but for
\* the jobs whose results are on their way.
LEMMA QuietHolds ==
  ASSUME NEW q \in Seq(Message), NEW m, Lags(m, q), sync.inflight \in BOOLEAN,
         ~m.inflight, m.reasons = {}, NEW J, m.outstanding \subseteq J, ~Has(q, "input")
  PROVE  /\ sync.reasons \cup sync.outstanding \subseteq J
         /\ sync.inflight => J # {} /\ sync.turnReasons \subseteq J
<1>1. ~Has(q, "response")
  BY DEF Lags, Answers
<1>2. DOMAIN q = 1..Len(q) /\ Len(q) \in Nat
  OBVIOUS
<1>3. AnsweredCalls(q) = {}
  BY <1>1 DEF AnsweredCalls, Has
<1>4. \A n \in DOMAIN q : q[n].k = "result" => q[n].call \in J
  <2>1. SUFFICES ASSUME NEW n \in DOMAIN q, q[n].k = "result" PROVE q[n].call \in m.outstanding
    OBVIOUS
  <2>2. ~(\E k \in 1..(n - 1) : q[k].k = "response" /\ q[n].call \in q[k].calls)
    BY <1>1, <1>2 DEF Has
  <2> QED
    BY <2>1, <2>2 DEF Lags, CallsOnce
<1>5. \A n \in DOMAIN q : \A x : Brings(q, n, x) => x \in J
  BY <1>4 DEF Brings, Has
<1>6. sync.reasons \subseteq J
  BY <1>5 DEF Lags, Reasons
<1>7. sync.outstanding \subseteq J
  BY <1>3 DEF Lags, CallsOnce
<1>8. ASSUME sync.inflight PROVE J # {} /\ sync.turnReasons \subseteq J
  <2>1. Has(q, "turn")
    BY <1>1, <1>8 DEF Lags, Answers
  <2>2. PICK f \in DOMAIN q : q[f].k = "turn" /\ ~TurnIn(q, 1, f - 1)
    BY <2>1, FirstAndLastTurn
  <2>3. PICK l \in DOMAIN q : q[l].k = "turn" /\ ~TurnIn(q, l + 1, Len(q))
    BY <2>1, FirstAndLastTurn
  <2>4. PICK k \in 1..(f - 1) : q[k].k \in {"input", "result"}
    BY <2>2 DEF Lags, Reasons
  <2>5. k \in DOMAIN q
    BY <1>2, <2>4
  <2>6. J # {}
    BY <1>4, <2>4, <2>5 DEF Has
  <2>7. ASSUME NEW x \in sync.turnReasons PROVE x \in J
    <3>1. PICK j \in 1..(l - 1) : Brings(q, j, x)
      BY <2>3 DEF Lags, Reasons
    <3>2. j \in DOMAIN q
      BY <1>2, <3>1
    <3> QED
      BY <1>5, <3>1, <3>2
  <2> QED
    BY <2>6, <2>7
<1> QED
  BY <1>6, <1>7, <1>8

-----------------------------------------------------------------------------
(* The actor's steps: a handler, then evaluate.                            *)

\* What a handler leaves behind.
Handled(w) ==
  /\ Good(w, Tail(fifo), {}) /\ Lags(w.m, Tail(fifo))
  /\ Open(s) /\ w.turn # s.turn => ~Open(w) /\ w.how # "done"
  /\ Open(s) /\ w.turn = s.turn /\ ~Cancelling(w) =>
       w.ended \subseteq s.adopted /\ w.cancelled \subseteq s.cancelled
  /\ w.unobserved = {} => Owes(s, fifo) = {}
  /\ s.drain # "returned" => w.drain # "returned"
  /\ s.hushed => w.hushed

\* What the step leaves behind.
Stepped(v) ==
  /\ Good(v, Tail(fifo), {}) /\ Lags(v.m, Tail(fifo))
  /\ Open(s) /\ v.turn # s.turn /\ v.how = "done" =>
       /\ QuietFor(s.adopted \cup v.adopted \cup s.cancelled)
       /\ v.steerIn = <<>> /\ v.steerQ = <<>>
  /\ s.drain # "returned" /\ v.drain = "returned" => v.run = "none" \/ QuietFor({})
  /\ s.hushed => v.hushed

LEMMA EvaluateSteps ==
  ASSUME IInv, fifo # <<>>, NEW w, Handled(w),
         NEW nudge, nudge = <<>> \/ \E n \in Nudges \ w.inputs : nudge = <<n>>
  PROVE  Stepped(Evaluate(w, nudge))
<1> DEFINE t == Tail(fifo)
           v == Evaluate(w, nudge)
<1>0. /\ t \in Seq(Message) /\ sync.inflight \in BOOLEAN
      /\ Inbox(s, fifo) /\ s.inbox \in Seq(Inputs)
  BY TailIs DEF IInv, TypedRest, MirrorOf, Good, Typed, Session
<1>1. /\ Good(v, t, {}) /\ v.m = w.m
      /\ ~Open(w) => v.how = w.how
      /\ Open(w) /\ v.turn # w.turn /\ v.how = "done" => Over(v, w)
      /\ v.drain = "returned" /\ w.drain # "returned" => Spent(v) /\ w.unobserved = {}
      /\ w.hushed => v.hushed
  BY <1>0, EvaluateGood DEF Handled
<1> HIDE DEF v, t
<1>2. Good(w, t, {}) /\ Lags(w.m, t)
  BY DEF Handled, t
<1>3. w.unobserved = {} => s.inbox = <<>> /\ ~Has(t, "input")
  <2>1. ASSUME w.unobserved = {} PROVE Elements(s.inbox) = {}
    BY <1>0, <2>1 DEF Handled, Inbox
  <2>2. ASSUME w.unobserved = {}, Has(t, "input") PROVE FALSE
    <3>1. PICK n \in DOMAIN t : t[n].k = "input"
      BY <2>2 DEF Has
    <3>2. t[n] \in Message
      BY <1>0
    <3>3. t[n].id \in Inputs
      BY <3>1, <3>2 DEF Message
    <3>4. Input(t, t[n].id)
      BY <3>1 DEF Input
    <3> QED
      BY <1>2, <2>2, <3>3, <3>4 DEF Good, Sent
  <2>3. Elements(s.inbox) = {} => s.inbox = <<>>
    BY <1>0, ElementsTail
  <2> QED
    BY <2>1, <2>2, <2>3
<1>4. ASSUME w.unobserved = {}, ~w.m.inflight, w.m.reasons = {}, NEW J, w.m.outstanding \subseteq J
      PROVE  QuietFor(J)
  BY <1>0, <1>2, <1>3, <1>4, QuietHolds DEF QuietFor
<1>5. ASSUME Open(s), v.turn # s.turn, v.how = "done"
      PROVE  /\ QuietFor(s.adopted \cup v.adopted \cup s.cancelled)
             /\ v.steerIn = <<>> /\ v.steerQ = <<>>
  <2>1. w.turn = s.turn /\ Open(w)
    BY <1>1, <1>5 DEF Handled, Open
  <2>2. Over(v, w)
    BY <1>1, <1>5, <2>1
  <2>3. w.ended \subseteq s.adopted /\ w.cancelled \subseteq s.cancelled
    BY <1>5, <2>1, <2>2 DEF Handled, Over
  <2>4. /\ w.unobserved = {} /\ ~w.m.inflight /\ w.m.reasons = {}
        /\ w.m.outstanding \subseteq s.adopted \cup v.adopted \cup s.cancelled
    BY <2>2, <2>3 DEF Over, Quiescent, Foreground
  <2> QED
    BY <1>4, <2>2, <2>4 DEF Over
<1>6. ASSUME s.drain # "returned", v.drain = "returned" PROVE v.run = "none" \/ QuietFor({})
  <2>1. Spent(v) /\ w.unobserved = {}
    BY <1>1, <1>6 DEF Handled
  <2>2. CASE v.run # "none"
    BY <1>1, <1>4, <2>1, <2>2 DEF Spent
  <2> QED
    BY <2>2
<1>7. s.hushed => v.hushed
  BY <1>1 DEF Handled
<1> QED
  BY <1>1, <1>2, <1>5, <1>6, <1>7 DEF Stepped, v, t

LEMMA ActSteps ==
  ASSUME IInv, fifo # <<>>, NEW w, Handled(w), Act(w)
  PROVE  Stepped(s')
<1>1. PICK nudge \in {<<>>} \cup {<<n>> : n \in Nudges \ w.inputs} : s' = Evaluate(w, nudge)
  BY DEF Act
<1>2. nudge = <<>> \/ \E n \in Nudges \ w.inputs : nudge = <<n>>
  BY <1>1
<1> QED
  BY <1>1, <1>2, EvaluateSteps

\* With the queue shorter by one, the invariant holds of the session again.
LEMMA TookGood ==
  ASSUME IInv, fifo # <<>>, fifo' = Tail(fifo), UNCHANGED <<sync, startup, counters>>,
         Good(s', Tail(fifo), {}), Lags(s'.m, Tail(fifo)),
         \/ req' = req
         \/ /\ Head(fifo).k = "ready"
            /\ req' = [req EXCEPT !.at = IF req.at = "barrier" THEN "checked" ELSE req.at]
  PROVE  IInv'
<1> DEFINE t == Tail(fifo)
<1>1. fifo \in Seq(Message) /\ t \in Seq(Message) /\ req \in Request
  BY TailIs DEF IInv, TypedRest
<1>2. /\ sync' = sync /\ startup' = startup /\ submitted' = submitted /\ steered' = steered
      /\ noted' = noted /\ issued' = issued /\ deaths' = deaths /\ fifo' = t
  BY DEF counters
<1>3. \A i \in Inputs : (Recorded(i) <=> Input(fifo, i)) /\ (Recorded(i)' <=> Input(t, i))
  <2>1. \A i \in Inputs : Recorded(i) <=> Input(fifo, i)
    BY <1>1, RecordedIs
  <2>2. fifo' \in Seq(Message)
    BY <1>1, <1>2
  <2>3. ASSUME NEW i \in Inputs PROVE Recorded(i)' <=> Input(t, i)
    <3>1. ASSUME Recorded(i)' PROVE Input(fifo', i)
      <4>1. PICK n \in DOMAIN fifo' : fifo'[n] = [k |-> "input", id |-> i]
        BY <3>1 DEF Recorded, Elements
      <4> QED
        BY <4>1 DEF Input
    <3>2. ASSUME Input(fifo', i) PROVE Recorded(i)'
      <4>1. PICK n \in DOMAIN fifo' : fifo'[n].k = "input" /\ fifo'[n].id = i
        BY <3>2 DEF Input
      <4>2. fifo'[n] \in Message
        BY <2>2, <4>1
      <4>3. fifo'[n] \in [k : {"input"}, id : Inputs]
        BY <4>1, <4>2 DEF Message
      <4>4. fifo'[n] = [k |-> "input", id |-> i]
        BY <4>1, <4>3
      <4> QED
        BY <4>1, <4>4 DEF Recorded, Elements
    <3> QED
      BY <1>2, <3>1, <3>2
  <2> QED
    BY <2>1, <2>3
<1>4. \A i \in Inputs : Input(t, i) => Input(fifo, i)
  BY <1>1, TailHas
<1>5. /\ req' \in Request /\ req'.calls = req.calls /\ req'.how = req.how
      /\ \/ req'.at = req.at
         \/ /\ req.at = "barrier" /\ req'.at = "checked"
            /\ Head(fifo).k = "ready"
  BY <1>1 DEF Request
<1>6. req.at = "barrier" /\ Head(fifo).k = "ready" =>
        ~Has(t, "turn") /\ ~Has(t, "response") /\ ~Has(t, "ready")
  <2>1. ASSUME Head(fifo).k = "ready", NEW n \in DOMAIN t, t[n].k \in {"turn", "response", "ready"}
        PROVE  FALSE
    <3>1. /\ 1 \in DOMAIN fifo /\ fifo[1].k = "ready" /\ n + 1 \in DOMAIN fifo
          /\ fifo[n + 1] = t[n] /\ n + 1 > 1
      BY <1>1, <2>1, TailIs
    <3> QED
      BY <2>1, <3>1 DEF IInv, Lags, Answers
  <2> QED
    BY <2>1 DEF Has
<1>7. \A n \in DOMAIN t : t[n].k = "ready" => req.at = "barrier" /\ Has(t, "ready")
  BY DEF Lags, Answers, Has
<1> HIDE DEF t
<1>8. Good(s', t, {}) /\ Lags(s'.m, t)
  BY DEF t
<1>10. \A i \in Inputs : Recorded(i)' => Recorded(i)
  BY <1>3, <1>4
<1>11. s' \in Session
  BY <1>8 DEF Good, Typed
<1>9. Typed(s)'
  BY <1>8 DEF Good, Typed
<1>a. Exits(s, fifo)'
  BY <1>2, <1>5, <1>8 DEF Good, Exits, Has
<1>12. Inbox(s, fifo)'
  BY <1>2, <1>8 DEF Good, Inbox, Owes, Input
<1>13. Sent(s, fifo)'
  BY <1>2, <1>3, <1>8 DEF Good, Sent, Input
<1>14. Boundary(s)'
  <2>1. Waiting(s') \subseteq Inputs
    BY <1>11 DEF Waiting, Elements, Session, Inputs
  <2> QED
    BY <1>8, <1>10, <2>1 DEF Good, Boundary, Waiting
<1>15. Apart(s, fifo, {})' /\ Landing(s, {})'
  BY <1>2, <1>8 DEF Good, Apart, Said, Submits, Landing, Open, Cancelling
<1>16. InTurn(s, fifo)'
  BY <1>2, <1>5, <1>8 DEF Good, InTurn, Open, Has
<1>17. Parks(s)'
  BY <1>5, <1>8 DEF Good, Parks
<1>18. Answers(s.m, fifo)'
  <2>1. ASSUME NEW k PROVE Has(fifo, k)' <=> Has(t, k)
    BY <1>2 DEF Has
  <2>2. Answers(s'.m, t)
    BY <1>8 DEF Lags
  <2>3. CASE req'.at = req.at
    <3>1. Answers(s.m, fifo)' <=> Answers(s'.m, t)
      BY <1>2, <2>1, <2>3 DEF Answers
    <3> QED
      BY <2>2, <3>1
  <2>4. CASE req.at = "barrier" /\ req'.at = "checked" /\ Head(fifo).k = "ready"
    <3>1. ~Has(t, "turn") /\ ~Has(t, "response") /\ ~Has(t, "ready")
      BY <1>6, <2>4
    <3>2. \A n \in DOMAIN t : t[n].k \notin {"turn", "response", "ready"}
      BY <3>1 DEF Has
    <3>3. /\ req.at # "none" => sync.inflight
          /\ s'.m.inflight = sync.inflight
      BY <2>2, <3>1 DEF Answers
    <3> QED
      BY <1>2, <2>1, <2>4, <3>1, <3>2, <3>3 DEF Answers
  <2> QED
    BY <1>5, <2>3, <2>4
<1>19. Reasons(s.m, fifo)'
  <2>1. /\ sync' = sync /\ fifo' = t
        /\ Has(fifo, "turn")' <=> Has(t, "turn")
        /\ Has(fifo, "response")' <=> Has(t, "response")
    BY <1>2 DEF Has
  <2>2. \A n, x : Brings(fifo, n, x)' <=> Brings(t, n, x)
    BY <2>1 DEF Brings
  <2>3. \A a, b : TurnIn(fifo, a, b)' <=> TurnIn(t, a, b)
    BY <2>1 DEF TurnIn
  <2>4. Reasons(s'.m, t)
    BY <1>8 DEF Lags
  <2>5. \A x \in sync'.reasons :
          \/ x \in s'.m.reasons /\ ~Has(fifo, "turn")'
          \/ \E n \in DOMAIN fifo' : Brings(fifo, n, x)' /\ ~TurnIn(fifo, n, Len(fifo))'
    BY <2>1, <2>2, <2>3, <2>4 DEF Reasons
  <2>6. \A n \in DOMAIN fifo' : fifo'[n].k = "turn" /\ ~TurnIn(fifo, n + 1, Len(fifo))' =>
          \A x \in sync'.turnReasons :
            \/ x \in s'.m.reasons /\ ~TurnIn(fifo, 1, n - 1)'
            \/ \E k \in 1..(n - 1) : Brings(fifo, k, x)' /\ ~TurnIn(fifo, k, n - 1)'
    BY <2>1, <2>2, <2>3, <2>4 DEF Reasons
  <2>7. \A n \in DOMAIN fifo' :
          fifo'[n].k = "turn" /\ ~TurnIn(fifo, 1, n - 1)'
            /\ (~s'.m.inflight \/ Has(fifo, "response")') =>
              s'.m.reasons # {} \/ \E k \in 1..(n - 1) : fifo'[k].k \in {"input", "result"}
    BY <2>1, <2>2, <2>3, <2>4 DEF Reasons
  <2> QED
    BY <2>5, <2>6, <2>7 DEF Reasons
<1>20. CallsOnce(s.m, fifo)'
  <2>1. /\ AnsweredCalls(fifo)' = AnsweredCalls(t) /\ Results(fifo)' = Results(t)
        /\ Issued' = Issued /\ Seen(s.m)' = Seen(s'.m)
    BY <1>2 DEF AnsweredCalls, Results, Issued, Seen
  <2>2. CallsOnce(s'.m, t)
    BY <1>8 DEF Lags
  <2>3. req'.calls = req.calls /\ (req'.at # "answered" => req.at # "answered")
    BY <1>5
  <2>4. sync' = sync /\ fifo' = t /\ issued' = issued
    BY <1>2
  <2> QED
    BY <2>1, <2>2, <2>3, <2>4 DEF CallsOnce
<1>21. TypedRest'
  BY <1>1, <1>2, <1>5 DEF IInv, TypedRest
<1> QED
  BY <1>9, <1>a, <1>12, <1>13, <1>14, <1>15, <1>16, <1>17, <1>18, <1>19, <1>20, <1>21 DEF IInv, Good, Lags

LEMMA HandledIf ==
  ASSUME IInv, fifo # <<>>, NEW w, Good(w, Tail(fifo), {}), Lags(w.m, Tail(fifo)), Drains(w, s),
         \/ Still(w, s)
         \/ /\ Open(s) /\ w.turn # s.turn => ~Open(w) /\ w.how # "done"
            /\ Open(s) /\ w.turn = s.turn /\ ~Cancelling(w) =>
                 w.ended \subseteq s.ended /\ w.cancelled \subseteq s.cancelled
            /\ w.unobserved = {} => s.unobserved = {}
  PROVE  Handled(w)
<1>1. s \in Session /\ s.ended \subseteq s.adopted
  BY DEF IInv, Good, Typed, Parks
<1>2. (s.drain # "returned" => w.drain # "returned") /\ (s.hushed => w.hushed)
  BY <1>1 DEF Drains, Session
<1>3. s.unobserved = {} => Owes(s, fifo) = {}
  BY DEF Owes
<1> QED
  BY <1>1, <1>2, <1>3 DEF Handled, Still

LEMMA Plain ==
  ASSUME IInv, fifo # <<>>
  PROVE  /\ Tail(fifo) \in Seq(Message) /\ Head(fifo) \in Message /\ fifo \in Seq(Message)
         /\ s \in Session /\ s.m \in MirrorOf(Inputs, Calls)
         /\ Good(s, fifo, {}) /\ Lags(s.m, fifo) /\ sync.inflight \in BOOLEAN
         /\ Lags(Heard(s.m, Head(fifo)), Tail(fifo))
         /\ Head(fifo).k \notin {"turn", "input", "response", "result"} => Lags(s.m, Tail(fifo))
         /\ Head(fifo).k \notin {"input", "submit", "start"} => Good(s, Tail(fifo), {})
         /\ Drains(s, s)
<1>1. /\ fifo \in Seq(Message) /\ s \in Session /\ Good(s, fifo, {}) /\ Lags(s.m, fifo)
      /\ s.m \in MirrorOf(Inputs, Calls) /\ sync.inflight \in BOOLEAN
  BY DEF IInv, TypedRest, MirrorOf, Good, Typed, Session
<1>2. Tail(fifo) \in Seq(Message) /\ Head(fifo) \in Message
  BY <1>1, TailIs
<1>3. Lags(Heard(s.m, Head(fifo)), Tail(fifo))
  BY <1>1, TailLags
<1>4. Head(fifo).k \notin {"turn", "input", "response", "result"} => Heard(s.m, Head(fifo)) = s.m
  BY <1>1, <1>2, HeardIs
<1>5. Head(fifo).k \notin {"input", "submit", "start"} => Good(s, Tail(fifo), {})
  BY <1>1, TailGood
<1>6. Drains(s, s)
  BY DEF Drains
<1> QED
  BY <1>1, <1>2, <1>3, <1>4, <1>5, <1>6

\* Handlers of what the ui and the timers post.
LEMMA CancelSteps ==
  ASSUME IInv, TakeCancel \/ TakeBudget
  PROVE  Stepped(s')
<1>1. fifo # <<>> /\ Head(fifo).k \in {"cancel", "budget"}
  BY DEF TakeCancel, TakeBudget, Receive
<1>2. PICK w \in {s, CancelTurn(s)} : Act(w)
  BY DEF TakeCancel, TakeBudget, BudgetStop
<1>3. Handled(s)
  BY <1>1, Plain, HandledIf DEF Still
<1>4. Good(s, Tail(fifo), {}) /\ Lags(s.m, Tail(fifo)) /\ Tail(fifo) \in Seq(Message)
  BY <1>1, Plain
<1> DEFINE c == CancelTurn(s)
<1>5. /\ Good(c, Tail(fifo), {}) /\ c.m = s.m /\ c.how = s.how /\ c.turn = s.turn
      /\ s.unobserved \subseteq c.unobserved /\ (Still(c, s) \/ Cancelling(c))
      /\ Drains(c, s)
  BY <1>4, CancelTurnGood, CancelDrains
<1> HIDE DEF c
<1>6. Handled(c)
  BY <1>1, <1>4, <1>5, HandledIf
<1> QED
  BY <1>1, <1>2, <1>3, <1>6, ActSteps DEF c

LEMMA SteerSteps ==
  ASSUME IInv, TakeSteer
  PROVE  Stepped(s')
<1> DEFINE w == LandSteers(s)
<1>1. fifo # <<>> /\ Head(fifo).k = "steer" /\ Act(w)
  BY DEF TakeSteer, Receive
<1>2. Good(s, Tail(fifo), {}) /\ Lags(s.m, Tail(fifo)) /\ Tail(fifo) \in Seq(Message)
  BY <1>1, Plain
<1>3. /\ Good(w, Tail(fifo), {}) /\ w.m = s.m /\ (Open(s) => Still(w, s))
      /\ s.unobserved = {} \/ w.unobserved # {}
      /\ Drains(w, s)
  BY <1>2, LandSteersGood, SteersDrain
<1> HIDE DEF w
<1>4. Handled(w)
  <2>1. Open(s) => Still(w, s)
    BY <1>3
  <2>2. CASE Open(s)
    BY <1>1, <1>2, <1>3, <2>1, <2>2, HandledIf
  <2>3. CASE ~Open(s)
    BY <1>1, <1>2, <1>3, <2>3, HandledIf
  <2> QED
    BY <2>2, <2>3
<1> QED
  BY <1>1, <1>4, ActSteps

LEMMA SubmitSteps ==
  ASSUME IInv, TakeSubmit
  PROVE  Stepped(s')
<1> DEFINE l == Head(fifo).line
           w == Submit(s, l)
<1>1. fifo # <<>> /\ Head(fifo).k = "submit" /\ Act(w)
  BY DEF TakeSubmit, Receive
<1>2. Good(s, fifo, {}) /\ Lags(s.m, Tail(fifo)) /\ Tail(fifo) \in Seq(Message) /\ fifo \in Seq(Message)
  BY <1>1, Plain
<1>3. l \in Lines /\ Good(s, Tail(fifo), {l})
  BY <1>1, <1>2, SubmitTail
<1>4. /\ Good(w, Tail(fifo), {}) /\ w.m = s.m /\ (Open(s) => Still(w, s))
      /\ Still(w, s) \/ w.unobserved # {}
      /\ Drains(w, s)
  BY <1>2, <1>3, SubmitGood, SubmitDrains
<1> HIDE DEF w, l
<1>5. Handled(w)
  <2>1. CASE Still(w, s)
    BY <1>1, <1>2, <1>4, <2>1, HandledIf
  <2>2. CASE ~Still(w, s)
    BY <1>1, <1>2, <1>4, <2>2, HandledIf
  <2> QED
    BY <2>1, <2>2
<1> QED
  BY <1>1, <1>5, ActSteps

LEMMA NoticeSteps ==
  ASSUME IInv, TakeNotice
  PROVE  Stepped(s')
<1> DEFINE w == Notice(s)
<1>1. fifo # <<>> /\ Head(fifo).k = "notice" /\ Act(w)
  BY DEF TakeNotice, Receive
<1>2. Good(s, Tail(fifo), {}) /\ Lags(s.m, Tail(fifo)) /\ Tail(fifo) \in Seq(Message)
  BY <1>1, Plain
<1>3. /\ Good(w, Tail(fifo), {}) /\ w.m = s.m
      /\ Still(w, s) \/ (~Open(s) /\ w.unobserved # {})
      /\ Drains(w, s)
  BY <1>2, NoticeGood, LandDrains
<1> HIDE DEF w
<1>4. Handled(w)
  <2>1. CASE Still(w, s)
    BY <1>1, <1>2, <1>3, <2>1, HandledIf
  <2>2. CASE ~Still(w, s)
    BY <1>1, <1>2, <1>3, <2>2, HandledIf
  <2> QED
    BY <2>1, <2>2
<1> QED
  BY <1>1, <1>4, ActSteps

LEMMA SettleSteps ==
  ASSUME IInv, TakeSettle
  PROVE  Stepped(s')
<1> DEFINE w == SettleFired(s)
           h == "running"
<1>1. fifo # <<>> /\ Head(fifo).k = "settle" /\ Act(w)
  BY DEF TakeSettle, Receive
<1>2. Good(s, Tail(fifo), {}) /\ Lags(s.m, Tail(fifo)) /\ Tail(fifo) \in Seq(Message)
  BY <1>1, Plain
<1>3. Good(w, Tail(fifo), {}) /\ (Still(w, s) \/ Shut(w, s, h)) /\ Drains(w, s)
  BY <1>2, SettleFiredGood, JudgeDrains
<1>a. h # "done"
  OBVIOUS
<1> HIDE DEF w, h
<1>4. Handled(w)
  <2>1. CASE Still(w, s)
    BY <1>1, <1>2, <1>3, <2>1, HandledIf DEF Still
  <2>2. CASE Shut(w, s, h)
    <3>1. w.m = s.m /\ ~Open(w) /\ w.how # "done" /\ (w.unobserved = {} => s.unobserved = {})
          /\ (Open(s) => w.turn # s.turn)
      BY <1>a, <2>2 DEF Shut, Open
    <3> QED
      BY <1>1, <1>2, <1>3, <3>1, HandledIf
  <2> QED
    BY <1>3, <2>1, <2>2
<1> QED
  BY <1>1, <1>4, ActSteps

LEMMA ExitSteps ==
  ASSUME IInv, TakeExit
  PROVE  Stepped(s')
<1> DEFINE w == RunExit(s)
<1>1. fifo # <<>> /\ Head(fifo).k = "exit" /\ Act(w)
  BY DEF TakeExit, Receive
<1>2. /\ Good(s, fifo, {}) /\ Lags(s.m, Tail(fifo)) /\ s \in Session
      /\ Tail(fifo) \in Seq(Message) /\ fifo \in Seq(Message)
  BY <1>1, Plain
<1>3. /\ Good([s EXCEPT !.run = "none", !.restart = "no"], Tail(fifo), {})
      /\ NothingOut(Tail(fifo)) /\ (s.run = "up" => deaths # 0)
  BY <1>1, <1>2, ExitTail
<1>4. /\ Good(w, Tail(fifo), {}) /\ w.m = s.m
      /\ \/ w.turn = s.turn /\ s.unobserved \subseteq w.unobserved
            /\ w.cancelling = s.cancelling /\ w.cancelled = s.cancelled /\ w.ended = s.ended
            /\ w.how = s.how
         \/ ~Open(w) /\ w.how = "error" /\ s.unobserved \subseteq w.unobserved
      /\ Drains(w, s)
  BY <1>2, <1>3, RunExitGood, ExitDrains
<1> HIDE DEF w
<1>5. Handled(w)
  <2>1. /\ Open(s) /\ w.turn # s.turn => ~Open(w) /\ w.how # "done"
        /\ Open(s) /\ w.turn = s.turn /\ ~Cancelling(w) =>
             w.ended \subseteq s.ended /\ w.cancelled \subseteq s.cancelled
        /\ w.unobserved = {} => s.unobserved = {}
    BY <1>4 DEF Open
  <2> QED
    BY <1>1, <1>2, <1>4, <2>1, HandledIf
<1> QED
  BY <1>1, <1>5, ActSteps

LEMMA StartSteps ==
  ASSUME IInv, TakeStart
  PROVE  Stepped(s')
<1> DEFINE o == OpenTurn(s, Wake)
           w == OpenWake(s)
<1>1. fifo # <<>> /\ Head(fifo).k = "start"
  BY DEF TakeStart, Receive
<1>2. /\ Good(s, fifo, {}) /\ Lags(s.m, Tail(fifo)) /\ Tail(fifo) \in Seq(Message)
      /\ fifo \in Seq(Message) /\ Drains(s, s)
  BY <1>1, Plain
<1>3. CASE Open(s) \/ Cancelling(s)
  <2>1. Open(s)
    BY <1>2, <1>3 DEF Good, Landing
  <2>2. Good(s, Tail(fifo), {})
    BY <1>2, <1>1, <2>1, TailGood
  <2>3. Handled(s)
    BY <1>1, <1>2, <2>2, HandledIf DEF Still
  <2>4. Act(s)
    BY <1>3 DEF TakeStart
  <2> QED
    BY <1>1, <2>3, <2>4, ActSteps
<1>4. CASE ~(Open(s) \/ Cancelling(s))
  <2>1. Act(w)
    BY <1>4 DEF TakeStart
  <2>2. Wake \in Turns
    BY DEF Turns
  <2>3. Good(o, fifo, {}) /\ Open(o) /\ o.m = s.m
    BY <1>2, <1>4, <2>2, OpenTurnGood
  <2>4. w = [o EXCEPT !.steps = 1] /\ o.unobserved = s.unobserved
    <3>1. s \in Session
      BY <1>2 DEF Good, Typed
    <3>2. w = [o EXCEPT !.steps = 1]
      BY DEF OpenWake
    <3>3. OpenTurn(s, Wake).unobserved = s.unobserved
      BY <3>1 DEF OpenTurn, Session
    <3> QED
      BY <3>2, <3>3
  <2>5. Drains(o, s)
    BY TurnDrains
  <2> HIDE DEF o, w
  <2>6. o \in Session
    BY <2>3 DEF Good, Typed
  <2>7. w \in Session /\ Alike(w, o) /\ Drains(w, o)
    <3>a. [o EXCEPT !.steps = 1] \in Session
      BY ZenonT(60),<2>6 DEF Session
    <3>1. w \in Session
      BY <2>4, <3>a
    <3>2. Alike(w, o)
      BY <2>4, <2>6 DEF Session, Alike
    <3>3. Drains(w, o)
      BY <2>4 DEF Drains
    <3> QED
      BY <3>1, <3>2, <3>3
  <2>8. Good(w, fifo, {}) /\ Open(w) /\ w.m = s.m /\ w.unobserved = s.unobserved
    BY <2>3, <2>4, <2>7, AlikeGood DEF Alike, Open
  <2>9. Good(w, Tail(fifo), {})
    BY <1>1, <1>2, <2>8, TailGood
  <2>10. Drains(w, s)
    BY <2>5, <2>7, DrainsTrans
  <2>11. Handled(w)
    BY <1>1, <1>2, <1>4, <2>8, <2>9, <2>10, HandledIf
  <2> QED
    BY <1>1, <2>1, <2>11, ActSteps
<1> QED
  BY <1>3, <1>4

\* Handlers of items.
LEMMA TurnSteps ==
  ASSUME IInv, TakeTurn
  PROVE  Stepped(s')
<1> DEFINE m == ApplyTurn(s.m)
           w == [s EXCEPT !.m = m]
<1>1. fifo # <<>> /\ Head(fifo).k = "turn" /\ Act(w)
  BY DEF TakeTurn, Receive
<1>2. /\ Good(s, fifo, {}) /\ Lags(Heard(s.m, Head(fifo)), Tail(fifo)) /\ s \in Session
      /\ fifo \in Seq(Message)
  BY <1>1, Plain
<1>3. Good(w, Tail(fifo), {})
  BY <1>1, <1>2, TurnTail
<1>4. Heard(s.m, Head(fifo)) = m
  BY <1>1 DEF Heard
<1> HIDE DEF m
<1>5. /\ w.m = m /\ w.turn = s.turn /\ w.ended = s.ended /\ w.cancelled = s.cancelled
      /\ w.unobserved = s.unobserved
  BY <1>2 DEF Session
<1>6. Drains(w, s)
  BY DEF Drains
<1> HIDE DEF w
<1>7. Lags(w.m, Tail(fifo))
  BY <1>2, <1>4, <1>5
<1>8. Handled(w)
  BY <1>1, <1>3, <1>5, <1>6, <1>7, HandledIf
<1> QED
  BY <1>1, <1>8, ActSteps

LEMMA InputSteps ==
  ASSUME IInv, TakeInput
  PROVE  Stepped(s')
<1> DEFINE i == Head(fifo).id
           m == ApplyInput(s.m, i)
           U == s.unobserved \ {i}
           w == [s EXCEPT !.m = m, !.unobserved = U]
<1>1. fifo # <<>> /\ Head(fifo).k = "input" /\ Act(w)
  BY DEF TakeInput, Receive
<1>2. /\ Good(s, fifo, {}) /\ Lags(Heard(s.m, Head(fifo)), Tail(fifo)) /\ s \in Session
      /\ fifo \in Seq(Message)
  BY <1>1, Plain
<1>3. Good(w, Tail(fifo), {})
  BY <1>1, <1>2, InputTail
<1>4. Heard(s.m, Head(fifo)) = m /\ Input(fifo, i)
  <2>1. Heard(s.m, Head(fifo)) = m
    BY <1>1 DEF Heard
  <2>2. Input(fifo, i)
    BY <1>1, <1>2, TailHas
  <2> QED
    BY <2>1, <2>2
<1>a. U = s.unobserved \ {i}
  OBVIOUS
<1> HIDE DEF m, i, U
<1>5. /\ w.m = m /\ w.turn = s.turn /\ w.ended = s.ended /\ w.cancelled = s.cancelled
      /\ w.unobserved = U
  BY <1>2 DEF Session
<1>6. w.drain = s.drain /\ w.hushed = s.hushed
  BY <1>2 DEF Session
<1> HIDE DEF w
<1>7. Lags(w.m, Tail(fifo))
  BY <1>2, <1>4, <1>5
<1>8. w.unobserved = {} => Owes(s, fifo) = {}
  BY <1>a, <1>4, <1>5 DEF Owes
<1>9. s.ended \subseteq s.adopted
  BY <1>2 DEF Good, Parks
<1>10. Handled(w)
  BY <1>3, <1>5, <1>6, <1>7, <1>8, <1>9 DEF Handled
<1> QED
  BY <1>1, <1>10, ActSteps

LEMMA ResponseSteps ==
  ASSUME IInv, TakeResponse
  PROVE  Stepped(s')
<1> DEFINE x == Head(fifo)
           C == x.calls
           m == ApplyResponse(s.m, C)
           v == [s EXCEPT !.m = m]
           w == Response(v, x.how, C)
           h == "error"
<1>1. fifo # <<>> /\ x.k = "response" /\ Act(w)
  BY DEF TakeResponse, Receive
<1>2. /\ Good(s, fifo, {}) /\ Lags(Heard(s.m, x), Tail(fifo)) /\ s \in Session
      /\ s.m \in MirrorOf(Inputs, Calls)
      /\ fifo \in Seq(Message) /\ x \in Message /\ Tail(fifo) \in Seq(Message)
  BY <1>1, Plain
<1>3. Good(v, Tail(fifo), {})
  BY <1>1, <1>2, ResponseTail
<1>4. Heard(s.m, x) = m
  BY <1>1 DEF Heard
<1>5. C \in SUBSET Calls
  BY <1>1, <1>2 DEF Message
<1>6. ~m.inflight
  BY <1>2 DEF ApplyResponse, MirrorOf
<1> HIDE DEF m, C
<1>7. /\ v.m = m /\ v.turn = s.turn /\ v.ended = s.ended /\ v.cancelled = s.cancelled
      /\ v.unobserved = s.unobserved
  BY <1>2 DEF Session
<1>8. Drains(v, s)
  BY DEF Drains
<1> HIDE DEF v
<1>9. Lags(v.m, Tail(fifo)) /\ ~v.m.inflight
  BY <1>2, <1>4, <1>6, <1>7
<1>10. Good(w, Tail(fifo), {}) /\ (Stays(w, v) \/ Shut(w, v, h)) /\ Drains(w, v)
  BY <1>2, <1>3, <1>5, <1>9, ResponseGood, ResponseDrains
<1>11. h # "done"
  OBVIOUS
<1> HIDE DEF w, h
<1>12. Drains(w, s)
  BY <1>8, <1>10, DrainsTrans
<1>13. w.m = v.m
  BY <1>10 DEF Stays, Shut
<1>14. /\ Open(s) /\ w.turn # s.turn => ~Open(w) /\ w.how # "done"
       /\ Open(s) /\ w.turn = s.turn /\ ~Cancelling(w) =>
            w.ended \subseteq s.ended /\ w.cancelled \subseteq s.cancelled
       /\ w.unobserved = {} => s.unobserved = {}
  BY <1>7, <1>10, <1>11 DEF Stays, Shut, Open
<1>15. Handled(w)
  BY <1>1, <1>9, <1>10, <1>12, <1>13, <1>14, HandledIf
<1> QED
  BY <1>1, <1>15, ActSteps

LEMMA ResultSteps ==
  ASSUME IInv, TakeResult
  PROVE  Stepped(s')
<1> DEFINE c == Head(fifo).call
           m == ApplyResult(s.m, c)
           C == s.cancelled \ {c}
           E == s.ended \cup ({c} \cap s.adopted)
           w == [s EXCEPT !.m = m, !.cancelled = C, !.ended = E]
<1>1. fifo # <<>> /\ Head(fifo).k = "result" /\ Act(w)
  BY DEF TakeResult, Receive
<1>2. /\ Good(s, fifo, {}) /\ Lags(Heard(s.m, Head(fifo)), Tail(fifo)) /\ s \in Session
      /\ fifo \in Seq(Message)
  BY <1>1, Plain
<1>3. Good(w, Tail(fifo), {})
  BY <1>1, <1>2, ResultTail
<1>4. Heard(s.m, Head(fifo)) = m
  BY <1>1 DEF Heard
<1>a. C \subseteq s.cancelled /\ E \subseteq s.ended \cup s.adopted
  OBVIOUS
<1> HIDE DEF m, c, C, E
<1>5. /\ w.m = m /\ w.turn = s.turn /\ w.ended = E /\ w.cancelled = C
      /\ w.unobserved = s.unobserved
  BY <1>2 DEF Session
<1>6. w.drain = s.drain /\ w.hushed = s.hushed
  BY <1>2 DEF Session
<1> HIDE DEF w
<1>7. Lags(w.m, Tail(fifo))
  BY <1>2, <1>4, <1>5
<1>8. w.unobserved = {} => Owes(s, fifo) = {}
  BY <1>5 DEF Owes
<1>9. s.ended \subseteq s.adopted
  BY <1>2 DEF Good, Parks
<1>10. Handled(w)
  BY <1>3, <1>5, <1>6, <1>7, <1>8, <1>9, <1>a DEF Handled
<1> QED
  BY <1>1, <1>10, ActSteps

\* Handlers that change a field or none.
LEMMA TickSteps ==
  ASSUME IInv, TakeTick \/ TakeReady
  PROVE  Stepped(s')
<1>1. fifo # <<>> /\ Head(fifo).k \in {"tick", "ready"} /\ Act(s)
  BY DEF TakeTick, TakeReady, Receive
<1>2. Handled(s)
  BY <1>1, Plain, HandledIf DEF Still
<1> QED
  BY <1>1, <1>2, ActSteps

LEMMA DrainSteps ==
  ASSUME IInv, TakeDrain
  PROVE  Stepped(s')
<1> DEFINE w == [s EXCEPT !.drain = "waiting"]
<1>1. fifo # <<>> /\ Head(fifo).k = "drain" /\ Act(w)
  BY DEF TakeDrain, Receive
<1>2. Good(s, Tail(fifo), {}) /\ Lags(s.m, Tail(fifo)) /\ s \in Session /\ Good(s, fifo, {})
  BY <1>1, Plain
<1>3. w \in Session
  BY ZenonT(60),<1>2 DEF Session
<1>4. Alike(w, s) /\ w.drain = "waiting"
  BY <1>2 DEF Session, Alike
<1> HIDE DEF w
<1>5. Good(w, Tail(fifo), {}) /\ Still(w, s)
  BY <1>2, <1>3, <1>4, AlikeGood
<1>6. s.ended \subseteq s.adopted
  BY <1>2 DEF Good, Parks
<1>7. Handled(w)
  BY <1>2, <1>4, <1>5, <1>6 DEF Handled, Still, Alike, Owes
<1> QED
  BY <1>1, <1>7, ActSteps

LEMMA DeadlineSteps ==
  ASSUME IInv, TakeDeadline
  PROVE  Stepped(s')
<1> DEFINE w == [s EXCEPT !.cancelling = "deadline"]
<1>1. fifo # <<>> /\ Head(fifo).k = "deadline"
  BY DEF TakeDeadline, Receive
<1>2. /\ Good(s, Tail(fifo), {}) /\ Lags(s.m, Tail(fifo)) /\ s \in Session
      /\ Tail(fifo) \in Seq(Message)
  BY <1>1, Plain
<1>3. Act(s) \/ (s.cancelling = "expired" /\ Act(w))
  BY DEF TakeDeadline
<1>4. Handled(s)
  BY <1>1, Plain, HandledIf DEF Still
<1>5. w \in Session
  BY ZenonT(60),<1>2 DEF Session
<1>6. /\ w.unobserved = s.unobserved /\ w.run = s.run /\ w.alive = s.alive
      /\ w.inbox = s.inbox /\ w.restart = s.restart /\ w.inputs = s.inputs
      /\ w.steerIn = s.steerIn /\ w.told = s.told /\ w.turn = s.turn /\ w.m = s.m
      /\ w.steerQ = s.steerQ /\ w.noticeQ = s.noticeQ /\ w.notes = s.notes
      /\ w.pending = s.pending /\ w.news = s.news /\ w.adopted = s.adopted
      /\ w.ended = s.ended /\ w.cancelled = s.cancelled /\ w.cancelling = "deadline"
      /\ w.parked = s.parked /\ w.muted = s.muted /\ w.userStop = s.userStop
      /\ w.steerable = s.steerable /\ w.promised = s.promised
      /\ w.begun = s.begun /\ w.known = s.known /\ w.hushed = s.hushed /\ w.how = s.how
  BY <1>2 DEF Session
<1>7. Drains(w, s)
  BY DEF Drains
<1> HIDE DEF w
<1>8. ASSUME s.cancelling = "expired" PROVE Handled(w)
  <2>1. Typed(w) /\ Exits(w, Tail(fifo)) /\ Inbox(w, Tail(fifo)) /\ Sent(w, Tail(fifo)) /\ Boundary(w)
    BY <1>2, <1>5, <1>6 DEF Good, Typed, Exits, Inbox, Sent, Owes, Boundary, Waiting
  <2>2. Apart(w, Tail(fifo), {})
    BY <1>2, <1>6 DEF Good, Apart
  <2>3. Landing(w, {})
    BY <1>2, <1>6, <1>8 DEF Good, Landing, Open, Cancelling
  <2>4. InTurn(w, Tail(fifo)) /\ Parks(w)
    BY <1>2, <1>6 DEF Good, InTurn, Parks, Open
  <2>5. Good(w, Tail(fifo), {})
    BY <2>1, <2>2, <2>3, <2>4 DEF Good
  <2> QED
    BY <1>1, <1>2, <1>6, <1>7, <2>5, HandledIf
<1> QED
  BY <1>1, <1>3, <1>4, <1>8, ActSteps

LEMMA ToolsSteps ==
  ASSUME IInv, TakeTools
  PROVE  Stepped(s')
<1> DEFINE w == [s EXCEPT !.restart = "marked"]
<1>1. fifo # <<>> /\ Head(fifo).k = "tools"
  BY DEF TakeTools, Receive
<1>2. /\ Good(s, Tail(fifo), {}) /\ Lags(s.m, Tail(fifo)) /\ s \in Session
      /\ Tail(fifo) \in Seq(Message)
  BY <1>1, Plain
<1>3. Act(s) \/ (s.run # "none" /\ Act(w))
  BY DEF TakeTools, ToolsChanged
<1>4. Handled(s)
  BY <1>1, Plain, HandledIf DEF Still
<1>5. w \in Session
  BY ZenonT(60),<1>2 DEF Session
<1>6. /\ w.unobserved = s.unobserved /\ w.run = s.run /\ w.alive = s.alive
      /\ w.inbox = s.inbox /\ w.inputs = s.inputs
      /\ w.steerIn = s.steerIn /\ w.told = s.told /\ w.turn = s.turn /\ w.m = s.m
      /\ w.steerQ = s.steerQ /\ w.noticeQ = s.noticeQ /\ w.notes = s.notes
      /\ w.pending = s.pending /\ w.news = s.news /\ w.adopted = s.adopted
      /\ w.ended = s.ended /\ w.cancelled = s.cancelled /\ w.cancelling = s.cancelling
      /\ w.parked = s.parked /\ w.muted = s.muted /\ w.userStop = s.userStop
      /\ w.steerable = s.steerable /\ w.promised = s.promised
      /\ w.begun = s.begun /\ w.known = s.known /\ w.hushed = s.hushed /\ w.how = s.how
  BY <1>2 DEF Session
<1>7. Drains(w, s)
  BY DEF Drains
<1> HIDE DEF w
<1>8. ASSUME s.run # "none" PROVE Handled(w)
  <2>1. Typed(w) /\ Exits(w, Tail(fifo)) /\ Inbox(w, Tail(fifo)) /\ Sent(w, Tail(fifo)) /\ Boundary(w)
    BY <1>2, <1>5, <1>6, <1>8 DEF Good, Typed, Exits, Inbox, Sent, Owes, Boundary, Waiting
  <2>2. Apart(w, Tail(fifo), {}) /\ Landing(w, {})
    BY <1>2, <1>6 DEF Good, Apart, Landing, Open, Cancelling
  <2>3. InTurn(w, Tail(fifo)) /\ Parks(w)
    BY <1>2, <1>6 DEF Good, InTurn, Parks, Open
  <2>4. Good(w, Tail(fifo), {})
    BY <2>1, <2>2, <2>3 DEF Good
  <2> QED
    BY <1>1, <1>2, <1>6, <1>7, <2>4, HandledIf
<1> QED
  BY <1>1, <1>3, <1>4, <1>8, ActSteps

LEMMA ActorSteps ==
  ASSUME IInv, Actor
  PROVE  IInv' /\ Stepped(s') /\ fifo # <<>> /\ sync' = sync /\ (req.at = "starting" => req' = req)
<1>1. Stepped(s')
  BY TurnSteps, InputSteps, ResponseSteps, ResultSteps, StartSteps, SubmitSteps, SteerSteps,
     CancelSteps, NoticeSteps, SettleSteps, TickSteps, DeadlineSteps, ExitSteps, ToolsSteps,
     DrainSteps DEF Actor
<1>2. /\ fifo # <<>> /\ \E w : Act(w)
      /\ \/ req' = req
         \/ /\ Head(fifo).k = "ready"
            /\ req' = [req EXCEPT !.at = IF req.at = "barrier" THEN "checked" ELSE req.at]
  BY DEF Actor, TakeTurn, TakeInput, TakeResponse, TakeResult, TakeStart, TakeSubmit, TakeSteer,
     TakeCancel, TakeNotice, TakeBudget, TakeSettle, TakeTick, TakeDeadline, TakeReady, TakeExit,
     TakeTools, TakeDrain, Receive
<1>3. fifo' = Tail(fifo) /\ UNCHANGED <<sync, startup, counters>>
  BY <1>2 DEF Act
<1>4. IInv'
  BY <1>1, <1>2, <1>3, TookGood DEF Stepped
<1>5. req.at = "starting" => req' = req
  BY <1>2 DEF IInv, TypedRest, Request
<1> QED
  BY <1>1, <1>2, <1>3, <1>4, <1>5

-----------------------------------------------------------------------------
(* What is posted comes last in the queue.                                 *)

\* What the kinds that carry nothing of the engine's add to the queue.
Plainly == {"start", "steer", "cancel", "notice", "budget", "settle", "deadline", "tick",
            "tools", "drain"}

\* What the mirrors tell apart.
Items == {"turn", "input", "response", "result", "ready"}

LEMMA AppendIs ==
  ASSUME NEW q \in Seq(Message), NEW x \in Message
  PROVE  LET a == Append(q, x)
         IN /\ a \in Seq(Message) /\ Len(q) \in Nat /\ Len(a) = Len(q) + 1
            /\ DOMAIN q = 1..Len(q) /\ DOMAIN a = 1..(Len(q) + 1)
            /\ a[Len(q) + 1] = x
            /\ \A n \in DOMAIN q : n \in DOMAIN a /\ a[n] = q[n] /\ n <= Len(q)
            /\ \A n \in DOMAIN a : \/ n \in DOMAIN q /\ a[n] = q[n] /\ n <= Len(q)
                                   \/ n = Len(q) + 1 /\ a[n] = x
<1> DEFINE a == Append(q, x)
<1>1. /\ a \in Seq(Message) /\ Len(q) \in Nat /\ Len(a) = Len(q) + 1
      /\ DOMAIN q = 1..Len(q) /\ DOMAIN a = 1..(Len(q) + 1)
      /\ a[Len(q) + 1] = x
      /\ \A n \in 1..Len(q) : a[n] = q[n]
  OBVIOUS
<1> HIDE DEF a
<1>2. \A n \in DOMAIN q : n \in DOMAIN a /\ a[n] = q[n] /\ n <= Len(q)
  BY <1>1
<1>3. \A n \in DOMAIN a : \/ n \in DOMAIN q /\ a[n] = q[n] /\ n <= Len(q)
                          \/ n = Len(q) + 1 /\ a[n] = x
  BY <1>1
<1> QED
  BY <1>1, <1>2, <1>3 DEF a

LEMMA AppendHas ==
  ASSUME NEW q \in Seq(Message), NEW x \in Message
  PROVE  LET a == Append(q, x)
         IN /\ \A k : Has(a, k) <=> x.k = k \/ Has(q, k)
            /\ \A i : Input(a, i) <=> (x.k = "input" /\ x.id = i) \/ Input(q, i)
            /\ Submits(a) = Submits(q) \cup (IF x.k = "submit" THEN {x.line} ELSE {})
            /\ Results(a) = Results(q) \cup (IF x.k = "result" THEN {x.call} ELSE {})
            /\ AnsweredCalls(a) = AnsweredCalls(q) \cup (IF x.k = "response" THEN x.calls ELSE {})
<1> DEFINE a == Append(q, x)
<1>1. /\ Len(q) + 1 \in DOMAIN a /\ a[Len(q) + 1] = x
      /\ \A n \in DOMAIN q : n \in DOMAIN a /\ a[n] = q[n]
      /\ \A n \in DOMAIN a : (n \in DOMAIN q /\ a[n] = q[n]) \/ a[n] = x
  <2>1. /\ Len(q) \in Nat /\ DOMAIN a = 1..(Len(q) + 1) /\ a[Len(q) + 1] = x
        /\ \A n \in DOMAIN q : n \in DOMAIN a /\ a[n] = q[n]
        /\ \A n \in DOMAIN a : (n \in DOMAIN q /\ a[n] = q[n]) \/ a[n] = x
    BY AppendIs
  <2> HIDE DEF a
  <2> QED
    BY <2>1
<1> HIDE DEF a
<1>2. \A k : Has(a, k) <=> x.k = k \/ Has(q, k)
  BY <1>1 DEF Has
<1>3. \A i : Input(a, i) <=> (x.k = "input" /\ x.id = i) \/ Input(q, i)
  BY <1>1 DEF Input
<1>4. Submits(a) = Submits(q) \cup (IF x.k = "submit" THEN {x.line} ELSE {})
  BY <1>1 DEF Submits
<1>5. Results(a) = Results(q) \cup (IF x.k = "result" THEN {x.call} ELSE {})
  BY <1>1 DEF Results
<1>6. AnsweredCalls(a) = AnsweredCalls(q) \cup (IF x.k = "response" THEN x.calls ELSE {})
  <2>1. \A c : (\E n \in DOMAIN a : a[n].k = "response" /\ c \in a[n].calls)
                 <=> \/ \E n \in DOMAIN q : q[n].k = "response" /\ c \in q[n].calls
                     \/ x.k = "response" /\ c \in x.calls
    BY <1>1
  <2> QED
    BY <2>1 DEF AnsweredCalls
<1> QED
  BY <1>2, <1>3, <1>4, <1>5, <1>6 DEF a

LEMMA AppendTurns ==
  ASSUME NEW q \in Seq(Message), NEW x \in Message
  PROVE  LET a == Append(q, x)
         IN /\ \A n \in DOMAIN q : \A i : Brings(a, n, i) <=> Brings(q, n, i)
            /\ \A n \in Nat \ {0}, k \in 0..Len(q) : TurnIn(a, n, k) <=> TurnIn(q, n, k)
            /\ \A n \in 1..(Len(q) + 1) :
                 TurnIn(a, n, Len(a)) <=> x.k = "turn" \/ TurnIn(q, n, Len(q))
<1> DEFINE a == Append(q, x)
<1>1. /\ Len(q) \in Nat /\ Len(a) = Len(q) + 1
      /\ DOMAIN q = 1..Len(q) /\ DOMAIN a = 1..(Len(q) + 1)
      /\ a[Len(q) + 1] = x
      /\ \A n \in DOMAIN q : n \in DOMAIN a /\ a[n] = q[n] /\ n <= Len(q)
  BY AppendIs
<1> HIDE DEF a
<1>2. \A n \in DOMAIN q : \A i : Brings(a, n, i) <=> Brings(q, n, i)
  BY <1>1 DEF Brings
<1>3. ASSUME NEW n \in Nat \ {0}, NEW k \in 0..Len(q) PROVE TurnIn(a, n, k) <=> TurnIn(q, n, k)
  <2>1. \A i \in n..k : i \in DOMAIN q
    BY <1>1
  <2> QED
    BY <1>1, <2>1 DEF TurnIn
<1>4. ASSUME NEW n \in 1..(Len(q) + 1)
      PROVE  TurnIn(a, n, Len(a)) <=> x.k = "turn" \/ TurnIn(q, n, Len(q))
  <2>1. \A i \in n..Len(a) : (i \in n..Len(q) /\ i \in DOMAIN q) \/ i = Len(q) + 1
    BY <1>1
  <2>2. \A i \in n..Len(q) : i \in n..Len(a) /\ i \in DOMAIN q
    BY <1>1
  <2>3. Len(q) + 1 \in n..Len(a)
    BY <1>1
  <2> QED
    BY <1>1, <2>1, <2>2, <2>3 DEF TurnIn
<1> QED
  BY <1>2, <1>3, <1>4 DEF a

\* What the session's part of the invariant tells apart.
Telling == {"exit", "response", "input", "submit"}

\* A function posted that tells nothing of it disturbs nothing.
LEMMA AppendMost ==
  ASSUME NEW q \in Seq(Message), NEW x \in Message, x.k \notin {"input", "submit"},
         NEW w, NEW h, Good(w, q, h)
  PROVE  LET a == Append(q, x)
         IN /\ Typed(w) /\ Inbox(w, a) /\ Sent(w, a) /\ Boundary(w)
            /\ Apart(w, a, h) /\ Landing(w, h) /\ Parks(w)
<1> DEFINE a == Append(q, x)
<1>1. \A n \in DOMAIN a : a[n].k \in {"input", "submit"} => n \in DOMAIN q /\ a[n] = q[n]
  <2>1. \A n \in DOMAIN a : (n \in DOMAIN q /\ a[n] = q[n]) \/ a[n] = x
    BY AppendIs
  <2> HIDE DEF a
  <2> QED
    BY <2>1
<1>2. (\A i : Input(a, i) <=> Input(q, i)) /\ Submits(a) = Submits(q)
  BY AppendHas
<1> HIDE DEF a
<1>3. Inbox(w, a) /\ Sent(w, a)
  <2>1. \A n, k \in DOMAIN a : a[n].k = "input" /\ a[k].k = "input" /\ a[n].id = a[k].id => n = k
    BY <1>1 DEF Good, Sent
  <2> QED
    BY <1>2, <2>1 DEF Good, Inbox, Owes, Sent
<1>4. Apart(w, a, h)
  <2>1. \A n, k \in DOMAIN a :
          a[n].k = "submit" /\ a[k].k = "submit" /\ a[n].line = a[k].line => n = k
    BY <1>1 DEF Good, Apart
  <2> QED
    BY <1>2, <2>1 DEF Good, Apart
<1> QED
  BY <1>3, <1>4 DEF Good, a

LEMMA AppendGood ==
  ASSUME NEW q \in Seq(Message), NEW x \in Message, x.k \notin Telling, NEW w, NEW h,
         Good(w, q, h)
  PROVE  Good(w, Append(q, x), h)
<1> DEFINE a == Append(q, x)
<1>1. /\ Len(q) \in Nat /\ DOMAIN q = 1..Len(q)
      /\ \A n \in DOMAIN q : n \in DOMAIN a /\ a[n] = q[n] /\ n <= Len(q)
      /\ \A n \in DOMAIN a : \/ n \in DOMAIN q /\ a[n] = q[n] /\ n <= Len(q)
                             \/ n = Len(q) + 1 /\ a[n] = x
  BY AppendIs
<1>2. /\ Has(a, "exit") <=> Has(q, "exit")
      /\ Has(q, "start") => Has(a, "start")
      /\ {"exit", "response", "submit", "input"} \subseteq Telling
  BY AppendHas DEF Telling
<1>3. /\ Typed(w) /\ Inbox(w, a) /\ Sent(w, a) /\ Boundary(w)
      /\ Apart(w, a, h) /\ Landing(w, h) /\ Parks(w)
  BY <1>2, AppendMost
<1> HIDE DEF a
<1>4. Exits(w, a)
  <2>1. \A n, k \in DOMAIN a : n < k /\ a[n].k = "exit" => a[k].k \notin {"exit", "response"}
    <3>1. SUFFICES ASSUME NEW n \in DOMAIN a, NEW k \in DOMAIN a, n < k, a[n].k = "exit"
                   PROVE  a[k].k \notin {"exit", "response"}
      OBVIOUS
    <3>2. n \in DOMAIN q /\ a[n] = q[n]
      BY <1>1, <1>2, <3>1
    <3>3. CASE k \in DOMAIN q /\ a[k] = q[k]
      BY <3>1, <3>2, <3>3 DEF Good, Exits
    <3>4. CASE a[k] = x
      BY <1>2, <3>4
    <3> QED
      BY <1>1, <3>3, <3>4
  <2> QED
    BY <1>2, <2>1 DEF Good, Exits
<1>5. InTurn(w, a)
  <2>1. ASSUME NEW n \in DOMAIN a, a[n].k = "response", a[n].calls # {}
        PROVE  Open(w) \/ w.how = "cancel" \/ \E k \in 1..(n - 1) : a[k].k = "start"
    <3>1. n \in DOMAIN q /\ a[n] = q[n]
      BY <1>1, <1>2, <2>1
    <3>2. Open(w) \/ w.how = "cancel" \/ \E k \in 1..(n - 1) : q[k].k = "start"
      BY <2>1, <3>1 DEF Good, InTurn
    <3>3. \A k \in 1..(n - 1) : k \in DOMAIN q
      BY <1>1, <3>1
    <3> QED
      BY <1>1, <3>2, <3>3
  <2> QED
    BY <1>2, <2>1 DEF Good, InTurn
<1> QED
  BY <1>3, <1>4, <1>5 DEF Good, a

\* Nor does a function disturb what it tells nothing of in what the mirrors owe
\* to the queue.
LEMMA AppendAnswers ==
  ASSUME NEW q \in Seq(Message), NEW x \in Message, x.k \notin {"turn", "response", "ready"},
         NEW m, Answers(m, q)
  PROVE  Answers(m, Append(q, x))
<1> DEFINE a == Append(q, x)
<1>1. /\ Len(q) \in Nat /\ DOMAIN q = 1..Len(q) /\ Len(a) = Len(q) + 1
      /\ \A n \in DOMAIN q : n \in DOMAIN a /\ a[n] = q[n] /\ n <= Len(q)
      /\ \A n \in DOMAIN a : \/ n \in DOMAIN q /\ a[n] = q[n] /\ n <= Len(q)
                             \/ n = Len(q) + 1 /\ a[n] = x
  BY AppendIs
<1>2. \A k \in {"turn", "response"} : Has(a, k) <=> Has(q, k)
  BY AppendHas
<1> HIDE DEF a
<1>3. \A n \in DOMAIN a : a[n].k \in {"turn", "response", "ready"} => n \in DOMAIN q /\ a[n] = q[n]
  BY <1>1
<1>4. Answers(m, a)
  <2>1. \A n, k \in DOMAIN a :
          n < k /\ a[n].k \in {"turn", "response"} => a[k].k # "response"
    <3>1. SUFFICES ASSUME NEW n \in DOMAIN a, NEW k \in DOMAIN a, n < k,
                          a[n].k \in {"turn", "response"}, a[k].k = "response"
                   PROVE  FALSE
      OBVIOUS
    <3>2. n \in DOMAIN q /\ a[n] = q[n] /\ k \in DOMAIN q /\ a[k] = q[k]
      BY <1>3, <3>1
    <3> QED
      BY <3>1, <3>2 DEF Answers
  <2>2. \A n \in DOMAIN a : a[n].k = "ready" =>
          /\ req.at = "barrier"
          /\ \A k \in DOMAIN a : k > n => a[k].k \notin {"turn", "response", "ready"}
    <3>1. SUFFICES ASSUME NEW n \in DOMAIN a, a[n].k = "ready"
                   PROVE  /\ req.at = "barrier"
                          /\ \A k \in DOMAIN a : k > n => a[k].k \notin {"turn", "response", "ready"}
      OBVIOUS
    <3>2. n \in DOMAIN q /\ q[n].k = "ready"
      BY <1>3, <3>1
    <3>3. /\ req.at = "barrier"
          /\ \A k \in DOMAIN q : k > n => q[k].k \notin {"turn", "response", "ready"}
      BY <3>2 DEF Answers
    <3> QED
      BY <1>3, <3>3
  <2>3. \A k \in {"turn", "response"} : Has(a, k) <=> Has(q, k)
    BY <1>2
  <2> QED
    BY <2>1, <2>2, <2>3 DEF Answers
<1> QED
  BY <1>4 DEF a

LEMMA AppendReasons ==
  ASSUME NEW q \in Seq(Message), NEW x \in Message, x.k \notin {"turn", "response"},
         NEW m, Reasons(m, q)
  PROVE  Reasons(m, Append(q, x))
<1> DEFINE a == Append(q, x)
<1>1. /\ Len(q) \in Nat /\ DOMAIN q = 1..Len(q) /\ Len(a) = Len(q) + 1
      /\ \A n \in DOMAIN q : n \in DOMAIN a /\ a[n] = q[n] /\ n <= Len(q)
      /\ \A n \in DOMAIN a : \/ n \in DOMAIN q /\ a[n] = q[n] /\ n <= Len(q)
                             \/ n = Len(q) + 1 /\ a[n] = x
  BY AppendIs
<1>2. \A k \in {"turn", "response"} : Has(a, k) <=> Has(q, k)
  BY AppendHas
<1>3. /\ \A n \in DOMAIN q : \A i : Brings(a, n, i) <=> Brings(q, n, i)
      /\ \A n \in Nat \ {0}, k \in 0..Len(q) : TurnIn(a, n, k) <=> TurnIn(q, n, k)
      /\ \A n \in 1..(Len(q) + 1) : TurnIn(a, n, Len(a)) <=> TurnIn(q, n, Len(q))
  BY AppendTurns
<1> HIDE DEF a
<1>4. \A n \in DOMAIN a : a[n].k \in {"turn", "response"} => n \in DOMAIN q /\ a[n] = q[n]
  BY <1>1
<1>5. Reasons(m, a)
  <2>0. Has(a, "turn") <=> Has(q, "turn")
    BY <1>2
  <2>1. ASSUME NEW i \in sync.reasons
        PROVE  \/ i \in m.reasons /\ ~Has(a, "turn")
               \/ \E n \in DOMAIN a : Brings(a, n, i) /\ ~TurnIn(a, n, Len(a))
    <3>1. CASE \E n \in DOMAIN q : Brings(q, n, i) /\ ~TurnIn(q, n, Len(q))
      <4>1. PICK n \in DOMAIN q : Brings(q, n, i) /\ ~TurnIn(q, n, Len(q))
        BY <3>1
      <4>2. n \in DOMAIN a /\ n \in 1..(Len(q) + 1)
        BY <1>1, <4>1
      <4>3. Brings(a, n, i) /\ ~TurnIn(a, n, Len(a))
        BY <1>3, <4>1, <4>2
      <4> QED
        BY <4>2, <4>3
    <3> QED
      BY <2>0, <3>1 DEF Reasons
  <2>2. ASSUME NEW n \in DOMAIN a, a[n].k = "turn" PROVE n \in DOMAIN q /\ q[n].k = "turn"
    BY <1>4, <2>2
  <2>3. ASSUME NEW n \in DOMAIN a, a[n].k = "turn", ~TurnIn(a, n + 1, Len(a)),
               NEW i \in sync.turnReasons
        PROVE  \/ i \in m.reasons /\ ~TurnIn(a, 1, n - 1)
               \/ \E k \in 1..(n - 1) : Brings(a, k, i) /\ ~TurnIn(a, k, n - 1)
    <3>1. n \in DOMAIN q /\ q[n].k = "turn"
      BY <2>2, <2>3
    <3>2. n + 1 \in 1..(Len(q) + 1) /\ n - 1 \in 0..Len(q) /\ 1 \in Nat \ {0}
      BY <1>1, <3>1
    <3>3. ~TurnIn(q, n + 1, Len(q))
      BY <1>3, <2>3, <3>2
    <3>4. \/ i \in m.reasons /\ ~TurnIn(q, 1, n - 1)
          \/ \E k \in 1..(n - 1) : Brings(q, k, i) /\ ~TurnIn(q, k, n - 1)
      BY <3>1, <3>3 DEF Reasons
    <3>5. \A k \in 1..(n - 1) : k \in DOMAIN q /\ k \in Nat \ {0}
      BY <1>1, <3>1
    <3> QED
      BY <1>3, <3>2, <3>4, <3>5
  <2>4. ASSUME NEW n \in DOMAIN a, a[n].k = "turn", ~TurnIn(a, 1, n - 1),
               ~m.inflight \/ Has(a, "response")
        PROVE  m.reasons # {} \/ \E k \in 1..(n - 1) : a[k].k \in {"input", "result"}
    <3>1. n \in DOMAIN q /\ q[n].k = "turn"
      BY <2>2, <2>4
    <3>2. n - 1 \in 0..Len(q) /\ 1 \in Nat \ {0} /\ \A k \in 1..(n - 1) : k \in DOMAIN q
      BY <1>1, <3>1
    <3>3. ~TurnIn(q, 1, n - 1)
      BY <1>3, <2>4, <3>2
    <3>4. Has(a, "response") <=> Has(q, "response")
      BY <1>2
    <3>5. m.reasons # {} \/ \E k \in 1..(n - 1) : q[k].k \in {"input", "result"}
      BY <2>4, <3>1, <3>3, <3>4 DEF Reasons
    <3> QED
      BY <1>1, <3>2, <3>5
  <2> QED
    BY <2>1, <2>3, <2>4 DEF Reasons
<1> QED
  BY <1>5 DEF a

LEMMA AppendCalls ==
  ASSUME NEW q \in Seq(Message), NEW x \in Message, x.k \notin {"response", "result"},
         NEW m, CallsOnce(m, q)
  PROVE  CallsOnce(m, Append(q, x))
<1> DEFINE a == Append(q, x)
<1>1. /\ Len(q) \in Nat /\ DOMAIN q = 1..Len(q) /\ Len(a) = Len(q) + 1
      /\ \A n \in DOMAIN q : n \in DOMAIN a /\ a[n] = q[n] /\ n <= Len(q)
      /\ \A n \in DOMAIN a : \/ n \in DOMAIN q /\ a[n] = q[n] /\ n <= Len(q)
                             \/ n = Len(q) + 1 /\ a[n] = x
  BY AppendIs
<1>2. Results(a) = Results(q) /\ AnsweredCalls(a) = AnsweredCalls(q)
  BY AppendHas
<1> HIDE DEF a
<1>3. \A n \in DOMAIN a : a[n].k \in {"response", "result"} => n \in DOMAIN q /\ a[n] = q[n]
  BY <1>1
<1>4. CallsOnce(m, a)
  <2>1. \A n \in DOMAIN a : a[n].k = "result" => n \in DOMAIN q /\ a[n] = q[n]
    BY <1>3
  <2>2. ASSUME NEW n \in DOMAIN a, a[n].k = "result"
        PROVE  \/ a[n].call \in m.outstanding
               \/ \E k \in 1..(n - 1) : a[k].k = "response" /\ a[n].call \in a[k].calls
    <3>1. n \in DOMAIN q /\ a[n] = q[n]
      BY <2>1, <2>2
    <3>2. \A k \in 1..(n - 1) : k \in DOMAIN q
      BY <1>1, <3>1
    <3>3. \/ q[n].call \in m.outstanding
          \/ \E k \in 1..(n - 1) : q[k].k = "response" /\ q[n].call \in q[k].calls
      BY <2>2, <3>1 DEF CallsOnce
    <3> QED
      BY <1>1, <3>1, <3>2, <3>3
  <2>3. \A n, k \in DOMAIN a :
          a[n].k = "result" /\ a[k].k = "result" /\ a[n].call = a[k].call => n = k
    BY <2>1 DEF CallsOnce
  <2> QED
    BY <1>2, <2>2, <2>3 DEF CallsOnce
<1> QED
  BY <1>4 DEF a

LEMMA PlainLags ==
  ASSUME NEW q \in Seq(Message), NEW x \in Message, x.k \notin Items,
         NEW m, Lags(m, q)
  PROVE  Lags(m, Append(q, x))
<1>1. x.k \notin {"turn", "response", "ready"} /\ x.k \notin {"response", "result"}
  BY DEF Items
<1> QED
  BY <1>1, AppendAnswers, AppendReasons, AppendCalls DEF Lags

\* What the queue tells.
Queued(q) ==
  \/ q = fifo
  \/ \E x \in Message : x.k \in Plainly /\ q = Append(fifo, x)

LEMMA QueuedIs ==
  ASSUME fifo \in Seq(Message), NEW q, Queued(q)
  PROVE  /\ q \in Seq(Message)
         /\ \A i : Input(q, i) <=> Input(fifo, i)
         /\ \A k : k \notin Plainly => (Has(q, k) <=> Has(fifo, k))
         /\ AnsweredCalls(q) = AnsweredCalls(fifo) /\ Results(q) = Results(fifo)
         /\ \A w : Good(w, fifo, {}) => Good(w, q, {})
         /\ \A m : Lags(m, fifo) => Lags(m, q)
         /\ {"turn", "response", "ready"} \cap Plainly = {}
<1>0. /\ {"input", "response", "result"} \cap Plainly = {} /\ Plainly \cap Items = {}
      /\ {"turn", "response", "ready"} \cap Plainly = {} /\ Plainly \cap Telling = {}
  BY DEF Plainly, Items, Telling
<1>1. CASE q = fifo
  BY <1>0, <1>1
<1>2. ASSUME NEW x \in Message, x.k \in Plainly, q = Append(fifo, x)
      PROVE  /\ q \in Seq(Message)
             /\ \A i : Input(q, i) <=> Input(fifo, i)
             /\ \A k : k \notin Plainly => (Has(q, k) <=> Has(fifo, k))
             /\ AnsweredCalls(q) = AnsweredCalls(fifo) /\ Results(q) = Results(fifo)
             /\ \A w : Good(w, fifo, {}) => Good(w, q, {})
             /\ \A m : Lags(m, fifo) => Lags(m, q)
  <2>1. q \in Seq(Message)
    BY <1>2
  <2>2. \A w : Good(w, fifo, {}) => Good(w, q, {})
    BY <1>0, <1>2, AppendGood
  <2>3. \A m : Lags(m, fifo) => Lags(m, q)
    BY <1>0, <1>2, PlainLags
  <2>4. x.k \notin {"input", "response", "result"}
    BY <1>0, <1>2
  <2>5. /\ \A i : Input(q, i) <=> Input(fifo, i)
        /\ \A k : k \notin Plainly => (Has(q, k) <=> Has(fifo, k))
        /\ AnsweredCalls(q) = AnsweredCalls(fifo) /\ Results(q) = Results(fifo)
    BY ZenonT(60),<1>2, <2>4, AppendHas
  <2> QED
    BY <2>1, <2>2, <2>3, <2>5
<1> QED
  BY <1>0, <1>1, <1>2 DEF Queued

LEMMA IsMessage ==
  ASSUME NEW k \in Plainly \cup {"turn", "ready", "exit"}
  PROVE  Is(k) \in Message /\ Is(k).k = k
  BY DEF Is, Message, Plainly

\* The parts of the invariant in the next state, from what they say of it now.
LEMMA RecordedNext ==
  ASSUME fifo' \in Seq(Message), NEW i \in Inputs
  PROVE  Recorded(i)' <=> Input(fifo', i)
<1>1. ASSUME Recorded(i)' PROVE Input(fifo', i)
  <2>1. PICK n \in DOMAIN fifo' : fifo'[n] = [k |-> "input", id |-> i]
    BY <1>1 DEF Recorded, Elements
  <2> QED
    BY <2>1 DEF Input
<1>2. ASSUME Input(fifo', i) PROVE Recorded(i)'
  <2>1. PICK n \in DOMAIN fifo' : fifo'[n].k = "input" /\ fifo'[n].id = i
    BY <1>2 DEF Input
  <2>2. fifo'[n] \in Message
    BY <2>1
  <2>3. fifo'[n] \in [k : {"input"}, id : Inputs]
    BY <2>1, <2>2 DEF Message
  <2>4. fifo'[n] = [k |-> "input", id |-> i]
    BY <2>1, <2>3
  <2> QED
    BY <2>1, <2>4 DEF Recorded, Elements
<1> QED
  BY <1>1, <1>2

LEMMA PartsArrive ==
  ASSUME fifo \in Seq(Message), NEW q \in Seq(Message), fifo' = q,
         \A i : Input(q, i) <=> Input(fifo, i),
         submitted' = submitted, steered' = steered, noted' = noted,
         Typed(s'), Inbox(s', q), Sent(s', q), Boundary(s'), Apart(s', q, {}), Landing(s', {})
  PROVE  /\ Typed(s)' /\ Inbox(s, fifo)' /\ Sent(s, fifo)' /\ Boundary(s)'
         /\ Apart(s, fifo, {})' /\ Landing(s, {})'
<1>1. \A i \in Inputs : Recorded(i)' <=> Recorded(i)
  BY RecordedIs, RecordedNext
<1>2. Typed(s)'
  BY DEF Typed
<1>3. Inbox(s, fifo)'
  BY DEF Inbox, Owes, Input
<1>4. Sent(s, fifo)'
  BY <1>1 DEF Sent, Input
<1>5. Boundary(s)'
  <2>1. Waiting(s') \subseteq Inputs
    BY DEF Waiting, Elements, Session, Inputs, Typed
  <2> QED
    BY <1>1, <2>1 DEF Boundary, Waiting
<1>6. Apart(s, fifo, {})'
  BY DEF Apart, Said, Submits
<1>7. Landing(s, {})'
  BY DEF Landing, Open, Cancelling
<1> QED
  BY <1>2, <1>3, <1>4, <1>5, <1>6, <1>7

LEMMA GoodArrives ==
  ASSUME fifo \in Seq(Message), NEW q \in Seq(Message), fifo' = q,
         \A i : Input(q, i) <=> Input(fifo, i),
         submitted' = submitted, steered' = steered, noted' = noted, deaths' = deaths,
         Good(s', q, {}),
         ~s'.alive => req'.at = "none",
         req'.at = "provider" \/ (req'.at = "answered" /\ req'.calls # {}) =>
           Open(s') \/ Has(q, "start") \/ s'.how = "cancel",
         s'.hushed /\ req'.at = "starting" => s'.userStop
  PROVE  Good(s, fifo, {})'
<1>1. /\ Typed(s)' /\ Inbox(s, fifo)' /\ Sent(s, fifo)' /\ Boundary(s)'
      /\ Apart(s, fifo, {})' /\ Landing(s, {})'
  BY PartsArrive DEF Good
<1>2. Exits(s, fifo)'
  BY DEF Good, Exits, Has
<1>3. InTurn(s, fifo)'
  BY DEF Good, InTurn, Open, Has
<1>4. Parks(s)'
  BY DEF Good, Parks
<1> QED
  BY <1>1, <1>2, <1>3, <1>4 DEF Good

LEMMA AnswersArrive ==
  ASSUME NEW q, fifo' = q, sync'.inflight = sync.inflight, Answers(s'.m, q),
         Has(q, "turn") \/ Has(q, "response") => req'.at \in {"none", "called", "barrier"},
         Has(q, "ready") => req'.at = "barrier",
         req'.at # "none" => sync.inflight
  PROVE  Answers(s.m, fifo)'
<1>1. ASSUME NEW k PROVE Has(fifo, k)' <=> Has(q, k)
  BY DEF Has
<1>2. \A n \in DOMAIN q : q[n].k = "ready" => req'.at = "barrier"
  BY DEF Has
<1> QED
  BY <1>1, <1>2 DEF Answers

LEMMA ReasonsArrive ==
  ASSUME NEW q, fifo' = q, sync' = sync, Reasons(s'.m, q)
  PROVE  Reasons(s.m, fifo)'
<1>1. /\ Has(fifo, "turn")' <=> Has(q, "turn")
      /\ Has(fifo, "response")' <=> Has(q, "response")
  BY DEF Has
<1>2. \A n, x : Brings(fifo, n, x)' <=> Brings(q, n, x)
  BY DEF Brings
<1>3. \A a, b : TurnIn(fifo, a, b)' <=> TurnIn(q, a, b)
  BY DEF TurnIn
<1>4. \A x \in sync'.reasons :
        \/ x \in s'.m.reasons /\ ~Has(fifo, "turn")'
        \/ \E n \in DOMAIN fifo' : Brings(fifo, n, x)' /\ ~TurnIn(fifo, n, Len(fifo))'
  BY <1>1, <1>2, <1>3 DEF Reasons
<1>5. \A n \in DOMAIN fifo' : fifo'[n].k = "turn" /\ ~TurnIn(fifo, n + 1, Len(fifo))' =>
        \A x \in sync'.turnReasons :
          \/ x \in s'.m.reasons /\ ~TurnIn(fifo, 1, n - 1)'
          \/ \E k \in 1..(n - 1) : Brings(fifo, k, x)' /\ ~TurnIn(fifo, k, n - 1)'
  BY <1>1, <1>2, <1>3 DEF Reasons
<1>6. \A n \in DOMAIN fifo' :
        fifo'[n].k = "turn" /\ ~TurnIn(fifo, 1, n - 1)'
          /\ (~s'.m.inflight \/ Has(fifo, "response")') =>
            s'.m.reasons # {} \/ \E k \in 1..(n - 1) : fifo'[k].k \in {"input", "result"}
  BY <1>1, <1>2, <1>3 DEF Reasons
<1> QED
  BY <1>4, <1>5, <1>6 DEF Reasons

LEMMA CallsArrive ==
  ASSUME NEW q, fifo' = q, sync' = sync, issued' = issued, req'.calls = req.calls,
         req'.at # "answered" => req'.calls = {}, CallsOnce(s'.m, q)
  PROVE  CallsOnce(s.m, fifo)'
<1>1. /\ AnsweredCalls(fifo)' = AnsweredCalls(q) /\ Results(fifo)' = Results(q)
      /\ Issued' = Issued /\ Seen(s.m)' = Seen(s'.m)
  BY DEF AnsweredCalls, Results, Issued, Seen
<1> QED
  BY <1>1 DEF CallsOnce

\* A step that leaves the mirrors and the request alone.
LEMMA QuietStep ==
  ASSUME IInv, NEW q, Queued(q), fifo' = q, Good(s', fifo, {}), s'.m = s.m,
         sync' = sync, req' = req, startup' \in {"mounting", "ready", "watched"},
         submitted' = submitted, steered' = steered, noted' = noted, issued' = issued,
         deaths' = deaths
  PROVE  IInv'
<1>1. TypedRest /\ Good(s, fifo, {}) /\ Lags(s.m, fifo)
  BY DEF IInv
<1>2. fifo \in Seq(Message)
  BY <1>1 DEF TypedRest
<1>3. /\ q \in Seq(Message) /\ \A i : Input(q, i) <=> Input(fifo, i)
      /\ Good(s', q, {}) /\ Lags(s'.m, q)
  BY <1>1, <1>2, QueuedIs
<1>4. Good(s, fifo, {})'
  <2>1. ~s'.alive => req'.at = "none"
    BY <1>3 DEF Good, Exits
  <2>2. req'.at = "provider" \/ (req'.at = "answered" /\ req'.calls # {}) =>
          Open(s') \/ Has(q, "start") \/ s'.how = "cancel"
    BY <1>3 DEF Good, InTurn
  <2>3. s'.hushed /\ req'.at = "starting" => s'.userStop
    BY <1>3 DEF Good, Parks
  <2> QED
    BY <1>2, <1>3, <2>1, <2>2, <2>3, GoodArrives
<1>5. Answers(s.m, fifo)'
  <2>1. /\ Has(q, "turn") \/ Has(q, "response") => req'.at \in {"none", "called", "barrier"}
        /\ Has(q, "ready") => req'.at = "barrier"
        /\ req'.at # "none" => sync.inflight
        /\ Answers(s'.m, q)
    BY <1>3 DEF Lags, Answers, Has
  <2> QED
    BY <2>1, AnswersArrive
<1>6. Reasons(s.m, fifo)'
  BY <1>3, ReasonsArrive DEF Lags
<1>7. CallsOnce(s.m, fifo)'
  <2>1. (req'.at # "answered" => req'.calls = {}) /\ CallsOnce(s'.m, q)
    BY <1>3 DEF Lags, CallsOnce
  <2> QED
    BY <2>1, CallsArrive
<1>8. TypedRest'
  BY <1>1, <1>3 DEF TypedRest
<1> QED
  BY <1>4, <1>5, <1>6, <1>7, <1>8 DEF IInv, Lags

-----------------------------------------------------------------------------
(* The ui, the notices and the timers.                                     *)

\* Fields the invariant does not speak of.
LEMMA AsideFields ==
  ASSUME NEW w \in Session
  PROVE  /\ [w EXCEPT !.cancelAt = FALSE] \in Session
         /\ [w EXCEPT !.drain = "asked"] \in Session
         /\ [w EXCEPT !.stale = ~w.stale] \in Session
         /\ [w EXCEPT !.settle = "fired"] \in Session
         /\ Alike([w EXCEPT !.cancelAt = FALSE], w)
         /\ Alike([w EXCEPT !.drain = "asked"], w)
         /\ Alike([w EXCEPT !.stale = ~w.stale], w)
         /\ Alike([w EXCEPT !.settle = "fired"], w)
<1>1. [w EXCEPT !.cancelAt = FALSE] \in Session
  BY ZenonT(60)DEF Session
<1>2. [w EXCEPT !.drain = "asked"] \in Session
  <2>1. ASSUME NEW x \in {"no", "asked", "waiting", "returned"}
        PROVE  [w EXCEPT !.drain = x] \in Session
    BY ZenonT(60)DEF Session
  <2> QED
    BY <2>1
<1>3. [w EXCEPT !.stale = ~w.stale] \in Session
  <2>1. ASSUME NEW x \in BOOLEAN PROVE [w EXCEPT !.stale = x] \in Session
    BY ZenonT(60)DEF Session
  <2> QED
    BY <2>1
<1>4. [w EXCEPT !.settle = "fired"] \in Session
  <2>1. ASSUME NEW x \in {"off", "armed", "fired"} PROVE [w EXCEPT !.settle = x] \in Session
    BY ZenonT(60)DEF Session
  <2> QED
    BY <2>1
<1>5. /\ Alike([w EXCEPT !.cancelAt = FALSE], w)
      /\ Alike([w EXCEPT !.drain = "asked"], w)
  BY DEF Session, Alike
<1>6. /\ Alike([w EXCEPT !.stale = ~w.stale], w)
      /\ Alike([w EXCEPT !.settle = "fired"], w)
  BY DEF Session, Alike
<1> QED
  BY <1>1, <1>2, <1>3, <1>4, <1>5, <1>6

LEMMA AsideStates ==
  ASSUME NEW w \in Session
  PROVE  /\ [w EXCEPT !.restart = "due"] \in Session
         /\ [w EXCEPT !.cancelling = "expired"] \in Session
         /\ \A N \in SUBSET News : [w EXCEPT !.news = N] \in Session
         /\ \A q \in Seq(Steers), P \in SUBSET Steers :
              [w EXCEPT !.steerIn = q, !.promised = P] \in Session
<1>1. [w EXCEPT !.restart = "due"] \in Session
  BY ZenonT(60)DEF Session
<1>2. [w EXCEPT !.cancelling = "expired"] \in Session
  BY ZenonT(60)DEF Session
<1>3. ASSUME NEW N \in SUBSET News PROVE [w EXCEPT !.news = N] \in Session
  BY ZenonT(60)DEF Session
<1>4. ASSUME NEW q \in Seq(Steers), NEW P \in SUBSET Steers
      PROVE  [w EXCEPT !.steerIn = q, !.promised = P] \in Session
  BY ZenonT(60)DEF Session
<1> QED
  BY <1>1, <1>2, <1>3, <1>4

LEMMA IdleSteps ==
  ASSUME IInv, Cancel \/ CancelExpires \/ Mounted \/ Watch \/ Drain \/ ChangeTools
               \/ ToolsSettle \/ SettleExpires \/ CancelWaited
  PROVE  IInv'
<1>0. s \in Session
  BY DEF IInv, Good, Typed
<1>1. /\ s \in Session /\ Good(s, fifo, {}) /\ startup \in {"mounting", "ready", "watched"}
  BY DEF IInv, TypedRest, Good, Typed
<1>2. /\ Queued(fifo)
      /\ \A k \in Plainly : Queued(Append(fifo, Is(k)))
  BY IsMessage DEF Queued
<1>3. {"cancel", "tick", "drain", "tools", "settle", "deadline"} \subseteq Plainly
  BY DEF Plainly
<1>4. CASE Cancel
  <2>1. fifo' = Append(fifo, Is("cancel")) /\ s' = s
    BY <1>4 DEF Cancel, Post
  <2>2. Good(s', fifo, {}) /\ s'.m = s.m
    BY <1>1, <2>1
  <2> QED
    BY <1>1, <1>2, <1>3, <1>4, <2>1, <2>2, QuietStep DEF Cancel
<1>5. CASE CancelExpires
  <2> DEFINE v == [s EXCEPT !.cancelAt = FALSE]
  <2>1. fifo' = fifo /\ s' = v /\ UNCHANGED <<sync, req, startup, counters>>
    BY <1>5 DEF CancelExpires
  <2>2. v \in Session /\ Alike(v, s)
    BY <1>0, AsideFields
  <2> HIDE DEF v
  <2>3. Good(s', fifo, {}) /\ s'.m = s.m
    BY <1>1, <2>1, <2>2, AlikeGood DEF Alike
  <2>4. /\ fifo' = fifo /\ startup' = startup /\ sync' = sync /\ req' = req
        /\ submitted' = submitted /\ steered' = steered /\ noted' = noted
        /\ issued' = issued /\ deaths' = deaths
    BY <2>1 DEF counters
  <2> QED
    BY <1>1, <1>2, <1>3, <2>3, <2>4, QuietStep
<1>6. CASE Mounted
  <2>1. fifo' = fifo /\ s' = s /\ UNCHANGED <<sync, req, counters>> /\ startup' = "ready"
    BY <1>6 DEF Mounted
  <2>2. Good(s', fifo, {}) /\ s'.m = s.m
    BY <1>1, <2>1
  <2> QED
    BY <1>2, <2>1, <2>2, QuietStep DEF counters
<1>7. CASE Watch
  <2>1. /\ fifo' = Append(fifo, Is("tick")) /\ s' = s
        /\ UNCHANGED <<sync, req, counters>> /\ startup' = "watched"
    BY <1>7 DEF Watch, Post
  <2>2. Good(s', fifo, {}) /\ s'.m = s.m
    BY <1>1, <2>1
  <2> QED
    BY <1>2, <1>3, <2>1, <2>2, QuietStep DEF counters
<1>8. CASE Drain
  <2> DEFINE v == [s EXCEPT !.drain = "asked"]
  <2>1. /\ fifo' = Append(fifo, Is("drain")) /\ s' = v
        /\ UNCHANGED <<sync, req, startup, counters>>
    BY <1>8 DEF Drain, Post
  <2>2. v \in Session /\ Alike(v, s)
    BY <1>0, AsideFields
  <2> HIDE DEF v
  <2>3. Good(s', fifo, {}) /\ s'.m = s.m
    BY <1>1, <2>1, <2>2, AlikeGood DEF Alike
  <2>4. /\ fifo' = Append(fifo, Is("drain")) /\ startup' = startup /\ sync' = sync /\ req' = req
        /\ submitted' = submitted /\ steered' = steered /\ noted' = noted
        /\ issued' = issued /\ deaths' = deaths
    BY <2>1 DEF counters
  <2> QED
    BY <1>1, <1>2, <1>3, <2>3, <2>4, QuietStep
<1>9. CASE ChangeTools
  <2> DEFINE v == [s EXCEPT !.stale = ~s.stale]
  <2>1. fifo' = Append(fifo, Is("tools")) /\ s' = v
    BY <1>9 DEF ChangeTools, Post
  <2>2. v \in Session /\ Alike(v, s)
    BY <1>0, AsideFields
  <2> HIDE DEF v
  <2>3. Good(s', fifo, {}) /\ s'.m = s.m
    BY <1>1, <2>1, <2>2, AlikeGood DEF Alike
  <2>4. /\ fifo' = Append(fifo, Is("tools")) /\ startup' = startup /\ sync' = sync /\ req' = req
        /\ submitted' = submitted /\ steered' = steered /\ noted' = noted
        /\ issued' = issued /\ deaths' = deaths
    BY <1>9, <2>1 DEF ChangeTools
  <2> QED
    BY <1>1, <1>2, <1>3, <2>3, <2>4, QuietStep
<1>10. CASE ToolsSettle
  <2> DEFINE v == [s EXCEPT !.restart = "due"]
  <2>1. /\ s.restart = "marked" /\ s' = v
        /\ fifo' = Append(fifo, Is("tick")) /\ UNCHANGED <<sync, req, startup, counters>>
    BY <1>10 DEF ToolsSettle, Post
  <2>5. v \in Session
    BY <1>0, AsideStates
  <2>6. v.m = s.m /\ v.restart = "due"
    BY <1>0 DEF Session
  <2>2. s' \in Session /\ s'.m = s.m /\ s'.restart = "due"
    BY <2>1, <2>5, <2>6
  <2>3. Good(s', fifo, {})
    <3>1. /\ s'.unobserved = s.unobserved /\ s'.run = s.run /\ s'.alive = s.alive
          /\ s'.inbox = s.inbox /\ s'.inputs = s.inputs
          /\ s'.steerIn = s.steerIn /\ s'.told = s.told /\ s'.turn = s.turn
          /\ s'.steerQ = s.steerQ /\ s'.noticeQ = s.noticeQ /\ s'.notes = s.notes
          /\ s'.pending = s.pending /\ s'.news = s.news /\ s'.adopted = s.adopted
          /\ s'.ended = s.ended /\ s'.cancelled = s.cancelled /\ s'.cancelling = s.cancelling
          /\ s'.parked = s.parked /\ s'.muted = s.muted /\ s'.userStop = s.userStop
          /\ s'.steerable = s.steerable /\ s'.promised = s.promised
          /\ s'.begun = s.begun /\ s'.known = s.known /\ s'.hushed = s.hushed /\ s'.how = s.how
      BY <1>1, <2>1 DEF Session
    <3>2. Typed(s') /\ Exits(s', fifo) /\ Inbox(s', fifo) /\ Sent(s', fifo) /\ Boundary(s')
      BY <1>1, <2>1, <2>2, <3>1 DEF Good, Typed, Exits, Inbox, Sent, Owes, Boundary, Waiting
    <3>3. Apart(s', fifo, {}) /\ Landing(s', {})
      BY <1>1, <3>1 DEF Good, Apart, Landing, Open, Cancelling
    <3>4. InTurn(s', fifo) /\ Parks(s')
      BY <1>1, <2>2, <3>1 DEF Good, InTurn, Open, Parks
    <3> QED
      BY <3>2, <3>3, <3>4 DEF Good
  <2>4. /\ fifo' = Append(fifo, Is("tick")) /\ startup' = startup /\ sync' = sync /\ req' = req
        /\ submitted' = submitted /\ steered' = steered /\ noted' = noted
        /\ issued' = issued /\ deaths' = deaths
    BY <2>1 DEF counters
  <2> QED
    BY <1>1, <1>2, <1>3, <2>2, <2>3, <2>4, QuietStep
<1>11. CASE SettleExpires
  <2> DEFINE v == [s EXCEPT !.settle = "fired"]
  <2>1. /\ fifo' = Append(fifo, Is("settle")) /\ s' = v
        /\ UNCHANGED <<sync, req, startup, counters>>
    BY <1>11 DEF SettleExpires, Post
  <2>2. v \in Session /\ Alike(v, s)
    BY <1>0, AsideFields
  <2> HIDE DEF v
  <2>3. Good(s', fifo, {}) /\ s'.m = s.m
    BY <1>1, <2>1, <2>2, AlikeGood DEF Alike
  <2>4. /\ fifo' = Append(fifo, Is("settle")) /\ startup' = startup /\ sync' = sync /\ req' = req
        /\ submitted' = submitted /\ steered' = steered /\ noted' = noted
        /\ issued' = issued /\ deaths' = deaths
    BY <2>1 DEF counters
  <2> QED
    BY <1>1, <1>2, <1>3, <2>3, <2>4, QuietStep
<1>12. CASE CancelWaited
  <2> DEFINE v == [s EXCEPT !.cancelling = "expired"]
  <2>1. /\ s.cancelling = "waiting" /\ s' = v
        /\ fifo' = Append(fifo, Is("deadline")) /\ UNCHANGED <<sync, req, startup, counters>>
    BY <1>12 DEF CancelWaited, Post
  <2>5. v \in Session
    BY <1>0, AsideStates
  <2>6. v.m = s.m /\ v.cancelling = "expired"
    BY <1>0 DEF Session
  <2>2. s' \in Session /\ s'.m = s.m /\ s'.cancelling = "expired"
    BY <2>1, <2>5, <2>6
  <2>3. Good(s', fifo, {})
    <3>1. /\ s'.unobserved = s.unobserved /\ s'.run = s.run /\ s'.alive = s.alive
          /\ s'.inbox = s.inbox /\ s'.inputs = s.inputs /\ s'.restart = s.restart
          /\ s'.steerIn = s.steerIn /\ s'.told = s.told /\ s'.turn = s.turn
          /\ s'.steerQ = s.steerQ /\ s'.noticeQ = s.noticeQ /\ s'.notes = s.notes
          /\ s'.pending = s.pending /\ s'.news = s.news /\ s'.adopted = s.adopted
          /\ s'.ended = s.ended /\ s'.cancelled = s.cancelled
          /\ s'.parked = s.parked /\ s'.muted = s.muted /\ s'.userStop = s.userStop
          /\ s'.steerable = s.steerable /\ s'.promised = s.promised
          /\ s'.begun = s.begun /\ s'.known = s.known /\ s'.hushed = s.hushed /\ s'.how = s.how
      BY <1>1, <2>1 DEF Session
    <3>2. Typed(s') /\ Exits(s', fifo) /\ Inbox(s', fifo) /\ Sent(s', fifo) /\ Boundary(s')
      BY <1>1, <2>2, <3>1 DEF Good, Typed, Exits, Inbox, Sent, Owes, Boundary, Waiting
    <3>3. Apart(s', fifo, {}) /\ Landing(s', {})
      BY <1>1, <2>1, <2>2, <3>1 DEF Good, Apart, Landing, Open, Cancelling
    <3>4. InTurn(s', fifo) /\ Parks(s')
      BY <1>1, <2>2, <3>1 DEF Good, InTurn, Open, Parks
    <3> QED
      BY <3>2, <3>3, <3>4 DEF Good
  <2>4. /\ fifo' = Append(fifo, Is("deadline")) /\ startup' = startup /\ sync' = sync /\ req' = req
        /\ submitted' = submitted /\ steered' = steered /\ noted' = noted
        /\ issued' = issued /\ deaths' = deaths
    BY <2>1 DEF counters
  <2> QED
    BY <1>1, <1>2, <1>3, <2>2, <2>3, <2>4, QuietStep
<1> QED
  BY <1>4, <1>5, <1>6, <1>7, <1>8, <1>9, <1>10, <1>11, <1>12

\* What is said is said once.
LEMMA SaidNot ==
  ASSUME submitted \in 0..Len(Line), steered \subseteq Steers, noted \subseteq News
  PROVE  /\ submitted < Len(Line) => Line[submitted + 1] \in Lines \ Said
         /\ \A x \in Steers \ steered : x \notin Said
         /\ \A x \in News \ noted : x \notin Said
<1>1. {Line[n] : n \in 1..submitted} \subseteq Lines
  BY IdsAssumption DEF Lines
<1>2. ASSUME submitted < Len(Line) PROVE Line[submitted + 1] \in Lines \ Said
  <2>1. /\ submitted + 1 \in DOMAIN Line /\ DOMAIN Line = 1..Len(Line)
        /\ \A n \in 1..submitted : n \in DOMAIN Line /\ n # submitted + 1
    BY <1>2, IdsAssumption
  <2>2. Line[submitted + 1] \in Lines
    BY <2>1 DEF Lines
  <2>3. \A n \in 1..submitted : Line[n] # Line[submitted + 1]
    BY <2>1, IdsAssumption DEF Distinct
  <2> QED
    BY <2>2, <2>3, IdsAssumption DEF Said
<1>3. \A x \in Steers \ steered : x \notin Said
  BY <1>1, IdsAssumption DEF Said
<1>4. \A x \in News \ noted : x \notin Said
  BY <1>1, IdsAssumption DEF Said
<1> QED
  BY <1>2, <1>3, <1>4

LEMMA SubmitLineStep ==
  ASSUME IInv, SubmitLine
  PROVE  IInv'
<1> DEFINE l == Line[submitted + 1]
           x == [k |-> "submit", line |-> l]
           a == Append(fifo, x)
<1>1. /\ submitted < Len(Line) /\ submitted' = submitted + 1 /\ fifo' = a
      /\ s' = s /\ sync' = sync /\ req' = req /\ startup' = startup /\ steered' = steered
      /\ noted' = noted /\ issued' = issued /\ deaths' = deaths
  BY DEF SubmitLine, Post
<1>2. TypedRest /\ Good(s, fifo, {}) /\ Lags(s.m, fifo) /\ fifo \in Seq(Message)
  BY DEF IInv, TypedRest
<1>3. submitted \in 0..Len(Line) /\ steered \subseteq Steers /\ noted \subseteq News
  BY <1>2 DEF Good, Apart
<1>4. l \in Lines \ Said
  BY <1>1, <1>3, SaidNot
<1>5. x \in Message /\ x.k = "submit" /\ x.line = l
  BY <1>4 DEF Message
<1> HIDE DEF x
<1>6. /\ a \in Seq(Message) /\ Len(fifo) \in Nat
      /\ DOMAIN fifo = 1..Len(fifo)
      /\ \A n \in DOMAIN fifo : n \in DOMAIN a /\ a[n] = fifo[n] /\ n <= Len(fifo)
      /\ \A n \in DOMAIN a : \/ n \in DOMAIN fifo /\ a[n] = fifo[n] /\ n <= Len(fifo)
                             \/ n = Len(fifo) + 1 /\ a[n] = x
  BY <1>2, <1>5, AppendIs
<1>7. /\ \A k : k # "submit" => (Has(a, k) <=> Has(fifo, k))
      /\ \A i : Input(a, i) <=> Input(fifo, i)
      /\ Submits(a) = Submits(fifo) \cup {l}
  BY <1>2, <1>5, AppendHas
<1>8. Lags(s.m, a)
  <2>1. x.k \notin Items
    BY <1>5 DEF Items
  <2> QED
    BY <1>2, <1>5, <2>1, PlainLags
<1> HIDE DEF a, l
<1>9. \A i \in Inputs : Recorded(i)' <=> Recorded(i)
  BY <1>1, <1>2, <1>6, <1>7, RecordedIs, RecordedNext
<1>10. Typed(s)' /\ Inbox(s, fifo)' /\ Boundary(s)'
  <2>1. Typed(s)'
    BY <1>1, <1>2 DEF Good, Typed
  <2>2. \A i : Input(fifo, i)' <=> Input(fifo, i)
    BY <1>1, <1>7 DEF Input
  <2>3. Inbox(s, fifo)'
    BY <1>1, <1>2, <2>2 DEF Good, Inbox, Owes
  <2>4. Waiting(s) \subseteq Inputs
    BY <1>2 DEF Waiting, Elements, Session, Inputs, Good, Typed
  <2>5. Boundary(s)'
    BY <1>1, <1>2, <1>9, <2>4 DEF Good, Boundary, Waiting
  <2> QED
    BY <2>1, <2>3, <2>5
<1>11. Exits(s, fifo)'
  <2>1. \A n \in DOMAIN a : a[n].k \in {"exit", "response"} => n \in DOMAIN fifo /\ a[n] = fifo[n]
    BY <1>5, <1>6
  <2>2. \A n, k \in DOMAIN a : n < k /\ a[n].k = "exit" => a[k].k \notin {"exit", "response"}
    BY <1>2, <2>1 DEF Good, Exits
  <2> QED
    BY <1>1, <1>2, <1>7, <2>2 DEF Good, Exits, Has
<1>12. Sent(s, fifo)'
  <2>1. \A n \in DOMAIN a : a[n].k = "input" => n \in DOMAIN fifo /\ a[n] = fifo[n]
    BY <1>5, <1>6
  <2>2. \A n, k \in DOMAIN a : a[n].k = "input" /\ a[k].k = "input" /\ a[n].id = a[k].id => n = k
    BY <1>2, <2>1 DEF Good, Sent
  <2>3. \A i : Input(fifo, i)' <=> Input(fifo, i)
    BY <1>1, <1>7 DEF Input
  <2> QED
    BY <1>1, <1>2, <1>9, <2>2, <2>3 DEF Good, Sent
<1>13. Apart(s, fifo, {})'
  <2>1. /\ Said \subseteq Said' /\ l \in Said' /\ submitted' \in 0..Len(Line)
    <3>1. submitted + 1 \in 1..(submitted + 1) /\ \A n \in 1..submitted : n \in 1..(submitted + 1)
      BY <1>3
    <3>2. submitted' \in 0..Len(Line)
      BY <1>1, <1>3, IdsAssumption
    <3> QED
      BY <1>1, <3>1, <3>2 DEF Said, l
  <2>2. l \notin Submits(fifo) /\ l \notin s.inputs /\ l \notin Elements(s.pending)
    BY <1>2, <1>4 DEF Good, Apart
  <2>3. \A n \in DOMAIN fifo : fifo[n].k = "submit" => fifo[n].line # l
    BY <2>2 DEF Submits
  <2>4. \A n, k \in DOMAIN a :
          a[n].k = "submit" /\ a[k].k = "submit" /\ a[n].line = a[k].line => n = k
    BY <1>2, <1>5, <1>6, <2>3 DEF Good, Apart
  <2>5. Submits(fifo)' = Submits(fifo) \cup {l}
    BY <1>1, <1>7 DEF Submits
  <2> QED
    BY <1>1, <1>2, <2>1, <2>2, <2>4, <2>5 DEF Good, Apart
<1>14. Landing(s, {})' /\ Parks(s)'
  BY <1>1, <1>2 DEF Good, Landing, Open, Cancelling, Parks
<1>15. InTurn(s, fifo)'
  <2>1. ASSUME NEW n \in DOMAIN a, a[n].k = "response", a[n].calls # {}
        PROVE  Open(s) \/ s.how = "cancel" \/ \E k \in 1..(n - 1) : a[k].k = "start"
    <3>1. n \in DOMAIN fifo /\ a[n] = fifo[n]
      BY <1>5, <1>6, <2>1
    <3>2. \A k \in 1..(n - 1) : k \in DOMAIN fifo
      BY <1>6, <3>1
    <3>3. Open(s) \/ s.how = "cancel" \/ \E k \in 1..(n - 1) : fifo[k].k = "start"
      BY <1>2, <2>1, <3>1 DEF Good, InTurn
    <3> QED
      BY <1>6, <3>2, <3>3
  <2>2. Has(fifo, "start")' <=> Has(fifo, "start")
    BY <1>1, <1>7 DEF Has
  <2>3. Open(s)' <=> Open(s)
    BY <1>1 DEF Open
  <2> QED
    BY <1>1, <1>2, <2>1, <2>2, <2>3 DEF Good, InTurn
<1>16. Answers(s.m, fifo)'
  <2>1. /\ Has(a, "turn") \/ Has(a, "response") => req'.at \in {"none", "called", "barrier"}
        /\ Has(a, "ready") => req'.at = "barrier"
        /\ req'.at # "none" => sync.inflight
        /\ Answers(s'.m, a)
    BY <1>1, <1>8 DEF Lags, Answers, Has
  <2> QED
    BY <1>1, <2>1, AnswersArrive
<1>17. Reasons(s.m, fifo)' /\ CallsOnce(s.m, fifo)'
  <2>1. (req'.at # "answered" => req'.calls = {}) /\ CallsOnce(s'.m, a) /\ req'.calls = req.calls
        /\ Reasons(s'.m, a)
    BY <1>1, <1>8 DEF Lags, CallsOnce
  <2> QED
    BY <1>1, <2>1, ReasonsArrive, CallsArrive
<1>18. TypedRest'
  BY <1>1, <1>2, <1>6 DEF TypedRest
<1> QED
  BY <1>10, <1>11, <1>12, <1>13, <1>14, <1>15, <1>16, <1>17, <1>18 DEF IInv, Good, Lags

\* A steer is on its way, or a job has news.
Besides(v, w) ==
  /\ v.turn = w.turn /\ v.m = w.m /\ v.unobserved = w.unobserved /\ v.inputs = w.inputs
  /\ v.steerQ = w.steerQ /\ v.noticeQ = w.noticeQ /\ v.notes = w.notes
  /\ v.pending = w.pending /\ v.adopted = w.adopted /\ v.ended = w.ended
  /\ v.cancelled = w.cancelled /\ v.cancelling = w.cancelling /\ v.parked = w.parked
  /\ v.muted = w.muted /\ v.userStop = w.userStop /\ v.run = w.run /\ v.alive = w.alive
  /\ v.inbox = w.inbox /\ v.restart = w.restart /\ v.steerable = w.steerable
  /\ v.told = w.told /\ v.begun = w.begun /\ v.known = w.known /\ v.hushed = w.hushed
  /\ v.how = w.how

LEMMA WordStep ==
  ASSUME IInv, NEW q, Queued(q), fifo' = q, Typed(s'),
         Besides(s', s),
         sync' = sync, req' = req, startup' = startup, issued' = issued, deaths' = deaths,
         Apart(s, fifo, {})', Landing(s, {})'
  PROVE  IInv'
<1>1. TypedRest /\ Good(s, fifo, {}) /\ Lags(s.m, fifo) /\ fifo \in Seq(Message)
  BY DEF IInv, TypedRest
<1>2. /\ q \in Seq(Message) /\ \A i : Input(q, i) <=> Input(fifo, i)
      /\ Good(s, q, {}) /\ Lags(s.m, q)
  BY <1>1, QueuedIs
<1>3. Besides(s', s)
  OBVIOUS
<1>4. \A i \in Inputs : Recorded(i)' <=> Recorded(i)
  BY <1>1, <1>2, RecordedIs, RecordedNext
<1>5. Typed(s)' /\ Exits(s, fifo)' /\ Inbox(s, fifo)'
  BY <1>2, <1>3 DEF Besides, Good, Typed, Exits, Has, Inbox, Owes, Input
<1>6. Sent(s, fifo)'
  BY <1>2, <1>3, <1>4 DEF Besides, Good, Sent, Input
<1>7. Boundary(s)'
  <2>1. Waiting(s') \subseteq Inputs
    BY DEF Waiting, Elements, Session, Inputs, Typed
  <2> QED
    BY <1>2, <1>3, <1>4, <2>1 DEF Besides, Good, Boundary, Waiting
<1>8. InTurn(s, fifo)'
  BY <1>2, <1>3 DEF Besides, Good, InTurn, Open, Has
<1>9. Parks(s)'
  BY <1>2, <1>3 DEF Besides, Good, Parks
<1>10. Answers(s.m, fifo)'
  <2>1. /\ Has(q, "turn") \/ Has(q, "response") => req'.at \in {"none", "called", "barrier"}
        /\ Has(q, "ready") => req'.at = "barrier"
        /\ req'.at # "none" => sync.inflight
        /\ Answers(s'.m, q)
    BY <1>2, <1>3 DEF Besides, Lags, Answers, Has
  <2> QED
    BY <2>1, AnswersArrive
<1>11. Reasons(s.m, fifo)' /\ CallsOnce(s.m, fifo)'
  <2>1. (req'.at # "answered" => req'.calls = {}) /\ CallsOnce(s'.m, q) /\ Reasons(s'.m, q)
    BY <1>2, <1>3 DEF Besides, Lags, CallsOnce
  <2> QED
    BY <2>1, ReasonsArrive, CallsArrive
<1>12. TypedRest'
  BY <1>1, <1>2 DEF TypedRest
<1> QED
  BY <1>5, <1>6, <1>7, <1>8, <1>9, <1>10, <1>11, <1>12 DEF IInv, Good, Lags

LEMMA SteerStep ==
  ASSUME IInv, NEW text \in Steers, Steer(text)
  PROVE  IInv'
<1> DEFINE q == Append(fifo, Is("steer"))
           I == <<text>>
           P == IF s.steerable THEN s.promised \cup {text} ELSE s.promised
           v == [s EXCEPT !.steerIn = I, !.promised = P]
<1>1. /\ text \notin steered /\ s.steerIn = <<>> /\ s' = v /\ fifo' = q
      /\ steered' = steered \cup {text}
      /\ sync' = sync /\ req' = req /\ startup' = startup /\ submitted' = submitted
      /\ noted' = noted /\ issued' = issued /\ deaths' = deaths
  BY DEF Steer, Post
<1>2. /\ TypedRest /\ Good(s, fifo, {}) /\ Lags(s.m, fifo) /\ fifo \in Seq(Message)
      /\ s \in Session /\ s.promised \subseteq Steers
  BY DEF IInv, TypedRest, Good, Typed, Session
<1>3. Queued(q)
  BY IsMessage DEF Queued, Plainly
<1>4. Submits(q) = Submits(fifo) /\ Good(s, q, {})
  <2>1. Is("steer") \in Message /\ Is("steer").k = "steer"
    BY IsMessage DEF Plainly
  <2>2. Submits(q) = Submits(fifo)
    BY <1>2, <2>1, AppendHas
  <2>3. Good(s, q, {})
    BY <1>2, <1>3, QueuedIs
  <2> QED
    BY <2>2, <2>3
<1>5. I \in Seq(Steers) /\ Elements(I) = {text} /\ Len(I) <= 1
  BY ElementsOne
<1>6. P \in SUBSET Steers /\ P \subseteq s.promised \cup {text} /\ (~s.steerable => P = s.promised)
      /\ s.promised \subseteq P
  BY <1>2
<1> HIDE DEF q, I, P
<1>7. v \in Session
  BY <1>2, <1>5, <1>6, AsideStates
<1>8. /\ v.steerIn = I /\ v.promised = P /\ v.inputs = s.inputs /\ v.news = s.news
      /\ v.pending = s.pending /\ v.steerQ = s.steerQ /\ v.notes = s.notes /\ v.told = s.told
      /\ v.begun = s.begun /\ v.steerable = s.steerable /\ v.turn = s.turn
      /\ v.cancelling = s.cancelling /\ v.unobserved = s.unobserved /\ v.run = s.run
      /\ v.alive = s.alive /\ v.restart = s.restart
      /\ v.m = s.m /\ v.noticeQ = s.noticeQ /\ v.adopted = s.adopted /\ v.ended = s.ended
      /\ v.cancelled = s.cancelled /\ v.parked = s.parked /\ v.muted = s.muted
      /\ v.userStop = s.userStop /\ v.inbox = s.inbox /\ v.known = s.known
      /\ v.hushed = s.hushed /\ v.how = s.how
  BY <1>2 DEF Session
<1> HIDE DEF v
<1>9. Besides(v, s)
  BY <1>8 DEF Besides
<1>10. Typed(v)
  <2>1. Len(v.steerIn) <= 1
    BY <1>5, <1>8
  <2>2. IsFiniteSet(s.unobserved) /\ (s.run = "none" => ~s.alive /\ s.restart = "no")
    BY <1>2 DEF Good, Typed
  <2> QED
    BY <1>7, <1>8, <2>1, <2>2 DEF Typed
<1>11. /\ submitted \in 0..Len(Line) /\ steered \subseteq Steers /\ noted \subseteq News
       /\ s.inputs \subseteq Said /\ Elements(s.pending) \subseteq Said
       /\ Submits(q) \subseteq Said
  BY <1>2, <1>4 DEF Good, Apart
<1>12. text \notin Said
  BY <1>1, <1>11, SaidNot
<1>13. Said' = Said \cup {text} /\ steered' \subseteq Steers
  BY <1>1, <1>11 DEF Said
<1>14. Apart(s, fifo, {})'
  BY <1>1, <1>4, <1>5, <1>8, <1>11, <1>12, <1>13 DEF Good, Apart, Submits
<1>15. Landing(s, {})'
  <2>1. text \notin s.promised /\ text \notin s.begun /\ s.promised \subseteq steered
    BY <1>1, <1>2 DEF Good, Landing
  <2>2. Open(s)' = Open(s) /\ Cancelling(s)' = Cancelling(s)
    BY <1>1, <1>8 DEF Open, Cancelling
  <2>3. /\ steered' \subseteq Elements(v.steerIn) \cup Elements(v.steerQ)
                  \cup Elements(v.pending) \cup v.notes \cup v.told \cup v.begun
        /\ v.promised \cup (v.begun \cap Steers) \subseteq steered'
        /\ v.promised \cap (v.begun \cup Elements(v.pending)) = {}
    <3>1. /\ steered \subseteq {} \cup Elements(s.steerIn) \cup Elements(s.steerQ)
                    \cup Elements(s.pending) \cup s.notes \cup s.told \cup s.begun
          /\ Elements(s.steerIn) = {}
          /\ s.promised \cup (s.begun \cap Steers) \subseteq steered
          /\ s.promised \cap (s.begun \cup Elements(s.pending)) = {}
      BY <1>1, <1>2, ElementsIn DEF Good, Landing
    <3>2. text \notin Elements(s.pending)
      BY <1>11, <1>12
    <3> QED
      BY <1>1, <1>5, <1>6, <1>8, <2>1, <3>1, <3>2
  <2>4. v.steerable \/ v.promised \cap Elements(v.steerIn) # {} => s.steerable
    BY <1>5, <1>6, <1>8, <2>1
  <2>5. s.steerable => Open(s) /\ ~Cancelling(s)
    BY <1>2 DEF Good, Landing
  <2>6. Cancelling(s) => Open(s)
    BY <1>2 DEF Good, Landing
  <2> QED
    BY <1>1, <2>2, <2>3, <2>4, <2>5, <2>6 DEF Landing
<1> QED
  BY <1>1, <1>3, <1>9, <1>10, <1>14, <1>15, WordStep

LEMMA NotifyStep ==
  ASSUME IInv, NEW n \in News, Notify(n)
  PROVE  IInv'
<1> DEFINE q == Append(fifo, Is("notice"))
           N == s.news \cup {n}
           v == [s EXCEPT !.news = N]
<1>1. /\ n \notin noted /\ s' = v /\ fifo' = q /\ noted' = noted \cup {n}
      /\ sync' = sync /\ req' = req /\ startup' = startup /\ submitted' = submitted
      /\ steered' = steered /\ issued' = issued /\ deaths' = deaths
  BY DEF Notify, Post
<1>2. /\ TypedRest /\ Good(s, fifo, {}) /\ Lags(s.m, fifo) /\ fifo \in Seq(Message)
      /\ s \in Session /\ s.news \subseteq News
  BY DEF IInv, TypedRest, Good, Typed, Session
<1>3. Queued(q)
  BY IsMessage DEF Queued, Plainly
<1>4. Submits(q) = Submits(fifo) /\ Good(s, q, {})
  <2>1. Is("notice") \in Message /\ Is("notice").k = "notice"
    BY IsMessage DEF Plainly
  <2>2. Submits(q) = Submits(fifo)
    BY <1>2, <2>1, AppendHas
  <2>3. Good(s, q, {})
    BY <1>2, <1>3, QueuedIs
  <2> QED
    BY <2>2, <2>3
<1>5. N \in SUBSET News /\ N = s.news \cup {n}
  BY <1>2
<1> HIDE DEF q, N
<1>6. v \in Session
  BY <1>2, <1>5, AsideStates
<1>7. /\ v.steerIn = s.steerIn /\ v.promised = s.promised /\ v.inputs = s.inputs /\ v.news = N
      /\ v.pending = s.pending /\ v.steerQ = s.steerQ /\ v.notes = s.notes /\ v.told = s.told
      /\ v.begun = s.begun /\ v.steerable = s.steerable /\ v.turn = s.turn
      /\ v.cancelling = s.cancelling /\ v.unobserved = s.unobserved /\ v.run = s.run
      /\ v.alive = s.alive /\ v.restart = s.restart
      /\ v.m = s.m /\ v.noticeQ = s.noticeQ /\ v.adopted = s.adopted /\ v.ended = s.ended
      /\ v.cancelled = s.cancelled /\ v.parked = s.parked /\ v.muted = s.muted
      /\ v.userStop = s.userStop /\ v.inbox = s.inbox /\ v.known = s.known
      /\ v.hushed = s.hushed /\ v.how = s.how
  BY <1>2 DEF Session
<1> HIDE DEF v
<1>8. Besides(v, s)
  BY <1>7 DEF Besides
<1>9. Typed(v)
  BY <1>2, <1>6, <1>7 DEF Good, Typed
<1>10. /\ submitted \in 0..Len(Line) /\ steered \subseteq Steers /\ noted \subseteq News
       /\ s.inputs \subseteq Said
  BY <1>2 DEF Good, Apart
<1>11. n \notin Said
  BY <1>1, <1>10, SaidNot
<1>12. Said' = Said \cup {n}
  BY <1>1 DEF Said
<1>13. Apart(s, fifo, {})'
  BY <1>1, <1>4, <1>5, <1>7, <1>10, <1>11, <1>12 DEF Good, Apart, Submits
<1>14. Landing(s, {})'
  BY <1>1, <1>2, <1>7 DEF Good, Landing, Open, Cancelling
<1> QED
  BY <1>1, <1>3, <1>8, <1>9, <1>13, <1>14, WordStep

-----------------------------------------------------------------------------
(* The request, once the actor has let it pass.                            *)

LEMMA RequestStep ==
  ASSUME IInv, NEW q, Queued(q), fifo' = q, Good(s', fifo, {}), s'.m = s.m,
         sync' = sync, startup' = startup, submitted' = submitted, steered' = steered,
         noted' = noted, deaths' = deaths,
         req.at \in {"checked", "starting", "provider"}, req' \in Request,
         req'.at \in {"starting", "provider", "answered"},
         req'.at = "provider" \/ (req'.at = "answered" /\ req'.calls # {}) =>
           Open(s') \/ Has(q, "start") \/ s'.how = "cancel",
         s'.hushed /\ req'.at = "starting" => s'.userStop,
         CallsOnce(s.m, fifo)'
  PROVE  IInv'
<1>1. TypedRest /\ Good(s, fifo, {}) /\ Lags(s.m, fifo) /\ fifo \in Seq(Message)
  BY DEF IInv, TypedRest
<1>2. /\ q \in Seq(Message) /\ \A i : Input(q, i) <=> Input(fifo, i)
      /\ Good(s', q, {}) /\ Lags(s'.m, q)
  BY <1>1, QueuedIs
<1>3. req.at # "none" /\ req.at # "barrier" /\ req.at \notin {"none", "called", "barrier"}
  OBVIOUS
<1>4. Good(s, fifo, {})'
  <2>1. ~s'.alive => req'.at = "none"
    BY <1>2, <1>3 DEF Good, Exits
  <2> QED
    BY <1>1, <1>2, <2>1, GoodArrives
<1>5. Answers(s.m, fifo)'
  <2>1. ~Has(q, "turn") /\ ~Has(q, "response") /\ ~Has(q, "ready") /\ sync.inflight
    BY <1>2, <1>3 DEF Lags, Answers, Has
  <2>2. Answers(s'.m, q)
    BY <1>2 DEF Lags
  <2> QED
    BY <2>1, <2>2, AnswersArrive
<1>6. Reasons(s.m, fifo)'
  BY <1>2, ReasonsArrive DEF Lags
<1>7. TypedRest'
  BY <1>1, <1>2 DEF TypedRest
<1> QED
  BY <1>4, <1>5, <1>6, <1>7 DEF IInv, Lags

\* A request that has not answered, or answers without calls.
LEMMA WordlessStep ==
  ASSUME IInv, NEW q, Queued(q), fifo' = q, Good(s', fifo, {}), s'.m = s.m,
         sync' = sync, startup' = startup, submitted' = submitted, steered' = steered,
         noted' = noted, deaths' = deaths, issued' = issued,
         req.at \in {"checked", "starting", "provider"}, req' \in Request,
         req'.at \in {"starting", "provider", "answered"}, req'.calls = {},
         req'.at = "provider" => Has(q, "start"),
         s'.hushed /\ req'.at = "starting" => s'.userStop
  PROVE  IInv'
<1>1. Lags(s.m, fifo) /\ fifo \in Seq(Message)
  BY DEF IInv, TypedRest
<1>2. CallsOnce(s'.m, q)
  BY <1>1, QueuedIs DEF Lags
<1>3. req'.calls = req.calls
  BY <1>1 DEF Lags, CallsOnce
<1>4. CallsOnce(s.m, fifo)'
  BY <1>2, <1>3, CallsArrive
<1> QED
  BY <1>4, RequestStep

\* The Gate unparks: what a cancel had parked is over.
LEMMA Unparked ==
  ASSUME NEW w, Good(w, fifo, {}), NEW M \in SUBSET (Inputs \cup Calls)
  PROVE  LET v == [w EXCEPT !.parked = FALSE, !.muted = M, !.hushed = FALSE]
         IN v \in Session /\ Good(v, fifo, {}) /\ v.m = w.m /\ ~v.hushed
<1> DEFINE v == [w EXCEPT !.parked = FALSE, !.muted = M, !.hushed = FALSE]
<1>0. w \in Session
  BY DEF Good, Typed
<1>3. v \in Session
  BY ZenonT(60),<1>0 DEF Session
<1>4. /\ v.unobserved = w.unobserved /\ v.run = w.run /\ v.alive = w.alive
      /\ v.inbox = w.inbox /\ v.restart = w.restart /\ v.inputs = w.inputs
      /\ v.steerIn = w.steerIn /\ v.told = w.told /\ v.turn = w.turn /\ v.m = w.m
      /\ v.steerQ = w.steerQ /\ v.noticeQ = w.noticeQ /\ v.notes = w.notes
      /\ v.pending = w.pending /\ v.news = w.news /\ v.adopted = w.adopted
      /\ v.ended = w.ended /\ v.cancelled = w.cancelled /\ v.cancelling = w.cancelling
      /\ v.steerable = w.steerable /\ v.promised = w.promised
      /\ v.begun = w.begun /\ v.known = w.known /\ v.hushed = FALSE /\ v.how = w.how
  BY <1>0 DEF Session
<1> HIDE DEF v
<1>5. Typed(v) /\ Exits(v, fifo) /\ Inbox(v, fifo) /\ Sent(v, fifo) /\ Boundary(v)
  BY <1>3, <1>4 DEF Good, Typed, Exits, Inbox, Sent, Owes, Boundary, Waiting
<1>6. Apart(v, fifo, {}) /\ Landing(v, {})
  BY <1>4 DEF Good, Apart, Landing, Open, Cancelling
<1>7. InTurn(v, fifo) /\ Parks(v)
  BY <1>4 DEF Good, InTurn, Open, Parks
<1> QED
  BY <1>3, <1>4, <1>5, <1>6, <1>7 DEF Good, v

LEMMA Counted ==
  ASSUME NEW w, Good(w, fifo, {}), NEW n \in Nat
  PROVE  LET u == [w EXCEPT !.steps = n]
         IN Good(u, fifo, {}) /\ u.m = w.m /\ u.hushed = w.hushed
<1> DEFINE u == [w EXCEPT !.steps = n]
<1>0. w \in Session
  BY DEF Good, Typed
<1>1. u \in Session
  BY ZenonT(60),<1>0 DEF Session
<1>2. Alike(u, w) /\ u.m = w.m /\ u.hushed = w.hushed
  BY <1>0 DEF Session, Alike
<1> HIDE DEF u
<1>3. Good(u, fifo, {})
  BY <1>1, <1>2, AlikeGood
<1> QED
  BY <1>2, <1>3 DEF u

LEMMA Unparks ==
  ASSUME NEW w, Good(w, fifo, {})
  PROVE  LET v == [w EXCEPT !.parked = FALSE,
                            !.muted = IF w.parked THEN {} ELSE w.muted,
                            !.hushed = w.hushed /\ ~w.parked]
             u == [v EXCEPT !.steps = w.steps + 1]
         IN /\ Good(v, fifo, {}) /\ v.m = w.m /\ ~v.hushed
            /\ Good(u, fifo, {}) /\ u.m = w.m /\ ~u.hushed
<1> DEFINE M == IF w.parked THEN {} ELSE w.muted
           h == w.hushed /\ ~w.parked
           v == [w EXCEPT !.parked = FALSE, !.muted = M, !.hushed = h]
           x == [w EXCEPT !.parked = FALSE, !.muted = M, !.hushed = FALSE]
           n == w.steps + 1
<1>0. w.muted \subseteq Inputs \cup Calls /\ w.steps \in Nat
  BY DEF Good, Typed, Session
<1>1. h = FALSE /\ M \in SUBSET (Inputs \cup Calls) /\ n \in Nat
  <2>1. w.hushed => w.parked
    BY DEF Good, Parks
  <2>2. ~h
    BY <2>1
  <2> QED
    BY <1>0, <2>2
<1> HIDE DEF M, h, n
<1>2. v = x
  BY <1>1
<1>3. Good(x, fifo, {}) /\ x.m = w.m /\ ~x.hushed
  BY <1>1, Unparked
<1> HIDE DEF v, x
<1>4. /\ Good([v EXCEPT !.steps = n], fifo, {}) /\ [v EXCEPT !.steps = n].m = v.m
      /\ [v EXCEPT !.steps = n].hushed = v.hushed
  BY <1>1, <1>2, <1>3, Counted
<1> QED
  BY <1>2, <1>3, <1>4 DEF v, M, h, n

LEMMA GateSteps ==
  ASSUME IInv, GateMutes \/ GateOpens \/ ResolveFails \/ Resolve
  PROVE  IInv'
<1>1. /\ Good(s, fifo, {}) /\ fifo \in Seq(Message) /\ s \in Session
      /\ req \in Request
  BY DEF IInv, TypedRest, Good, Typed
<1>2. /\ Queued(fifo)
      /\ \A k \in Plainly : Queued(Append(fifo, Is(k))) /\ Has(Append(fifo, Is(k)), k)
  BY <1>1, IsMessage, AppendHas DEF Queued
<1>3. {"start", "budget"} \subseteq Plainly
  BY DEF Plainly
<1>4. \A h \in {"ok", "muted", "error", "partial"} :
        [at |-> "answered", how |-> h, calls |-> {}] \in Request
  BY DEF Request
<1>5. CASE GateMutes
  <2>1. /\ req.at = "checked" /\ req' = [at |-> "answered", how |-> "muted", calls |-> {}]
        /\ UNCHANGED <<s, fifo, sync, startup, counters>>
    BY <1>5 DEF GateMutes, Answered
  <2>2. /\ s' = s /\ fifo' = fifo /\ sync' = sync /\ startup' = startup /\ submitted' = submitted
        /\ steered' = steered /\ noted' = noted /\ issued' = issued /\ deaths' = deaths
        /\ req' \in Request /\ req'.at = "answered" /\ req'.calls = {}
    BY <1>4, <2>1 DEF counters
  <2> QED
    BY <1>1, <1>2, <2>1, <2>2, WordlessStep
<1>6. CASE ResolveFails
  <2> DEFINE q == Append(fifo, Is("start"))
  <2>1. /\ req.at = "starting" /\ req' = [at |-> "answered", how |-> "error", calls |-> {}]
        /\ s' = s /\ fifo' = q /\ sync' = sync /\ startup' = startup /\ submitted' = submitted
        /\ steered' = steered /\ noted' = noted /\ issued' = issued /\ deaths' = deaths
    BY <1>6 DEF ResolveFails, Answered, Post
  <2>2. req' \in Request /\ req'.at = "answered" /\ req'.calls = {}
    BY <1>4, <2>1
  <2>3. Queued(q)
    BY <1>2, <1>3
  <2> HIDE DEF q
  <2> QED
    BY <1>1, <2>1, <2>2, <2>3, WordlessStep
<1>7. CASE Resolve
  <2>1. /\ req.at = "starting" /\ s' = s /\ sync' = sync /\ startup' = startup
        /\ submitted' = submitted /\ steered' = steered /\ noted' = noted
        /\ issued' = issued /\ deaths' = deaths
    BY <1>7 DEF Resolve, counters
  <2>2. CASE s.userStop
    <3>1. fifo' = fifo /\ req' = [at |-> "answered", how |-> "partial", calls |-> {}]
      BY <1>7, <2>2 DEF Resolve, Answered
    <3>2. req' \in Request /\ req'.at = "answered" /\ req'.calls = {}
      BY <1>4, <3>1
    <3> QED
      BY <1>1, <1>2, <2>1, <3>1, <3>2, WordlessStep
  <2>3. CASE ~s.userStop
    <3> DEFINE q == Append(fifo, Is("start"))
    <3>1. fifo' = q /\ req' = [req EXCEPT !.at = "provider"]
      BY <1>7, <2>3 DEF Resolve, Post
    <3>2. req' \in Request /\ req'.at = "provider" /\ req'.calls = req.calls
      BY <1>1, <3>1 DEF Request
    <3>3. req.calls = {}
      BY <2>1 DEF IInv, Lags, CallsOnce
    <3>4. Queued(q) /\ Has(q, "start")
      BY <1>2, <1>3
    <3> HIDE DEF q
    <3> QED
      BY <1>1, <2>1, <3>1, <3>2, <3>3, <3>4, WordlessStep
  <2> QED
    BY <2>2, <2>3
<1>8. CASE GateOpens
  <2> DEFINE v == [s EXCEPT !.parked = FALSE,
                            !.muted = IF s.parked THEN {} ELSE s.muted,
                            !.hushed = s.hushed /\ ~s.parked]
             u == [v EXCEPT !.steps = s.steps + 1]
             q == Append(fifo, Is("budget"))
  <2>1. /\ req.at = "checked" /\ sync' = sync /\ startup' = startup
        /\ submitted' = submitted /\ steered' = steered /\ noted' = noted
        /\ issued' = issued /\ deaths' = deaths
    BY <1>8 DEF GateOpens, counters
  <2>2. \/ s' = v /\ fifo' = q /\ req' = [at |-> "answered", how |-> "muted", calls |-> {}]
        \/ s' = u /\ fifo' = fifo /\ req' = [req EXCEPT !.at = "starting"]
    BY <1>8 DEF GateOpens, Answered, Post
  <2>3. /\ Good(v, fifo, {}) /\ v.m = s.m /\ ~v.hushed
        /\ Good(u, fifo, {}) /\ u.m = s.m /\ ~u.hushed
    BY <1>1, Unparks
  <2>4. Queued(q)
    BY <1>2, <1>3
  <2> HIDE DEF u, v, q
  <2>5. CASE s' = v /\ fifo' = q /\ req' = [at |-> "answered", how |-> "muted", calls |-> {}]
    <3>1. req' \in Request /\ req'.at = "answered" /\ req'.calls = {}
      BY <1>4, <2>5
    <3> QED
      BY <2>1, <2>3, <2>4, <2>5, <3>1, WordlessStep
  <2>6. CASE s' = u /\ fifo' = fifo /\ req' = [req EXCEPT !.at = "starting"]
    <3>1. req' \in Request /\ req'.at = "starting" /\ req'.calls = req.calls
      BY <1>1, <2>6 DEF Request
    <3>2. req.calls = {}
      BY <2>1 DEF IInv, Lags, CallsOnce
    <3> QED
      BY <1>2, <2>1, <2>3, <2>6, <3>1, <3>2, WordlessStep
  <2> QED
    BY <2>2, <2>5, <2>6
<1> QED
  BY <1>5, <1>6, <1>7, <1>8

\* The calls of an answer are new.
LEMMA NewCalls ==
  ASSUME issued \in 0..Len(Call), NEW n \in issued..Len(Call)
  PROVE  LET C == {Call[k] : k \in (issued + 1)..n}
         IN /\ C \subseteq Calls /\ C \cap Issued = {}
            /\ C \cup Issued \subseteq {Call[k] : k \in 1..n} /\ n \in 0..Len(Call)
<1> DEFINE C == {Call[k] : k \in (issued + 1)..n}
<1>1. Len(Call) \in Nat /\ DOMAIN Call = 1..Len(Call)
  BY IdsAssumption
<1>2. /\ \A k \in (issued + 1)..n : k \in DOMAIN Call /\ k > issued /\ k \in 1..n
      /\ \A k \in 1..issued : k \in DOMAIN Call /\ k <= issued /\ k \in 1..n
      /\ n \in 0..Len(Call)
  BY <1>1
<1>3. C \subseteq Calls
  BY <1>2 DEF Calls
<1>4. \A k \in (issued + 1)..n, i \in 1..issued : Call[k] # Call[i]
  <2>1. \A k \in (issued + 1)..n, i \in 1..issued : k # i
    BY <1>1
  <2> QED
    BY <1>2, <2>1, IdsAssumption DEF Distinct
<1>5. C \cap Issued = {}
  BY <1>4 DEF Issued
<1>6. C \cup Issued \subseteq {Call[k] : k \in 1..n}
  BY <1>2 DEF Issued
<1> QED
  BY <1>2, <1>3, <1>5, <1>6

LEMMA ReplyStep ==
  ASSUME IInv, Reply
  PROVE  IInv'
<1>1. /\ Good(s, fifo, {}) /\ Lags(s.m, fifo) /\ fifo \in Seq(Message) /\ req \in Request
      /\ issued \in 0..Len(Call)
  BY DEF IInv, TypedRest, Lags, CallsOnce
<1>2. /\ req.at = "provider" /\ s' = s /\ fifo' = fifo /\ sync' = sync /\ startup' = startup
      /\ submitted' = submitted /\ steered' = steered /\ noted' = noted /\ deaths' = deaths
      /\ Queued(fifo)
  BY DEF Reply, Queued
<1>3. \/ /\ issued' = issued
         /\ \/ req' = [at |-> "answered", how |-> "partial", calls |-> {}]
            \/ req' = [at |-> "answered", how |-> "error", calls |-> {}]
      \/ \E n \in issued..Len(Call) :
           /\ req' = [at |-> "answered", how |-> "ok", calls |-> {Call[k] : k \in (issued + 1)..n}]
           /\ issued' = n
  BY DEF Reply, Answered
<1>4. CASE /\ issued' = issued
           /\ \/ req' = [at |-> "answered", how |-> "partial", calls |-> {}]
              \/ req' = [at |-> "answered", how |-> "error", calls |-> {}]
  <2>1. req' \in Request /\ req'.at = "answered" /\ req'.calls = {}
    BY <1>4 DEF Request
  <2> QED
    BY <1>1, <1>2, <1>4, <2>1, WordlessStep
<1>5. ASSUME NEW n \in issued..Len(Call),
             req' = [at |-> "answered", how |-> "ok", calls |-> {Call[k] : k \in (issued + 1)..n}],
             issued' = n
      PROVE  IInv'
  <2> DEFINE C == {Call[k] : k \in (issued + 1)..n}
  <2>1. /\ C \subseteq Calls /\ C \cap Issued = {}
        /\ C \cup Issued \subseteq {Call[k] : k \in 1..n} /\ n \in 0..Len(Call)
    BY <1>1, NewCalls
  <2>2. req'.at = "answered" /\ req'.calls = C /\ req' = [at |-> "answered", how |-> "ok", calls |-> C]
    BY <1>5
  <2> HIDE DEF C
  <2>3. req' \in Request
    BY <2>1, <2>2 DEF Request
  <2>4. C \cup Issued \subseteq Issued'
    BY <1>5, <2>1 DEF Issued
  <2>5. Open(s') \/ Has(fifo, "start") \/ s'.how = "cancel"
    BY <1>1, <1>2 DEF Good, InTurn, Open
  <2>6. CallsOnce(s.m, fifo)'
    <3>1. /\ AnsweredCalls(fifo)' = AnsweredCalls(fifo) /\ Results(fifo)' = Results(fifo)
          /\ Seen(s.m)' = Seen(s.m) /\ s.m' = s.m
      BY <1>2 DEF AnsweredCalls, Results, Seen
    <3>2. /\ req.calls = {}
          /\ (AnsweredCalls(fifo) \cup Results(fifo) \cup (Seen(s.m) \cap Calls)
                \cup sync.outstanding) \subseteq Issued
      BY <1>1, <1>2 DEF Lags, CallsOnce
    <3>3. C \cap (AnsweredCalls(fifo) \cup Results(fifo) \cup Seen(s.m) \cup sync.outstanding) = {}
      BY <2>1, <3>2
    <3>4. (C \cup AnsweredCalls(fifo) \cup Results(fifo) \cup (Seen(s.m) \cap Calls)
             \cup sync.outstanding) \subseteq Issued'
      BY <2>4, <3>2
    <3>5. issued' \in 0..Len(Call)
      BY <1>5, <2>1
    <3> QED
      BY <1>1, <1>2, <2>2, <3>1, <3>3, <3>4, <3>5 DEF Lags, CallsOnce
  <2>7. s'.hushed /\ req'.at = "starting" => s'.userStop
    BY <2>2
  <2> QED
    BY <1>1, <1>2, <2>2, <2>3, <2>5, <2>6, <2>7, RequestStep
<1> QED
  BY <1>3, <1>4, <1>5

\* Respond waits for the actor, which is told behind the turn of its request.
LEMMA RespondStep ==
  ASSUME IInv, Respond
  PROVE  IInv'
<1> DEFINE x == Is("ready")
           a == Append(fifo, x)
<1>1. /\ TypedRest /\ Good(s, fifo, {}) /\ Lags(s.m, fifo) /\ fifo \in Seq(Message)
      /\ req \in Request
  BY DEF IInv, TypedRest
<1>2. /\ req.at = "called" /\ s' = s /\ fifo' = a /\ sync' = sync /\ startup' = startup
      /\ submitted' = submitted /\ steered' = steered /\ noted' = noted /\ deaths' = deaths
      /\ issued' = issued /\ req' = [req EXCEPT !.at = "barrier"]
  BY DEF Respond, Post, counters
<1>3. req' \in Request /\ req'.at = "barrier" /\ req'.calls = req.calls
  BY <1>1, <1>2 DEF Request
<1>4. x \in Message /\ x.k = "ready"
  BY IsMessage DEF Is
<1> HIDE DEF x
<1>5. /\ a \in Seq(Message) /\ Len(fifo) \in Nat
      /\ DOMAIN fifo = 1..Len(fifo)
      /\ \A n \in DOMAIN fifo : n \in DOMAIN a /\ a[n] = fifo[n] /\ n <= Len(fifo)
      /\ \A n \in DOMAIN a : \/ n \in DOMAIN fifo /\ a[n] = fifo[n] /\ n <= Len(fifo)
                             \/ n = Len(fifo) + 1 /\ a[n] = x
  BY <1>1, <1>4, AppendIs
<1>6. /\ \A k : k # "ready" => (Has(a, k) <=> Has(fifo, k))
      /\ \A i : Input(a, i) <=> Input(fifo, i)
  BY <1>1, <1>4, AppendHas
<1>7. Good(s, a, {})
  <2>1. x.k \notin Telling
    BY <1>4 DEF Telling
  <2> QED
    BY <1>1, <1>4, <2>1, AppendGood
<1>8. Reasons(s.m, a) /\ CallsOnce(s.m, a)
  BY <1>1, <1>4, AppendReasons, AppendCalls DEF Lags
<1> HIDE DEF a
<1>9. Good(s, fifo, {})'
  <2>1. /\ ~s'.alive => req'.at = "none"
        /\ req'.at = "provider" \/ (req'.at = "answered" /\ req'.calls # {}) =>
             Open(s') \/ Has(a, "start") \/ s'.how = "cancel"
        /\ s'.hushed /\ req'.at = "starting" => s'.userStop
    BY <1>1, <1>2, <1>3 DEF Good, Exits
  <2>2. /\ fifo' = a /\ submitted' = submitted /\ steered' = steered /\ noted' = noted
        /\ deaths' = deaths /\ Good(s', a, {})
    BY <1>2, <1>7
  <2> QED
    BY <1>1, <1>5, <1>6, <2>1, <2>2, GoodArrives
<1>10. Answers(s.m, fifo)'
  <2>1. \A n \in DOMAIN fifo : fifo[n].k # "ready"
    BY <1>1, <1>2 DEF Lags, Answers
  <2>2. \A n \in DOMAIN a : a[n].k = "ready" => n = Len(fifo) + 1
    BY <1>5, <2>1
  <2>3. \A n, k \in DOMAIN a :
          n < k /\ a[n].k \in {"turn", "response"} => a[k].k # "response"
    <3>1. SUFFICES ASSUME NEW n \in DOMAIN a, NEW k \in DOMAIN a, n < k,
                          a[n].k \in {"turn", "response"}, a[k].k = "response"
                   PROVE  FALSE
      OBVIOUS
    <3>2. n \in DOMAIN fifo /\ a[n] = fifo[n] /\ k \in DOMAIN fifo /\ a[k] = fifo[k]
      BY <1>4, <1>5, <3>1
    <3> QED
      BY <1>1, <3>1, <3>2 DEF Lags, Answers
  <2>4. \A n \in DOMAIN a : a[n].k = "ready" =>
          \A k \in DOMAIN a : k > n => a[k].k \notin {"turn", "response", "ready"}
    BY <1>5, <2>2
  <2>5. /\ fifo' = a /\ sync' = sync /\ s'.m = s.m /\ req'.at = "barrier" /\ req.at = "called"
        /\ \A k : Has(fifo, k)' <=> Has(a, k)
    BY <1>2, <1>3 DEF Has
  <2>6. /\ Has(fifo, "turn")' <=> Has(fifo, "turn")
        /\ Has(fifo, "response")' <=> Has(fifo, "response")
    BY <1>6, <2>5
  <2>7. /\ sync.inflight /\ (Has(fifo, "response") => s.m.inflight)
        /\ Has(fifo, "turn") \/ Has(fifo, "response") \/ s.m.inflight = sync.inflight
        /\ Has(fifo, "response") /\ sync.inflight => Has(fifo, "turn")
    BY <1>1, <1>2 DEF Lags, Answers
  <2> QED
    BY <2>3, <2>4, <2>5, <2>6, <2>7 DEF Answers
<1>11. Reasons(s.m, fifo)' /\ CallsOnce(s.m, fifo)'
  <2>1. req'.at # "answered" => req'.calls = {}
    BY <1>1, <1>2, <1>3 DEF Lags, CallsOnce
  <2> QED
    BY <1>2, <1>3, <1>8, <2>1, ReasonsArrive, CallsArrive
<1>12. TypedRest'
  BY <1>1, <1>2, <1>3, <1>5 DEF TypedRest
<1> QED
  BY <1>9, <1>10, <1>11, <1>12 DEF IInv, Lags

\* An answer is recorded when nothing of the request is on its way to the actor
\* any more.
LEMMA AnsweredIs ==
  ASSUME IInv, req.at = "answered"
  PROVE  /\ \A n \in DOMAIN fifo : fifo[n].k \notin {"turn", "response", "ready", "exit"}
         /\ sync.inflight = TRUE /\ s.m.inflight = TRUE /\ s.alive
         /\ AnsweredCalls(fifo) = {}
         /\ \A n, k : ~TurnIn(fifo, n, k) \/ ~(n \in Nat \ {0} /\ k \in 0..Len(fifo))
<1>1. Answers(s.m, fifo) /\ Exits(s, fifo)
  BY DEF IInv, Good, Lags
<1>2. \A k \in {"turn", "response", "ready", "exit"} : ~Has(fifo, k)
  <2>1. ~Has(fifo, "turn") /\ ~Has(fifo, "response")
    BY <1>1 DEF Answers
  <2>2. ~Has(fifo, "ready")
    BY <1>1 DEF Answers, Has
  <2>3. ~Has(fifo, "exit")
    BY <1>1 DEF Exits
  <2> QED
    BY <2>1, <2>2, <2>3
<1>3. \A n \in DOMAIN fifo : fifo[n].k \notin {"turn", "response", "ready", "exit"}
  BY <1>2 DEF Has
<1>4. s.alive
  BY <1>1 DEF Exits
<1>5. sync.inflight = TRUE /\ s.m.inflight = TRUE
  <2>1. sync.inflight /\ s.m.inflight = sync.inflight
    BY <1>1, <1>2 DEF Answers
  <2>2. sync.inflight \in BOOLEAN
    BY DEF IInv, TypedRest, MirrorOf
  <2> QED
    BY <2>1, <2>2
<1>6. AnsweredCalls(fifo) = {}
  BY <1>3 DEF AnsweredCalls
<1>7. ASSUME NEW n \in Nat \ {0}, NEW k \in 0..Len(fifo) PROVE ~TurnIn(fifo, n, k)
  <2>1. fifo \in Seq(Message)
    BY DEF IInv, TypedRest
  <2>2. \A i \in n..k : i \in DOMAIN fifo
    BY <2>1
  <2> QED
    BY <1>3, <2>2 DEF TurnIn
<1> QED
  BY <1>3, <1>4, <1>5, <1>6, <1>7

LEMMA RecordResponseStep ==
  ASSUME IInv, RecordResponse
  PROVE  IInv'
<1> DEFINE x == [k |-> "response", how |-> req.how, calls |-> req.calls]
           a == Append(fifo, x)
<1>1. /\ TypedRest /\ Good(s, fifo, {}) /\ Lags(s.m, fifo) /\ fifo \in Seq(Message)
      /\ req \in Request /\ sync \in MirrorOf(Inputs, Calls)
  BY DEF IInv, TypedRest
<1>2. /\ req.at = "answered" /\ s' = s /\ fifo' = a /\ sync' = ApplyResponse(sync, req.calls)
      /\ req' = NoRequest /\ startup' = startup
      /\ submitted' = submitted /\ steered' = steered /\ noted' = noted /\ deaths' = deaths
      /\ issued' = issued
  BY DEF RecordResponse, Post, counters
<1>3. x \in Message /\ x.k = "response" /\ x.calls = req.calls
  BY <1>1 DEF Message, Request
<1>4. req' \in Request /\ req'.at = "none" /\ req'.calls = {}
  BY <1>2 DEF Request, NoRequest
<1>5. /\ sync' \in MirrorOf(Inputs, Calls) /\ sync'.reasons = sync.reasons
      /\ sync'.turnReasons = sync.turnReasons /\ sync'.inflight = FALSE
      /\ sync'.outstanding = sync.outstanding \cup req.calls
  BY <1>1, <1>2 DEF ApplyResponse, MirrorOf, Request
<1> HIDE DEF x
<1>6. /\ a \in Seq(Message) /\ Len(fifo) \in Nat /\ Len(a) = Len(fifo) + 1
      /\ DOMAIN fifo = 1..Len(fifo)
      /\ \A n \in DOMAIN fifo : n \in DOMAIN a /\ a[n] = fifo[n] /\ n <= Len(fifo)
      /\ \A n \in DOMAIN a : \/ n \in DOMAIN fifo /\ a[n] = fifo[n] /\ n <= Len(fifo)
                             \/ n = Len(fifo) + 1 /\ a[n] = x
  BY <1>1, <1>3, AppendIs
<1>7. /\ \A k : k # "response" => (Has(a, k) <=> Has(fifo, k))
      /\ Has(a, "response")
      /\ \A i : Input(a, i) <=> Input(fifo, i)
      /\ Results(a) = Results(fifo) /\ AnsweredCalls(a) = AnsweredCalls(fifo) \cup req.calls
  <2>1. /\ \A k : k # "response" => (Has(a, k) <=> Has(fifo, k))
        /\ Has(a, "response")
        /\ \A i : Input(a, i) <=> Input(fifo, i)
    BY <1>1, <1>3, AppendHas
  <2>2. Results(a) = Results(fifo)
    <3>1. Results(a) = Results(fifo) \cup (IF x.k = "result" THEN {x.call} ELSE {})
      BY <1>1, <1>3, AppendHas
    <3>2. x.k # "result"
      BY <1>3
    <3> QED
      BY <3>1, <3>2
  <2>3. AnsweredCalls(a) = AnsweredCalls(fifo) \cup req.calls
    BY <1>1, <1>3, AppendHas
  <2> QED
    BY <2>1, <2>2, <2>3
<1>8. /\ \A n \in DOMAIN fifo : fifo[n].k \notin {"turn", "response", "ready", "exit"}
      /\ s.m.inflight = TRUE /\ s.alive /\ AnsweredCalls(fifo) = {}
  BY <1>2, AnsweredIs
<1>9. /\ Typed(s) /\ Inbox(s, a) /\ Sent(s, a) /\ Boundary(s)
      /\ Apart(s, a, {}) /\ Landing(s, {}) /\ Parks(s)
  BY <1>1, <1>3, AppendMost
<1>10. \A n \in DOMAIN fifo : \A i : Brings(a, n, i) <=> Brings(fifo, n, i)
  BY <1>1, <1>3, AppendTurns
<1> HIDE DEF a
<1>11. \A n \in DOMAIN a : a[n].k \notin {"turn", "ready", "exit"}
  BY <1>3, <1>6, <1>8
<1>12. Exits(s, a)
  BY <1>1, <1>8, <1>11 DEF Good, Exits, Has
<1>13. InTurn(s, a)
  <2>1. Has(a, "start") <=> Has(fifo, "start")
    BY <1>7
  <2>2. ASSUME NEW n \in DOMAIN a, a[n].k = "response", a[n].calls # {}
        PROVE  Open(s) \/ s.how = "cancel" \/ \E k \in 1..(n - 1) : a[k].k = "start"
    <3>1. n = Len(fifo) + 1 /\ a[n] = x
      BY <1>6, <1>8, <2>2
    <3>2. Open(s) \/ Has(fifo, "start") \/ s.how = "cancel"
      BY <1>1, <1>2, <1>3, <2>2, <3>1 DEF Good, InTurn
    <3>3. \A k \in DOMAIN fifo : k \in 1..(n - 1) /\ a[k] = fifo[k]
      BY <1>6, <3>1
    <3> QED
      BY <3>2, <3>3 DEF Has
  <2> QED
    BY <1>1, <2>1, <2>2 DEF Good, InTurn
<1>14. Good(s, fifo, {})'
  <2>1. /\ fifo' = a /\ submitted' = submitted /\ steered' = steered /\ noted' = noted
        /\ deaths' = deaths /\ Good(s', a, {})
    BY <1>2, <1>9, <1>12, <1>13 DEF Good
  <2>2. req'.at = "none"
    BY <1>4
  <2>3. \A i : Input(a, i) <=> Input(fifo, i)
    BY <1>7
  <2> QED
    BY <1>1, <1>6, <2>1, <2>2, <2>3, GoodArrives
<1>15. Answers(s.m, fifo)'
  <2>1. \A n, k \in DOMAIN a :
          n < k /\ a[n].k \in {"turn", "response"} => a[k].k # "response"
    BY <1>6, <1>8, <1>11
  <2>2. /\ fifo' = a /\ s'.m.inflight = TRUE /\ req'.at = "none" /\ sync'.inflight = FALSE
        /\ Has(fifo, "response")' /\ ~Has(fifo, "turn")'
    BY <1>2, <1>4, <1>5, <1>7, <1>8, <1>11 DEF Has
  <2> QED
    BY <1>11, <2>1, <2>2 DEF Answers
<1>16. Reasons(s.m, fifo)'
  <2>1. \A n, k \in Nat : n # 0 /\ k <= Len(a) => ~TurnIn(a, n, k)
    <3>1. SUFFICES ASSUME NEW n \in Nat, NEW k \in Nat, n # 0, k <= Len(a)
                   PROVE  ~TurnIn(a, n, k)
      OBVIOUS
    <3>2. \A i \in n..k : i \in DOMAIN a
      BY <1>6, <3>1
    <3> QED
      BY <1>11, <3>2 DEF TurnIn
  <2>2. ASSUME NEW i \in sync.reasons
        PROVE  i \in s.m.reasons \/ \E n \in DOMAIN a : Brings(a, n, i) /\ ~TurnIn(a, n, Len(a))
    <3>1. i \in s.m.reasons \/ \E n \in DOMAIN fifo : Brings(fifo, n, i)
      BY <1>1 DEF Lags, Reasons
    <3>2. \A n \in DOMAIN fifo : n \in DOMAIN a /\ n \in Nat /\ n # 0 /\ Len(a) \in Nat
      BY <1>6
    <3> QED
      BY <1>10, <2>1, <3>1, <3>2
  <2>3. ~Has(a, "turn")
    BY <1>11 DEF Has
  <2>4. Reasons(s.m, fifo)' <=>
          \A i \in sync.reasons :
            i \in s.m.reasons \/ \E n \in DOMAIN a : Brings(a, n, i) /\ ~TurnIn(a, n, Len(a))
    <3>1. /\ ~Has(fifo, "turn")'
          /\ \A n, i : Brings(fifo, n, i)' <=> Brings(a, n, i)
          /\ \A n, k : TurnIn(fifo, n, k)' <=> TurnIn(a, n, k)
          /\ fifo' = a /\ s' = s /\ sync'.reasons = sync.reasons
      BY <1>2, <1>5, <2>3 DEF Has, Brings, TurnIn
    <3> QED
      BY <1>11, <3>1 DEF Reasons
  <2> QED
    BY <2>2, <2>4
<1>17. CallsOnce(s.m, fifo)'
  <2>1. /\ AnsweredCalls(fifo)' = req.calls /\ Results(fifo)' = Results(fifo)
        /\ Issued' = Issued /\ Seen(s.m)' = Seen(s.m) /\ s.m' = s.m
        /\ fifo' = a /\ issued' = issued /\ req'.calls = {}
        /\ sync'.outstanding = sync.outstanding \cup req.calls
    BY SMTT(30),<1>2, <1>4, <1>5, <1>7, <1>8 DEF AnsweredCalls, Results, Issued, Seen
  <2>2. CallsOnce(s.m, fifo) /\ AnsweredCalls(fifo) = {}
    BY <1>1, <1>8 DEF Lags
  <2>3. \A n \in DOMAIN a : a[n].k = "result" => n \in DOMAIN fifo /\ a[n] = fifo[n]
    BY <1>3, <1>6
  <2>4. \A n \in DOMAIN a : a[n].k = "result" => a[n].call \in s.m.outstanding
    BY <1>8, <2>2, <2>3, <1>6 DEF CallsOnce
  <2>5. \A n, k \in DOMAIN a :
          a[n].k = "result" /\ a[k].k = "result" /\ a[n].call = a[k].call => n = k
    BY <2>2, <2>3 DEF CallsOnce
  <2> QED
    BY <2>1, <2>2, <2>4, <2>5 DEF CallsOnce
<1>18. TypedRest'
  BY <1>1, <1>2, <1>4, <1>5, <1>6 DEF TypedRest
<1> QED
  BY <1>14, <1>15, <1>16, <1>17, <1>18 DEF IInv, Lags

\* What is recorded is brought to the actor by the last function.
LEMMA ReasonsGain ==
  ASSUME fifo \in Seq(Message), NEW x \in Message, NEW i, fifo' = Append(fifo, x), s'.m = s.m,
         \/ x.k = "input" /\ x.id = i
         \/ x.k = "result" /\ x.call = i,
         sync'.reasons = sync.reasons \cup {i}, sync'.turnReasons = sync.turnReasons,
         Reasons(s.m, fifo)
  PROVE  Reasons(s.m, fifo)'
<1> DEFINE a == Append(fifo, x)
<1>1. /\ a \in Seq(Message) /\ Len(fifo) \in Nat /\ Len(a) = Len(fifo) + 1
      /\ Len(fifo) + 1 \in DOMAIN a /\ a[Len(fifo) + 1] = x
  BY AppendIs
<1>2. Reasons(s.m, a)
  BY AppendReasons
<1>3. fifo' = a
  OBVIOUS
<1> HIDE DEF a
<1>4. Brings(a, Len(fifo) + 1, i) /\ ~TurnIn(a, Len(fifo) + 1, Len(a))
  <2>1. \A n \in (Len(fifo) + 1)..Len(a) : n = Len(fifo) + 1
    BY <1>1
  <2> QED
    BY <1>1, <2>1 DEF Brings, TurnIn
<1>5. /\ Has(fifo, "turn")' <=> Has(a, "turn")
      /\ Has(fifo, "response")' <=> Has(a, "response")
  BY <1>3 DEF Has
<1>6. \A n, y : Brings(fifo, n, y)' <=> Brings(a, n, y)
  BY <1>3 DEF Brings
<1>7. \A j, k : TurnIn(fifo, j, k)' <=> TurnIn(a, j, k)
  BY <1>3 DEF TurnIn
<1>8. \A y \in sync'.reasons :
        \/ y \in s'.m.reasons /\ ~Has(fifo, "turn")'
        \/ \E n \in DOMAIN fifo' : Brings(fifo, n, y)' /\ ~TurnIn(fifo, n, Len(fifo))'
  <2>1. SUFFICES ASSUME NEW y \in sync'.reasons
                 PROVE  \/ y \in s'.m.reasons /\ ~Has(a, "turn")
                        \/ \E n \in DOMAIN a : Brings(a, n, y) /\ ~TurnIn(a, n, Len(a))
    BY <1>3, <1>5, <1>6, <1>7
  <2>2. CASE y = i
    BY <1>1, <1>4, <2>2
  <2>3. CASE y \in sync.reasons
    BY <1>2, <2>3 DEF Reasons
  <2> QED
    BY <2>1, <2>2, <2>3
<1>9. \A n \in DOMAIN fifo' : fifo'[n].k = "turn" /\ ~TurnIn(fifo, n + 1, Len(fifo))' =>
        \A y \in sync'.turnReasons :
          \/ y \in s'.m.reasons /\ ~TurnIn(fifo, 1, n - 1)'
          \/ \E k \in 1..(n - 1) : Brings(fifo, k, y)' /\ ~TurnIn(fifo, k, n - 1)'
  BY <1>2, <1>3, <1>6, <1>7 DEF Reasons
<1>10. \A n \in DOMAIN fifo' :
         fifo'[n].k = "turn" /\ ~TurnIn(fifo, 1, n - 1)'
           /\ (~s'.m.inflight \/ Has(fifo, "response")') =>
             s'.m.reasons # {} \/ \E k \in 1..(n - 1) : fifo'[k].k \in {"input", "result"}
  BY <1>2, <1>3, <1>5, <1>7 DEF Reasons
<1> QED
  BY <1>8, <1>9, <1>10 DEF Reasons

LEMMA CallEndsStep ==
  ASSUME IInv, NEW c \in Calls, CallEnds(c)
  PROVE  IInv'
<1> DEFINE x == [k |-> "result", call |-> c]
           a == Append(fifo, x)
<1>1. /\ TypedRest /\ Good(s, fifo, {}) /\ Lags(s.m, fifo) /\ fifo \in Seq(Message)
      /\ sync \in MirrorOf(Inputs, Calls)
  BY DEF IInv, TypedRest
<1>2. /\ c \in sync.outstanding /\ s' = s /\ fifo' = a /\ sync' = ApplyResult(sync, c)
      /\ req' = req /\ startup' = startup
      /\ submitted' = submitted /\ steered' = steered /\ noted' = noted /\ deaths' = deaths
      /\ issued' = issued
  BY DEF CallEnds, Post, counters
<1>3. x \in Message /\ x.k = "result" /\ x.call = c
  BY DEF Message
<1>4. /\ sync' \in MirrorOf(Inputs, Calls) /\ sync'.reasons = sync.reasons \cup {c}
      /\ sync'.turnReasons = sync.turnReasons /\ sync'.inflight = sync.inflight
      /\ sync'.outstanding = sync.outstanding \ {c}
  BY <1>1, <1>2 DEF ApplyResult, MirrorOf
<1> HIDE DEF x
<1>5. /\ a \in Seq(Message) /\ Len(fifo) \in Nat
      /\ DOMAIN fifo = 1..Len(fifo)
      /\ \A n \in DOMAIN fifo : n \in DOMAIN a /\ a[n] = fifo[n] /\ n <= Len(fifo)
      /\ \A n \in DOMAIN a : \/ n \in DOMAIN fifo /\ a[n] = fifo[n] /\ n <= Len(fifo)
                             \/ n = Len(fifo) + 1 /\ a[n] = x
  BY <1>1, <1>3, AppendIs
<1>6. \A i : Input(a, i) <=> Input(fifo, i)
  BY <1>1, <1>3, AppendHas
<1>7. Results(a) = Results(fifo) \cup {c}
  BY <1>1, <1>3, AppendHas
<1>8. AnsweredCalls(a) = AnsweredCalls(fifo)
  BY ZenonT(60),<1>1, <1>3, AppendHas
<1>9. Good(s, a, {}) /\ Answers(s.m, a)
  <2>1. x.k \notin Telling /\ x.k \notin {"turn", "response", "ready"}
    BY <1>3 DEF Telling
  <2> QED
    BY <1>1, <1>3, <2>1, AppendGood, AppendAnswers DEF Lags
<1>10. Reasons(s.m, fifo)'
  <2>1. Reasons(s.m, fifo) /\ s'.m = s.m /\ fifo' = a
    BY <1>1, <1>2 DEF Lags
  <2> QED
    BY <1>1, <1>3, <1>4, <2>1, ReasonsGain
<1> HIDE DEF a
<1>11. Good(s, fifo, {})'
  <2>1. /\ fifo' = a /\ submitted' = submitted /\ steered' = steered /\ noted' = noted
        /\ deaths' = deaths /\ Good(s', a, {})
    BY <1>2, <1>9
  <2>2. /\ ~s'.alive => req'.at = "none"
        /\ req'.at = "provider" \/ (req'.at = "answered" /\ req'.calls # {}) =>
             Open(s') \/ Has(a, "start") \/ s'.how = "cancel"
        /\ s'.hushed /\ req'.at = "starting" => s'.userStop
    BY <1>2, <2>1 DEF Good, Exits, InTurn, Parks
  <2> QED
    BY <1>1, <1>5, <1>6, <2>1, <2>2, GoodArrives
<1>12. Answers(s.m, fifo)'
  <2>1. /\ Has(a, "turn") \/ Has(a, "response") => req'.at \in {"none", "called", "barrier"}
        /\ Has(a, "ready") => req'.at = "barrier"
        /\ req'.at # "none" => sync.inflight
        /\ Answers(s'.m, a) /\ fifo' = a /\ sync'.inflight = sync.inflight
    BY <1>2, <1>4, <1>9 DEF Answers, Has
  <2> QED
    BY <2>1, AnswersArrive
<1>13. CallsOnce(s.m, fifo)'
  <2>1. /\ AnsweredCalls(fifo)' = AnsweredCalls(fifo) /\ Results(fifo)' = Results(fifo) \cup {c}
        /\ Issued' = Issued /\ Seen(s.m)' = Seen(s.m) /\ s.m' = s.m
        /\ fifo' = a /\ issued' = issued /\ req' = req
        /\ sync'.outstanding = sync.outstanding \ {c}
    <3>1. AnsweredCalls(fifo)' = AnsweredCalls(a) /\ Results(fifo)' = Results(a)
      BY <1>2 DEF AnsweredCalls, Results
    <3>2. Issued' = Issued /\ Seen(s.m)' = Seen(s.m) /\ s.m' = s.m
      BY <1>2 DEF Issued, Seen
    <3> QED
      BY <1>2, <1>4, <1>7, <1>8, <3>1, <3>2
  <2>2. CallsOnce(s.m, fifo)
    BY <1>1 DEF Lags
  <2>3. ASSUME NEW n \in DOMAIN a, a[n].k = "result"
        PROVE  \/ a[n].call \in s.m.outstanding
               \/ \E k \in 1..(n - 1) : a[k].k = "response" /\ a[n].call \in a[k].calls
    <3>1. CASE n \in DOMAIN fifo /\ a[n] = fifo[n]
      <4>1. \A k \in 1..(n - 1) : k \in DOMAIN fifo
        BY <1>5, <3>1
      <4>2. \/ fifo[n].call \in s.m.outstanding
            \/ \E k \in 1..(n - 1) : fifo[k].k = "response" /\ fifo[n].call \in fifo[k].calls
        BY <2>2, <2>3, <3>1 DEF CallsOnce
      <4> QED
        BY <1>5, <3>1, <4>1, <4>2
    <3>2. CASE n = Len(fifo) + 1 /\ a[n] = x
      <4>1. c \in s.m.outstanding \/ c \in AnsweredCalls(fifo)
        BY <1>2, <2>2 DEF CallsOnce
      <4>2. \A k \in DOMAIN fifo : k \in 1..(n - 1) /\ a[k] = fifo[k]
        BY <1>5, <3>2
      <4> QED
        BY <1>3, <3>2, <4>1, <4>2 DEF AnsweredCalls
    <3> QED
      BY <1>5, <3>1, <3>2
  <2>4. \A n \in DOMAIN fifo : fifo[n].k = "result" => fifo[n].call # c
    <3>1. c \notin Results(fifo)
      BY <1>2, <2>2 DEF CallsOnce
    <3> QED
      BY <3>1 DEF Results
  <2>5. \A n, k \in DOMAIN a :
          a[n].k = "result" /\ a[k].k = "result" /\ a[n].call = a[k].call => n = k
    BY <1>3, <1>5, <2>2, <2>4 DEF CallsOnce
  <2> QED
    BY <1>2, <2>1, <2>2, <2>3, <2>5 DEF CallsOnce
<1>14. TypedRest'
  BY <1>1, <1>2, <1>4, <1>5 DEF TypedRest
<1> QED
  BY <1>10, <1>11, <1>12, <1>13, <1>14 DEF IInv, Lags

\* An input that the coordinator has taken from its inbox is one that was owed.
LEMMA InboxTail ==
  ASSUME NEW w \in Session, w.inbox # <<>>
  PROVE  LET v == [w EXCEPT !.inbox = Tail(w.inbox)]
         IN /\ v \in Session /\ Head(w.inbox) \in Inputs
            /\ Elements(w.inbox) = Elements(Tail(w.inbox)) \cup {Head(w.inbox)}
            /\ Distinct(w.inbox) => Distinct(Tail(w.inbox)) /\ Head(w.inbox) \notin Elements(Tail(w.inbox))
<1>1. w.inbox \in Seq(Inputs)
  BY DEF Session
<1>2. ASSUME NEW q \in Seq(Inputs) PROVE [w EXCEPT !.inbox = q] \in Session
  BY ZenonT(60)DEF Session
<1>3. /\ Tail(w.inbox) \in Seq(Inputs) /\ Head(w.inbox) \in Inputs
      /\ Elements(w.inbox) = Elements(Tail(w.inbox)) \cup {Head(w.inbox)}
      /\ Distinct(w.inbox) => Distinct(Tail(w.inbox)) /\ Head(w.inbox) \notin Elements(Tail(w.inbox))
  BY <1>1, ElementsTail
<1> QED
  BY <1>2, <1>3

LEMMA RecordInputStep ==
  ASSUME IInv, RecordInput
  PROVE  IInv'
<1> DEFINE i == Head(s.inbox)
           t == Tail(s.inbox)
           x == [k |-> "input", id |-> i]
           a == Append(fifo, x)
           v == [s EXCEPT !.inbox = t]
<1>1. /\ TypedRest /\ Good(s, fifo, {}) /\ Lags(s.m, fifo) /\ fifo \in Seq(Message)
      /\ sync \in MirrorOf(Inputs, Calls) /\ s \in Session
  BY DEF IInv, TypedRest, Good, Typed
<1>2. /\ s.alive /\ s.run = "up" /\ s.inbox # <<>> /\ s' = v /\ fifo' = a
      /\ sync' = ApplyInput(sync, i) /\ req' = req /\ startup' = startup
      /\ submitted' = submitted /\ steered' = steered /\ noted' = noted /\ deaths' = deaths
      /\ issued' = issued
  BY DEF RecordInput, Works, Post, counters
<1>3. /\ v \in Session /\ i \in Inputs /\ Elements(s.inbox) = Elements(t) \cup {i}
      /\ Distinct(s.inbox) => Distinct(t) /\ i \notin Elements(t)
  BY <1>1, <1>2, InboxTail
<1>4. x \in Message /\ x.k = "input" /\ x.id = i
  BY <1>3 DEF Message
<1>5. /\ sync' \in MirrorOf(Inputs, Calls) /\ sync'.reasons = sync.reasons \cup {i}
      /\ sync'.turnReasons = sync.turnReasons /\ sync'.inflight = sync.inflight
      /\ sync'.outstanding = sync.outstanding
  <2> HIDE DEF i
  <2> QED
    BY <1>1, <1>2, <1>3 DEF ApplyInput, MirrorOf
<1> HIDE DEF x
<1>6. /\ a \in Seq(Message) /\ Len(fifo) \in Nat
      /\ DOMAIN fifo = 1..Len(fifo)
      /\ \A n \in DOMAIN fifo : n \in DOMAIN a /\ a[n] = fifo[n] /\ n <= Len(fifo)
      /\ \A n \in DOMAIN a : \/ n \in DOMAIN fifo /\ a[n] = fifo[n] /\ n <= Len(fifo)
                             \/ n = Len(fifo) + 1 /\ a[n] = x
  BY <1>1, <1>4, AppendIs
<1>7. \A k : k # "input" => (Has(a, k) <=> Has(fifo, k))
  BY <1>1, <1>4, AppendHas
<1>8. \A j : Input(a, j) <=> j = i \/ Input(fifo, j)
  BY <1>1, <1>4, AppendHas
<1>9. Submits(a) = Submits(fifo) /\ AnsweredCalls(a) = AnsweredCalls(fifo)
  <2>1. x.k \notin {"submit", "response"}
    BY <1>4
  <2> QED
    BY <1>1, <1>4, <2>1, AppendHas
<1>10. Answers(s.m, a) /\ CallsOnce(s.m, a)
  <2>1. x.k \notin {"turn", "response", "ready"} /\ x.k \notin {"response", "result"}
    BY <1>4
  <2> QED
    BY <1>1, <1>4, <2>1, AppendAnswers, AppendCalls DEF Lags
<1>11. /\ v.unobserved = s.unobserved /\ v.run = s.run /\ v.alive = s.alive
       /\ v.inbox = t /\ v.restart = s.restart /\ v.inputs = s.inputs
       /\ v.steerIn = s.steerIn /\ v.told = s.told /\ v.turn = s.turn /\ v.m = s.m
       /\ v.steerQ = s.steerQ /\ v.noticeQ = s.noticeQ /\ v.notes = s.notes
       /\ v.pending = s.pending /\ v.news = s.news /\ v.adopted = s.adopted
       /\ v.ended = s.ended /\ v.cancelled = s.cancelled /\ v.cancelling = s.cancelling
       /\ v.steerable = s.steerable /\ v.promised = s.promised /\ v.parked = s.parked
       /\ v.muted = s.muted /\ v.userStop = s.userStop
       /\ v.begun = s.begun /\ v.known = s.known /\ v.hushed = s.hushed /\ v.how = s.how
  BY <1>1 DEF Session
<1>12. s'.m = s.m /\ Reasons(s.m, fifo)'
  <2>1. s'.m = s.m /\ fifo' = a /\ Reasons(s.m, fifo)
    BY <1>1, <1>2, <1>11 DEF Lags
  <2> QED
    BY <1>1, <1>4, <1>5, <2>1, ReasonsGain
<1> HIDE DEF a, v, t, i
<1>13. i \in s.unobserved /\ ~Input(fifo, i) /\ i \in s.inputs
  BY <1>1, <1>3 DEF Good, Inbox, Owes, Sent
<1>14. /\ fifo' = a /\ \A j \in Inputs : Recorded(j)' <=> Input(a, j)
       /\ \A j \in Inputs : Recorded(j) <=> Input(fifo, j)
       /\ \A j : Input(fifo, j)' <=> Input(a, j)
  <2>1. \A j : Input(fifo, j)' <=> Input(a, j)
    BY <1>2 DEF Input
  <2> QED
    BY <1>1, <1>2, <1>6, <2>1, RecordedNext, RecordedIs
<1>15. Typed(s)'
  BY <1>1, <1>2, <1>3, <1>11 DEF Good, Typed
<1>16. Exits(s, fifo)'
  <2>1. \A n \in DOMAIN a : a[n].k \in {"exit", "response"} => n \in DOMAIN fifo /\ a[n] = fifo[n]
    BY <1>4, <1>6
  <2>2. \A n, k \in DOMAIN a : n < k /\ a[n].k = "exit" => a[k].k \notin {"exit", "response"}
    BY <1>1, <2>1 DEF Good, Exits
  <2>3. /\ Has(fifo, "exit")' <=> Has(fifo, "exit")
        /\ s'.alive = s.alive /\ s'.run = s.run
    BY <1>2, <1>7, <1>11 DEF Has
  <2> QED
    BY <1>1, <1>2, <2>2, <2>3 DEF Good, Exits
<1>17. Inbox(s, fifo)'
  <2>1. Owes(s, fifo)' = Owes(s, fifo) \ {i}
    BY <1>2, <1>8, <1>11, <1>14 DEF Owes
  <2>2. s'.inbox = t /\ s'.alive = s.alive /\ s'.run = s.run
    BY <1>2, <1>11
  <2> QED
    BY <1>1, <1>3, <2>1, <2>2 DEF Good, Inbox
<1>18. Sent(s, fifo)'
  <2>1. s'.unobserved = s.unobserved /\ s'.inputs = s.inputs
    BY <1>2, <1>11
  <2>2. \A n \in DOMAIN a : a[n].k = "input" =>
          \/ n \in DOMAIN fifo /\ a[n] = fifo[n] /\ a[n].id # i
          \/ n = Len(fifo) + 1 /\ a[n].id = i
    BY <1>4, <1>6, <1>13 DEF Input
  <2>3. \A n, k \in DOMAIN a : a[n].k = "input" /\ a[k].k = "input" /\ a[n].id = a[k].id => n = k
    BY <1>1, <2>2 DEF Good, Sent
  <2>4. \A j \in Inputs : Input(a, j) => j \in s.unobserved /\ j \in s.inputs
    BY <1>1, <1>8, <1>13 DEF Good, Sent
  <2>5. s.unobserved \subseteq s.inputs
    BY <1>1 DEF Good, Sent
  <2> QED
    BY <1>14, <2>1, <2>3, <2>4, <2>5 DEF Sent
<1>19. Boundary(s)'
  <2>1. /\ s'.unobserved = s.unobserved /\ s'.inputs = s.inputs
        /\ s'.steerQ = s.steerQ /\ s'.noticeQ = s.noticeQ /\ Waiting(s)' = Waiting(s)
    BY <1>2, <1>11 DEF Waiting
  <2>2. Waiting(s) \subseteq Inputs /\ i \notin Waiting(s)
    <3>1. Waiting(s) \subseteq Inputs
      BY <1>1 DEF Waiting, Elements, Session, Inputs
    <3>2. i \notin Waiting(s)
      BY <1>1, <1>13 DEF Good, Boundary
    <3> QED
      BY <3>1, <3>2
  <2>3. \A j \in Waiting(s) : ~Recorded(j)'
    BY <1>1, <1>8, <1>14, <2>2 DEF Good, Boundary
  <2> QED
    BY <1>1, <2>1, <2>3 DEF Good, Boundary
<1>20. Apart(s, fifo, {})'
  <2>1. \A n \in DOMAIN a : a[n].k = "submit" => n \in DOMAIN fifo /\ a[n] = fifo[n]
    BY <1>4, <1>6
  <2>2. \A n, k \in DOMAIN a :
          a[n].k = "submit" /\ a[k].k = "submit" /\ a[n].line = a[k].line => n = k
    BY <1>1, <2>1 DEF Good, Apart
  <2>3. /\ Submits(fifo)' = Submits(fifo) /\ Said' = Said
    BY <1>2, <1>9 DEF Submits, Said
  <2>4. /\ s'.inputs = s.inputs /\ s'.news = s.news /\ s'.steerIn = s.steerIn
        /\ s'.pending = s.pending
    BY <1>2, <1>11
  <2> QED
    BY <1>1, <1>2, <2>2, <2>3, <2>4 DEF Good, Apart
<1>21. Landing(s, {})' /\ Parks(s)'
  <2>1. Landing(v, {}) /\ Parks(v)
    BY <1>1, <1>11 DEF Good, Landing, Open, Cancelling, Parks
  <2> QED
    BY <1>2, <2>1 DEF Landing, Open, Cancelling, Parks
<1>22. InTurn(s, fifo)'
  <2>1. ASSUME NEW n \in DOMAIN a, a[n].k = "response", a[n].calls # {}
        PROVE  Open(s) \/ s.how = "cancel" \/ \E k \in 1..(n - 1) : a[k].k = "start"
    <3>1. n \in DOMAIN fifo /\ a[n] = fifo[n]
      BY <1>4, <1>6, <2>1
    <3>2. \A k \in 1..(n - 1) : k \in DOMAIN fifo
      BY <1>6, <3>1
    <3>3. Open(s) \/ s.how = "cancel" \/ \E k \in 1..(n - 1) : fifo[k].k = "start"
      BY <1>1, <2>1, <3>1 DEF Good, InTurn
    <3> QED
      BY <1>6, <3>2, <3>3
  <2>2. /\ Has(fifo, "start")' <=> Has(fifo, "start")
        /\ Open(s)' <=> Open(s)
        /\ s'.how = s.how /\ s'.adopted = s.adopted /\ s'.cancelled = s.cancelled
    BY <1>2, <1>7, <1>11 DEF Has, Open
  <2> QED
    BY <1>1, <1>2, <1>12, <2>1, <2>2 DEF Good, InTurn
<1>23. Answers(s.m, fifo)'
  <2>1. /\ Has(a, "turn") \/ Has(a, "response") => req'.at \in {"none", "called", "barrier"}
        /\ Has(a, "ready") => req'.at = "barrier"
        /\ req'.at # "none" => sync.inflight
        /\ Answers(s'.m, a) /\ fifo' = a /\ sync'.inflight = sync.inflight
    BY <1>2, <1>5, <1>10, <1>12 DEF Answers, Has
  <2> QED
    BY <2>1, AnswersArrive
<1>24. CallsOnce(s.m, fifo)'
  <2>1. /\ AnsweredCalls(fifo)' = AnsweredCalls(a) /\ Results(fifo)' = Results(a)
        /\ Issued' = Issued /\ Seen(s.m)' = Seen(s.m)
    BY <1>2, <1>12 DEF AnsweredCalls, Results, Issued, Seen
  <2> QED
    BY <1>2, <1>5, <1>10, <1>12, <2>1 DEF CallsOnce
<1>25. TypedRest'
  BY <1>1, <1>2, <1>5, <1>6 DEF TypedRest
<1> QED
  BY <1>12, <1>15, <1>16, <1>17, <1>18, <1>19, <1>20, <1>21, <1>22, <1>23, <1>24, <1>25
     DEF IInv, Good, Lags

-----------------------------------------------------------------------------
(* The coordinator starts a request, or ends.                              *)

\* A queue in which nobody waits for the actor any more.
Freed(f, q) ==
  /\ f \in Seq(Message) /\ Len(f) = Len(q)
  /\ \A n \in 1..Len(q) : (f[n] = q[n] /\ f[n].k # "ready") \/ (q[n].k = "ready" /\ f[n].k = "tick")

LEMMA InterruptedFreed ==
  ASSUME fifo \in Seq(Message)
  PROVE  Freed(Interrupted, fifo)
<1>1. Is("tick") \in Message /\ Is("tick").k = "tick"
  BY IsMessage DEF Plainly
<1>2. DOMAIN fifo = 1..Len(fifo) /\ Len(fifo) \in Nat /\ \A n \in DOMAIN fifo : fifo[n] \in Message
  OBVIOUS
<1> DEFINE f == Interrupted
<1>3. DOMAIN f = DOMAIN fifo /\ f = [n \in DOMAIN fifo |-> f[n]]
  BY DEF Interrupted
<1>4. \A n \in DOMAIN fifo : f[n] = IF fifo[n].k = "ready" THEN Is("tick") ELSE fifo[n]
  BY DEF Interrupted
<1> HIDE DEF f
<1>5. ASSUME NEW n \in DOMAIN fifo
      PROVE  /\ f[n] \in Message
             /\ (f[n] = fifo[n] /\ f[n].k # "ready") \/ (fifo[n].k = "ready" /\ f[n].k = "tick")
  <2>1. CASE fifo[n].k = "ready"
    <3>1. f[n] = Is("tick")
      BY <1>4, <2>1
    <3> QED
      BY <1>1, <2>1, <3>1
  <2>2. CASE fifo[n].k # "ready"
    <3>1. f[n] = fifo[n]
      BY <1>4, <2>2
    <3> QED
      BY <1>2, <2>2, <3>1
  <2> QED
    BY <2>1, <2>2
<1>6. f \in Seq(Message) /\ Len(f) = Len(fifo)
  BY <1>2, <1>3, <1>5
<1> QED
  BY <1>2, <1>5, <1>6 DEF Freed, f

LEMMA FreedIs ==
  ASSUME NEW q \in Seq(Message), NEW f, Freed(f, q)
  PROVE  /\ DOMAIN f = DOMAIN q /\ DOMAIN q = 1..Len(q) /\ Len(q) \in Nat
         /\ \A n \in DOMAIN q : f[n].k \notin {"ready", "tick"} \/ q[n].k \notin {"ready", "tick"}
                                  => f[n] = q[n]
         /\ ~Has(f, "ready")
         /\ \A k : k \notin {"ready", "tick"} => (Has(f, k) <=> Has(q, k))
         /\ \A i : Input(f, i) <=> Input(q, i)
         /\ \A n \in DOMAIN q : \A i : Brings(f, n, i) <=> Brings(q, n, i)
         /\ \A n \in Nat \ {0}, k \in Nat : k <= Len(q) => (TurnIn(f, n, k) <=> TurnIn(q, n, k))
<1>1. /\ DOMAIN f = DOMAIN q /\ DOMAIN q = 1..Len(q) /\ Len(q) \in Nat
      /\ \A n \in DOMAIN q :
           (f[n] = q[n] /\ f[n].k # "ready") \/ (q[n].k = "ready" /\ f[n].k = "tick")
  BY DEF Freed
<1>2. \A n \in DOMAIN q : f[n].k \notin {"ready", "tick"} \/ q[n].k \notin {"ready", "tick"}
                            => f[n] = q[n]
  BY <1>1
<1>3. ~Has(f, "ready")
  BY <1>1 DEF Has
<1>4. ASSUME NEW k, k \notin {"ready", "tick"} PROVE Has(f, k) <=> Has(q, k)
  BY <1>1, <1>2, <1>4 DEF Has
<1>5. ASSUME NEW i PROVE Input(f, i) <=> Input(q, i)
  BY <1>1 DEF Input
<1>6. ASSUME NEW n \in DOMAIN q, NEW i PROVE Brings(f, n, i) <=> Brings(q, n, i)
  BY <1>1 DEF Brings
<1>7. ASSUME NEW n \in Nat \ {0}, NEW k \in Nat, k <= Len(q)
      PROVE  TurnIn(f, n, k) <=> TurnIn(q, n, k)
  <2>1. \A i \in n..k : i \in DOMAIN q
    BY <1>1, <1>7
  <2> QED
    BY <1>1, <2>1 DEF TurnIn
<1> QED
  BY <1>1, <1>2, <1>3, <1>4, <1>5, <1>6, <1>7

LEMMA FreedSets ==
  ASSUME NEW q \in Seq(Message), NEW f, Freed(f, q)
  PROVE  Submits(f) = Submits(q) /\ Results(f) = Results(q) /\ AnsweredCalls(f) = AnsweredCalls(q)
<1>1. /\ DOMAIN f = DOMAIN q
      /\ \A n \in DOMAIN q : f[n].k \notin {"ready", "tick"} \/ q[n].k \notin {"ready", "tick"}
                               => f[n] = q[n]
  BY FreedIs
<1>2. \A k \in {"submit", "result", "response"} :
        {n \in DOMAIN f : f[n].k = k} = {n \in DOMAIN q : q[n].k = k}
  BY <1>1
<1>3. Submits(f) = Submits(q)
  BY <1>1, <1>2 DEF Submits
<1>4. Results(f) = Results(q)
  BY <1>1, <1>2 DEF Results
<1>5. AnsweredCalls(f) = AnsweredCalls(q)
  <2> DEFINE R == {n \in DOMAIN q : q[n].k = "response"}
  <2>1. {n \in DOMAIN f : f[n].k = "response"} = R
    BY <1>2
  <2>2. \A n \in R : f[n] = q[n]
    BY <1>1
  <2>3. {f[n].calls : n \in R} = {q[n].calls : n \in R}
    BY <2>2
  <2> QED
    BY <2>1, <2>3 DEF AnsweredCalls
<1> QED
  BY <1>3, <1>4, <1>5

LEMMA FreedGood ==
  ASSUME NEW q \in Seq(Message), NEW f, Freed(f, q), NEW w, NEW h, Good(w, q, h)
  PROVE  Good(w, f, h)
<1>1. /\ DOMAIN f = DOMAIN q /\ DOMAIN q = 1..Len(q) /\ Len(q) \in Nat
      /\ \A n \in DOMAIN q : f[n].k \notin {"ready", "tick"} \/ q[n].k \notin {"ready", "tick"}
                               => f[n] = q[n]
      /\ \A i : Input(f, i) <=> Input(q, i)
      /\ Has(f, "exit") <=> Has(q, "exit")
      /\ Has(f, "start") <=> Has(q, "start")
      /\ Submits(f) = Submits(q)
  BY FreedIs, FreedSets
<1>2. Exits(w, f)
  <2>1. \A n, k \in DOMAIN f : n < k /\ f[n].k = "exit" => f[k].k \notin {"exit", "response"}
    <3>1. SUFFICES ASSUME NEW n \in DOMAIN q, NEW k \in DOMAIN q, n < k, f[n].k = "exit",
                          f[k].k \in {"exit", "response"}
                   PROVE  FALSE
      BY <1>1
    <3>2. f[n] = q[n] /\ f[k] = q[k]
      BY <1>1, <3>1
    <3> QED
      BY <3>1, <3>2 DEF Good, Exits
  <2> QED
    BY <1>1, <2>1 DEF Good, Exits
<1>3. Inbox(w, f) /\ Sent(w, f)
  <2>1. \A n \in DOMAIN f : f[n].k = "input" => f[n] = q[n]
    BY <1>1
  <2>2. \A n, k \in DOMAIN f : f[n].k = "input" /\ f[k].k = "input" /\ f[n].id = f[k].id => n = k
    BY <1>1, <2>1 DEF Good, Sent
  <2> QED
    BY <1>1, <2>2 DEF Good, Inbox, Owes, Sent
<1>4. Apart(w, f, h)
  <2>1. \A n \in DOMAIN f : f[n].k = "submit" => f[n] = q[n]
    BY <1>1
  <2>2. \A n, k \in DOMAIN f :
          f[n].k = "submit" /\ f[k].k = "submit" /\ f[n].line = f[k].line => n = k
    BY <1>1, <2>1 DEF Good, Apart
  <2> QED
    BY <1>1, <2>2 DEF Good, Apart
<1>5. InTurn(w, f)
  <2>1. ASSUME NEW n \in DOMAIN f, f[n].k = "response", f[n].calls # {}
        PROVE  Open(w) \/ w.how = "cancel" \/ \E k \in 1..(n - 1) : f[k].k = "start"
    <3>1. n \in DOMAIN q /\ f[n] = q[n]
      BY <1>1, <2>1
    <3>2. Open(w) \/ w.how = "cancel" \/ \E k \in 1..(n - 1) : q[k].k = "start"
      BY <2>1, <3>1 DEF Good, InTurn
    <3>3. \A k \in 1..(n - 1) : k \in DOMAIN q
      BY <1>1, <3>1
    <3> QED
      BY <1>1, <3>2, <3>3
  <2> QED
    BY <1>1, <2>1 DEF Good, InTurn
<1> QED
  BY <1>2, <1>3, <1>4, <1>5 DEF Good

LEMMA FreedLags ==
  ASSUME NEW q \in Seq(Message), NEW f, Freed(f, q), NEW m, Lags(m, q)
  PROVE  Lags(m, f)
<1>1. /\ DOMAIN f = DOMAIN q /\ DOMAIN q = 1..Len(q) /\ Len(q) \in Nat /\ Len(f) = Len(q)
      /\ \A n \in DOMAIN q : f[n].k \notin {"ready", "tick"} \/ q[n].k \notin {"ready", "tick"}
                               => f[n] = q[n]
      /\ ~Has(f, "ready")
      /\ Has(f, "turn") <=> Has(q, "turn")
      /\ Has(f, "response") <=> Has(q, "response")
      /\ \A n \in DOMAIN q : \A i : Brings(f, n, i) <=> Brings(q, n, i)
      /\ \A n \in Nat \ {0}, k \in Nat : k <= Len(q) => (TurnIn(f, n, k) <=> TurnIn(q, n, k))
      /\ Results(f) = Results(q) /\ AnsweredCalls(f) = AnsweredCalls(q)
  BY FreedIs, FreedSets DEF Freed
<1>2. \A n \in DOMAIN q : f[n].k \in {"turn", "response", "result", "input"}
                            \/ q[n].k \in {"turn", "response", "result", "input"} => f[n] = q[n]
  BY <1>1
<1>3. Answers(m, f)
  <2>1. \A n, k \in DOMAIN f : n < k /\ f[n].k \in {"turn", "response"} => f[k].k # "response"
    <3>1. SUFFICES ASSUME NEW n \in DOMAIN q, NEW k \in DOMAIN q, n < k,
                          f[n].k \in {"turn", "response"}, f[k].k = "response"
                   PROVE  FALSE
      BY <1>1
    <3>2. f[n] = q[n] /\ f[k] = q[k]
      BY <1>2, <3>1
    <3> QED
      BY <3>1, <3>2 DEF Lags, Answers
  <2>2. \A n \in DOMAIN f : f[n].k # "ready"
    BY <1>1 DEF Has
  <2> QED
    BY <1>1, <2>1, <2>2 DEF Lags, Answers
<1>4. Reasons(m, f)
  <2>1. ASSUME NEW i \in sync.reasons
        PROVE  \/ i \in m.reasons /\ ~Has(f, "turn")
               \/ \E n \in DOMAIN f : Brings(f, n, i) /\ ~TurnIn(f, n, Len(f))
    <3>1. \A n \in DOMAIN q : n \in Nat \ {0}
      BY <1>1
    <3> QED
      BY <1>1, <3>1 DEF Lags, Reasons
  <2>2. ASSUME NEW n \in DOMAIN f, f[n].k = "turn", ~TurnIn(f, n + 1, Len(f)),
               NEW i \in sync.turnReasons
        PROVE  \/ i \in m.reasons /\ ~TurnIn(f, 1, n - 1)
               \/ \E k \in 1..(n - 1) : Brings(f, k, i) /\ ~TurnIn(f, k, n - 1)
    <3>1. n \in DOMAIN q /\ q[n].k = "turn"
      BY <1>1, <1>2, <2>2
    <3>2. /\ n + 1 \in Nat \ {0} /\ n - 1 \in Nat /\ n - 1 <= Len(q) /\ 1 \in Nat \ {0}
          /\ \A k \in 1..(n - 1) : k \in DOMAIN q /\ k \in Nat \ {0}
      BY <1>1, <3>1
    <3>3. ~TurnIn(q, n + 1, Len(q))
      BY <1>1, <2>2, <3>2
    <3>4. \/ i \in m.reasons /\ ~TurnIn(q, 1, n - 1)
          \/ \E k \in 1..(n - 1) : Brings(q, k, i) /\ ~TurnIn(q, k, n - 1)
      BY <3>1, <3>3 DEF Lags, Reasons
    <3> QED
      BY <1>1, <3>2, <3>4
  <2>3. ASSUME NEW n \in DOMAIN f, f[n].k = "turn", ~TurnIn(f, 1, n - 1),
               ~m.inflight \/ Has(f, "response")
        PROVE  m.reasons # {} \/ \E k \in 1..(n - 1) : f[k].k \in {"input", "result"}
    <3>1. n \in DOMAIN q /\ q[n].k = "turn"
      BY <1>1, <1>2, <2>3
    <3>2. /\ n - 1 \in Nat /\ n - 1 <= Len(q) /\ 1 \in Nat \ {0}
          /\ \A k \in 1..(n - 1) : k \in DOMAIN q
      BY <1>1, <3>1
    <3>3. ~TurnIn(q, 1, n - 1)
      BY <1>1, <2>3, <3>2
    <3>4. m.reasons # {} \/ \E k \in 1..(n - 1) : q[k].k \in {"input", "result"}
      BY <1>1, <2>3, <3>1, <3>3 DEF Lags, Reasons
    <3> QED
      BY <1>2, <3>2, <3>4
  <2> QED
    BY <2>1, <2>2, <2>3 DEF Reasons
<1>5. CallsOnce(m, f)
  <2>1. ASSUME NEW n \in DOMAIN f, f[n].k = "result"
        PROVE  \/ f[n].call \in m.outstanding
               \/ \E k \in 1..(n - 1) : f[k].k = "response" /\ f[n].call \in f[k].calls
    <3>1. n \in DOMAIN q /\ f[n] = q[n]
      BY <1>1, <1>2, <2>1
    <3>2. \A k \in 1..(n - 1) : k \in DOMAIN q
      BY <1>1, <3>1
    <3>3. \/ q[n].call \in m.outstanding
          \/ \E k \in 1..(n - 1) : q[k].k = "response" /\ q[n].call \in q[k].calls
      BY <2>1, <3>1 DEF Lags, CallsOnce
    <3> QED
      BY <1>2, <3>1, <3>2, <3>3
  <2>2. \A n \in DOMAIN f : f[n].k = "result" => f[n] = q[n]
    BY <1>1, <1>2
  <2>3. \A n, k \in DOMAIN f :
          f[n].k = "result" /\ f[k].k = "result" /\ f[n].call = f[k].call => n = k
    BY <1>1, <2>2 DEF Lags, CallsOnce
  <2> QED
    BY <1>1, <2>1, <2>3 DEF Lags, CallsOnce
<1> QED
  BY <1>3, <1>4, <1>5 DEF Lags

\* A queue in which nobody waits any more, and the word of what happened.
LEMMA InterruptedIs ==
  ASSUME IInv, NEW k \in {"turn", "exit"}
  PROVE  LET f == Interrupted
             a == Append(Interrupted, Is(k))
         IN /\ Is(k) \in Message /\ Is(k).k = k
            /\ f \in Seq(Message) /\ Len(f) \in Nat /\ DOMAIN f = 1..Len(f)
            /\ Good(s, f, {}) /\ Lags(s.m, f) /\ ~Has(f, "ready")
            /\ \A j : j \notin {"ready", "tick"} => (Has(f, j) <=> Has(fifo, j))
            /\ a \in Seq(Message) /\ Len(a) = Len(f) + 1
            /\ \A n \in DOMAIN f : n \in DOMAIN a /\ a[n] = f[n] /\ n <= Len(f)
            /\ \A n \in DOMAIN a : \/ n \in DOMAIN f /\ a[n] = f[n] /\ n <= Len(f)
                                   \/ n = Len(f) + 1 /\ a[n] = Is(k)
            /\ \A i : Input(a, i) <=> Input(fifo, i)
            /\ Typed(s) /\ Inbox(s, a) /\ Sent(s, a) /\ Boundary(s)
            /\ Apart(s, a, {}) /\ Landing(s, {}) /\ Parks(s)
            /\ CallsOnce(s.m, a)
<1> DEFINE f == Interrupted
           x == Is(k)
           a == Append(f, x)
<1>1. fifo \in Seq(Message) /\ Good(s, fifo, {}) /\ Lags(s.m, fifo)
  BY DEF IInv, TypedRest
<1>2. x \in Message /\ x.k = k /\ x.k \notin {"input", "submit", "response", "result"}
  BY IsMessage
<1>3. Freed(f, fifo)
  BY <1>1, InterruptedFreed
<1> HIDE DEF f, x
<1>4. f \in Seq(Message) /\ Len(f) \in Nat /\ DOMAIN f = 1..Len(f)
  BY <1>3 DEF Freed
<1>5. Good(s, f, {}) /\ Lags(s.m, f)
  BY <1>1, <1>3, FreedGood, FreedLags
<1>6. /\ ~Has(f, "ready")
      /\ \A j : j \notin {"ready", "tick"} => (Has(f, j) <=> Has(fifo, j))
      /\ \A i : Input(f, i) <=> Input(fifo, i)
  BY <1>1, <1>3, FreedIs
<1>7. /\ a \in Seq(Message) /\ Len(a) = Len(f) + 1
      /\ \A n \in DOMAIN f : n \in DOMAIN a /\ a[n] = f[n] /\ n <= Len(f)
      /\ \A n \in DOMAIN a : \/ n \in DOMAIN f /\ a[n] = f[n] /\ n <= Len(f)
                             \/ n = Len(f) + 1 /\ a[n] = x
  BY <1>2, <1>4, AppendIs
<1>8. \A i : Input(a, i) <=> Input(f, i)
  BY <1>2, <1>4, AppendHas
<1>9. /\ Typed(s) /\ Inbox(s, a) /\ Sent(s, a) /\ Boundary(s)
      /\ Apart(s, a, {}) /\ Landing(s, {}) /\ Parks(s)
  BY <1>2, <1>4, <1>5, AppendMost
<1>10. CallsOnce(s.m, a)
  BY <1>2, <1>4, <1>5, AppendCalls DEF Lags
<1> QED
  BY <1>2, <1>4, <1>5, <1>6, <1>7, <1>8, <1>9, <1>10 DEF f, x

\* What a coordinator that starts a request or ends changes in the session.
LEMMA CoordinatorFields ==
  ASSUME NEW w \in Session
  PROVE  /\ [w EXCEPT !.userStop = FALSE] \in Session
         /\ [w EXCEPT !.alive = FALSE] \in Session
<1>1. [w EXCEPT !.userStop = FALSE] \in Session
  BY ZenonT(60)DEF Session
<1>2. [w EXCEPT !.alive = FALSE] \in Session
  BY ZenonT(60)DEF Session
<1> QED
  BY <1>1, <1>2

\* All but the request, the engine's stop and whether it lives.
Spared(v, w) ==
  /\ v.turn = w.turn /\ v.m = w.m /\ v.unobserved = w.unobserved /\ v.inputs = w.inputs
  /\ v.steerQ = w.steerQ /\ v.noticeQ = w.noticeQ /\ v.notes = w.notes
  /\ v.pending = w.pending /\ v.news = w.news /\ v.adopted = w.adopted /\ v.ended = w.ended
  /\ v.cancelled = w.cancelled /\ v.cancelling = w.cancelling /\ v.parked = w.parked
  /\ v.muted = w.muted /\ v.run = w.run
  /\ v.inbox = w.inbox /\ v.restart = w.restart /\ v.steerable = w.steerable
  /\ v.steerIn = w.steerIn /\ v.told = w.told /\ v.promised = w.promised
  /\ v.begun = w.begun /\ v.known = w.known /\ v.hushed = w.hushed /\ v.how = w.how

LEMMA CutGood ==
  ASSUME fifo \in Seq(Message), NEW a \in Seq(Message), fifo' = a,
         \A i : Input(a, i) <=> Input(fifo, i),
         Typed(s), Inbox(s, a), Sent(s, a), Boundary(s), Apart(s, a, {}), Landing(s, {}), Parks(s),
         s' \in Session, Spared(s', s), s'.alive => s.alive,
         submitted' = submitted, steered' = steered, noted' = noted,
         req'.at \in {"none", "called"}
  PROVE  /\ Typed(s)' /\ Inbox(s, fifo)' /\ Sent(s, fifo)' /\ Boundary(s)'
         /\ Apart(s, fifo, {})' /\ Landing(s, {})' /\ Parks(s)'
<1>1. Typed(s')
  BY DEF Typed, Spared
<1>2. Inbox(s', a) /\ Sent(s', a)
  BY DEF Inbox, Owes, Sent, Spared
<1>3. Boundary(s')
  BY DEF Boundary, Waiting, Spared
<1>4. Apart(s', a, {}) /\ Landing(s', {})
  BY DEF Apart, Landing, Open, Cancelling, Spared
<1>5. /\ Typed(s)' /\ Inbox(s, fifo)' /\ Sent(s, fifo)' /\ Boundary(s)'
      /\ Apart(s, fifo, {})' /\ Landing(s, {})'
  BY <1>1, <1>2, <1>3, <1>4, PartsArrive
<1>6. Parks(s)'
  BY DEF Parks, Spared
<1> QED
  BY <1>5, <1>6

LEMMA StartRequestStep ==
  ASSUME IInv, StartRequest
  PROVE  IInv'
<1> DEFINE f == Interrupted
           x == Is("turn")
           a == Append(f, x)
           v == [s EXCEPT !.userStop = FALSE]
<1>1. /\ TypedRest /\ Good(s, fifo, {}) /\ Lags(s.m, fifo) /\ fifo \in Seq(Message)
      /\ sync \in MirrorOf(Inputs, Calls) /\ s \in Session
  BY DEF IInv, TypedRest, Good, Typed
<1>2. /\ s.alive /\ s' = v /\ fifo' = a /\ sync' = ApplyTurn(sync)
      /\ req' = [NoRequest EXCEPT !.at = "called"] /\ startup' = startup
      /\ submitted' = submitted /\ steered' = steered /\ noted' = noted /\ deaths' = deaths
      /\ issued' = issued
      /\ sync.reasons # {} \/ (sync.inflight /\ req.at = "none")
  BY DEF StartRequest, Works, Unanswered, counters
<1>3. req' \in Request /\ req'.at = "called" /\ req'.calls = {}
  BY <1>2 DEF Request, NoRequest
<1>4. /\ sync' \in MirrorOf(Inputs, Calls) /\ sync'.reasons = {}
      /\ sync'.turnReasons = sync.reasons /\ sync'.inflight = TRUE
      /\ sync'.outstanding = sync.outstanding
  BY <1>1, <1>2 DEF ApplyTurn, MirrorOf
<1>5. v \in Session
  BY <1>1, CoordinatorFields
<1>6. Spared(v, s) /\ v.alive = s.alive
  BY <1>1 DEF Session, Spared
<1>7. /\ x.k = "turn"
      /\ f \in Seq(Message) /\ Len(f) \in Nat /\ DOMAIN f = 1..Len(f)
      /\ Good(s, f, {}) /\ Lags(s.m, f) /\ ~Has(f, "ready")
  BY InterruptedIs
<1>8. /\ a \in Seq(Message) /\ Len(a) = Len(f) + 1
      /\ \A n \in DOMAIN f : n \in DOMAIN a /\ a[n] = f[n] /\ n <= Len(f)
      /\ \A n \in DOMAIN a : \/ n \in DOMAIN f /\ a[n] = f[n] /\ n <= Len(f)
                             \/ n = Len(f) + 1 /\ a[n] = x
      /\ \A i : Input(a, i) <=> Input(fifo, i)
  BY InterruptedIs
<1>9. /\ Typed(s) /\ Inbox(s, a) /\ Sent(s, a) /\ Boundary(s)
      /\ Apart(s, a, {}) /\ Landing(s, {}) /\ Parks(s) /\ CallsOnce(s.m, a)
  BY InterruptedIs
<1>10. x \in Message
  BY IsMessage
<1>11. \A n \in DOMAIN f : \A i : Brings(a, n, i) <=> Brings(f, n, i)
  BY <1>7, <1>10, AppendTurns
<1>12. \A n \in Nat \ {0}, k \in 0..Len(f) : TurnIn(a, n, k) <=> TurnIn(f, n, k)
  BY <1>7, <1>10, AppendTurns
<1>13. \A j : Has(a, j) <=> j = "turn" \/ Has(f, j)
  BY <1>7, <1>10, AppendHas
<1> HIDE DEF a, f, x, v
<1>14. /\ Typed(s)' /\ Inbox(s, fifo)' /\ Sent(s, fifo)' /\ Boundary(s)'
       /\ Apart(s, fifo, {})' /\ Landing(s, {})' /\ Parks(s)'
  <2>1. /\ fifo' = a /\ s' \in Session /\ Spared(s', s) /\ (s'.alive => s.alive)
        /\ submitted' = submitted /\ steered' = steered /\ noted' = noted
        /\ req'.at \in {"none", "called"}
    BY <1>2, <1>3, <1>5, <1>6
  <2> QED
    BY <1>1, <1>8, <1>9, <2>1, CutGood
<1>15. Exits(s, fifo)'
  <2>1. \A n \in DOMAIN a : a[n].k = "exit" => n \in DOMAIN f /\ a[n] = f[n]
    BY <1>7, <1>8
  <2>2. ~Has(f, "exit")
    BY <1>2, <1>7 DEF Good, Exits
  <2>3. \A n \in DOMAIN a : a[n].k # "exit"
    BY <2>1, <2>2 DEF Has
  <2>4. fifo' = a /\ s'.alive
    BY <1>2, <1>6
  <2> QED
    BY <2>3, <2>4 DEF Exits, Has
<1>16. InTurn(s, fifo)'
  <2>1. ASSUME NEW n \in DOMAIN a, a[n].k = "response", a[n].calls # {}
        PROVE  Open(s) \/ s.how = "cancel" \/ \E k \in 1..(n - 1) : a[k].k = "start"
    <3>1. n \in DOMAIN f /\ a[n] = f[n]
      BY <1>7, <1>8, <2>1
    <3>2. \A k \in 1..(n - 1) : k \in DOMAIN f
      BY <1>7, <3>1
    <3>3. Open(s) \/ s.how = "cancel" \/ \E k \in 1..(n - 1) : f[k].k = "start"
      BY <1>7, <2>1, <3>1 DEF Good, InTurn
    <3> QED
      BY <1>8, <3>2, <3>3
  <2>2. /\ Open(s)' <=> Open(s)
        /\ s'.how = s.how /\ s'.adopted = s.adopted /\ s'.cancelled = s.cancelled
        /\ s'.m = s.m /\ fifo' = a /\ deaths' = deaths /\ req'.at = "called"
    BY <1>2, <1>3, <1>6 DEF Open, Spared
  <2> QED
    BY <1>1, <2>1, <2>2 DEF Good, InTurn
<1>17. /\ fifo' = a /\ s'.m = s.m
       /\ \A j : Has(fifo, j)' <=> j = "turn" \/ Has(f, j)
       /\ \A n, i : Brings(fifo, n, i)' <=> Brings(a, n, i)
       /\ \A n, k : TurnIn(fifo, n, k)' <=> TurnIn(a, n, k)
  <2>1. \A j : Has(fifo, j)' <=> Has(a, j)
    BY <1>2 DEF Has
  <2>2. \A n, i : Brings(fifo, n, i)' <=> Brings(a, n, i)
    BY <1>2 DEF Brings
  <2>3. \A n, k : TurnIn(fifo, n, k)' <=> TurnIn(a, n, k)
    BY <1>2 DEF TurnIn
  <2> QED
    BY <1>2, <1>6, <1>13, <2>1, <2>2, <2>3 DEF Spared
<1>18. Answers(s.m, fifo)'
  <2>1. \A n, k \in DOMAIN a : n < k /\ a[n].k \in {"turn", "response"} => a[k].k # "response"
    <3>1. SUFFICES ASSUME NEW n \in DOMAIN a, NEW k \in DOMAIN a, n < k,
                          a[n].k \in {"turn", "response"}, a[k].k = "response"
                   PROVE  FALSE
      OBVIOUS
    <3>2. n \in DOMAIN f /\ a[n] = f[n] /\ k \in DOMAIN f /\ a[k] = f[k]
      BY <1>7, <1>8, <3>1
    <3> QED
      BY <1>7, <3>1, <3>2 DEF Lags, Answers
  <2>2. \A n \in DOMAIN a : a[n].k # "ready"
    BY <1>7, <1>8 DEF Has
  <2>3. Has(f, "response") => s.m.inflight
    BY <1>7 DEF Lags, Answers
  <2> QED
    BY <1>3, <1>4, <1>17, <2>1, <2>2, <2>3 DEF Answers
<1>19. Reasons(s.m, fifo)'
  <2>1. ASSUME NEW i \in sync.reasons
        PROVE  \/ i \in s.m.reasons /\ ~TurnIn(f, 1, Len(f))
               \/ \E k \in 1..Len(f) : Brings(f, k, i) /\ ~TurnIn(f, k, Len(f))
    <3>1. \/ i \in s.m.reasons /\ ~Has(f, "turn")
          \/ \E k \in DOMAIN f : Brings(f, k, i) /\ ~TurnIn(f, k, Len(f))
      BY <1>7 DEF Lags, Reasons
    <3>2. ~Has(f, "turn") => ~TurnIn(f, 1, Len(f))
      BY <1>7 DEF Has, TurnIn
    <3> QED
      BY <1>7, <3>1, <3>2
  <2>2. ASSUME NEW n \in DOMAIN a, a[n].k = "turn", ~TurnIn(a, n + 1, Len(a)),
               NEW i \in sync.reasons
        PROVE  \/ i \in s.m.reasons /\ ~TurnIn(a, 1, n - 1)
               \/ \E k \in 1..(n - 1) : Brings(a, k, i) /\ ~TurnIn(a, k, n - 1)
    <3>1. n = Len(f) + 1
      <4>1. SUFFICES ASSUME n <= Len(f) PROVE FALSE
        BY <1>7, <1>8
      <4>2. Len(f) + 1 \in (n + 1)..Len(a)
        BY <1>7, <1>8, <4>1
      <4>3. a[Len(f) + 1].k = "turn"
        <5>1. Len(f) + 1 \in DOMAIN a /\ Len(f) + 1 \notin DOMAIN f
          BY <1>7, <1>8
        <5> QED
          BY <1>7, <1>8, <5>1
      <4> QED
        BY <2>2, <4>2, <4>3 DEF TurnIn
    <3>2. /\ n - 1 = Len(f) /\ Len(f) \in 0..Len(f) /\ 1 \in Nat \ {0}
          /\ \A k \in 1..Len(f) : k \in DOMAIN f /\ k \in Nat \ {0}
      BY <1>7, <3>1
    <3> QED
      BY <1>11, <1>12, <2>1, <3>2
  <2>3. ASSUME NEW n \in DOMAIN a, a[n].k = "turn", ~TurnIn(a, 1, n - 1),
               ~s.m.inflight \/ Has(f, "response")
        PROVE  s.m.reasons # {} \/ \E k \in 1..(n - 1) : a[k].k \in {"input", "result"}
    <3>1. CASE n \in DOMAIN f
      <4>1. /\ n - 1 \in 0..Len(f) /\ 1 \in Nat \ {0} /\ a[n] = f[n]
            /\ \A k \in 1..(n - 1) : k \in DOMAIN f
        BY <1>7, <1>8, <3>1
      <4>2. ~TurnIn(f, 1, n - 1)
        BY <1>12, <2>3, <4>1
      <4>3. s.m.reasons # {} \/ \E k \in 1..(n - 1) : f[k].k \in {"input", "result"}
        BY <1>7, <2>3, <3>1, <4>1, <4>2 DEF Lags, Reasons
      <4> QED
        BY <1>8, <4>1, <4>3
    <3>2. CASE n = Len(f) + 1
      <4>1. ~Has(f, "turn")
        <5>1. /\ n - 1 = Len(f) /\ Len(f) \in 0..Len(f) /\ 1 \in Nat \ {0}
          BY <1>7, <3>2
        <5>2. ~TurnIn(f, 1, Len(f))
          BY <1>12, <2>3, <5>1
        <5> QED
          BY <1>7, <5>2 DEF Has, TurnIn
      <4>2. sync.reasons # {}
        <5>1. SUFFICES ASSUME sync.reasons = {} PROVE FALSE
          OBVIOUS
        <5>2. sync.inflight
          BY <1>2, <5>1
        <5>3. ~Has(f, "response")
          BY <1>7, <4>1, <5>2 DEF Lags, Answers
        <5>4. s.m.inflight = sync.inflight
          BY <1>7, <4>1, <5>3 DEF Lags, Answers
        <5> QED
          BY <2>3, <5>2, <5>3, <5>4
      <4>3. PICK i \in sync.reasons : TRUE
        BY <4>2
      <4>4. CASE i \in s.m.reasons
        BY <4>4
      <4>5. CASE \E k \in 1..Len(f) : Brings(f, k, i)
        <5>1. PICK k \in 1..Len(f) : Brings(f, k, i)
          BY <4>5
        <5>2. k \in DOMAIN f /\ k \in 1..(n - 1) /\ a[k] = f[k]
          BY <1>7, <1>8, <3>2, <5>1
        <5> QED
          BY <5>1, <5>2 DEF Brings
      <4> QED
        BY <2>1, <4>4, <4>5
    <3> QED
      BY <1>8, <3>1, <3>2
  <2>4. \A n \in DOMAIN fifo' : fifo'[n].k = "turn" /\ ~TurnIn(fifo, n + 1, Len(fifo))' =>
          \A i \in sync'.turnReasons :
            \/ i \in s'.m.reasons /\ ~TurnIn(fifo, 1, n - 1)'
            \/ \E k \in 1..(n - 1) : Brings(fifo, k, i)' /\ ~TurnIn(fifo, k, n - 1)'
    BY <1>4, <1>17, <2>2
  <2>5. \A n \in DOMAIN fifo' :
          fifo'[n].k = "turn" /\ ~TurnIn(fifo, 1, n - 1)'
            /\ (~s'.m.inflight \/ Has(fifo, "response")') =>
              s'.m.reasons # {} \/ \E k \in 1..(n - 1) : fifo'[k].k \in {"input", "result"}
    BY <1>17, <2>3
  <2> QED
    BY <1>4, <2>4, <2>5 DEF Reasons
<1>20. CallsOnce(s.m, fifo)'
  <2>1. /\ AnsweredCalls(fifo)' = AnsweredCalls(a) /\ Results(fifo)' = Results(a)
        /\ Issued' = Issued /\ Seen(s.m)' = Seen(s.m) /\ s.m' = s.m /\ issued' = issued
    BY <1>2, <1>17 DEF AnsweredCalls, Results, Issued, Seen
  <2> QED
    BY <1>3, <1>4, <1>9, <1>17, <2>1 DEF CallsOnce
<1>21. TypedRest'
  BY <1>1, <1>2, <1>3, <1>4, <1>8 DEF TypedRest
<1> QED
  BY <1>14, <1>15, <1>16, <1>18, <1>19, <1>20, <1>21 DEF IInv, Good, Lags

LEMMA EndsStep ==
  ASSUME IInv, Ends, s.run # "none", s.run = "up" => deaths' > 0,
         deaths' \in Nat, deaths' = 0 => deaths = 0
  PROVE  IInv'
<1> DEFINE f == Interrupted
           x == Is("exit")
           a == Append(f, x)
           v == [s EXCEPT !.alive = FALSE]
<1>1. /\ TypedRest /\ Good(s, fifo, {}) /\ Lags(s.m, fifo) /\ fifo \in Seq(Message)
      /\ s \in Session
  BY DEF IInv, TypedRest, Good, Typed
<1>2. /\ s.alive /\ s' = v /\ fifo' = a /\ sync' = sync /\ req' = NoRequest /\ startup' = startup
      /\ submitted' = submitted /\ steered' = steered /\ noted' = noted /\ issued' = issued
  BY DEF Ends
<1>3. req' \in Request /\ req'.at = "none" /\ req'.calls = {}
  BY <1>2 DEF Request, NoRequest
<1>4. v \in Session
  BY <1>1, CoordinatorFields
<1>5. Spared(v, s) /\ v.alive = FALSE
  BY <1>1 DEF Session, Spared
<1>6. /\ x.k = "exit"
      /\ f \in Seq(Message) /\ Len(f) \in Nat /\ DOMAIN f = 1..Len(f)
      /\ Good(s, f, {}) /\ Lags(s.m, f) /\ ~Has(f, "ready")
  BY InterruptedIs
<1>7. /\ a \in Seq(Message) /\ Len(a) = Len(f) + 1
      /\ \A n \in DOMAIN f : n \in DOMAIN a /\ a[n] = f[n] /\ n <= Len(f)
      /\ \A n \in DOMAIN a : \/ n \in DOMAIN f /\ a[n] = f[n] /\ n <= Len(f)
                             \/ n = Len(f) + 1 /\ a[n] = x
      /\ \A i : Input(a, i) <=> Input(fifo, i)
  BY InterruptedIs
<1>8. /\ Typed(s) /\ Inbox(s, a) /\ Sent(s, a) /\ Boundary(s)
      /\ Apart(s, a, {}) /\ Landing(s, {}) /\ Parks(s) /\ CallsOnce(s.m, a)
  BY InterruptedIs
<1>9. x \in Message
  BY IsMessage
<1>10. Answers(s.m, a) /\ Reasons(s.m, a)
  BY <1>6, <1>9, AppendAnswers, AppendReasons DEF Lags
<1>11. ~Has(a, "ready")
  BY <1>6, <1>9, AppendHas
<1> HIDE DEF a, f, x, v
<1>12. /\ Typed(s)' /\ Inbox(s, fifo)' /\ Sent(s, fifo)' /\ Boundary(s)'
       /\ Apart(s, fifo, {})' /\ Landing(s, {})' /\ Parks(s)'
  <2>1. /\ fifo' = a /\ s' \in Session /\ Spared(s', s) /\ (s'.alive => s.alive)
        /\ submitted' = submitted /\ steered' = steered /\ noted' = noted
        /\ req'.at \in {"none", "called"}
    BY <1>2, <1>3, <1>4, <1>5
  <2> QED
    BY <1>1, <1>7, <1>8, <2>1, CutGood
<1>13. s'.m = s.m /\ s'.alive = FALSE /\ s'.run = s.run /\ fifo' = a
  BY <1>2, <1>5 DEF Spared
<1>14. Exits(s, fifo)'
  <2>1. \A n \in DOMAIN f : f[n].k # "exit"
    BY <1>2, <1>6 DEF Good, Exits, Has
  <2>2. \A n, k \in DOMAIN a : n < k /\ a[n].k = "exit" => a[k].k \notin {"exit", "response"}
    <3>1. SUFFICES ASSUME NEW n \in DOMAIN a, NEW k \in DOMAIN a, n < k, a[n].k = "exit"
                   PROVE  FALSE
      OBVIOUS
    <3>2. n = Len(f) + 1
      BY <1>7, <2>1, <3>1
    <3> QED
      BY <1>6, <1>7, <3>1, <3>2
  <2> QED
    BY <1>3, <1>13, <2>2 DEF Exits, Has
<1>15. InTurn(s, fifo)'
  <2>1. ASSUME NEW n \in DOMAIN a, a[n].k = "response", a[n].calls # {}
        PROVE  Open(s) \/ s.how = "cancel" \/ \E k \in 1..(n - 1) : a[k].k = "start"
    <3>1. n \in DOMAIN f /\ a[n] = f[n]
      BY <1>6, <1>7, <2>1
    <3>2. \A k \in 1..(n - 1) : k \in DOMAIN f
      BY <1>6, <3>1
    <3>3. Open(s) \/ s.how = "cancel" \/ \E k \in 1..(n - 1) : f[k].k = "start"
      BY <1>6, <2>1, <3>1 DEF Good, InTurn
    <3> QED
      BY <1>7, <3>2, <3>3
  <2>2. /\ Open(s)' <=> Open(s)
        /\ s'.how = s.how /\ s'.adopted = s.adopted /\ s'.cancelled = s.cancelled
    BY <1>2, <1>5 DEF Open, Spared
  <2> QED
    BY <1>1, <1>3, <1>13, <2>1, <2>2 DEF Good, InTurn
<1>16. Answers(s.m, fifo)'
  <2>1. /\ Has(a, "turn") \/ Has(a, "response") => req'.at \in {"none", "called", "barrier"}
        /\ Has(a, "ready") => req'.at = "barrier"
        /\ req'.at # "none" => sync.inflight
        /\ Answers(s'.m, a) /\ fifo' = a /\ sync'.inflight = sync.inflight
    BY <1>2, <1>3, <1>10, <1>11, <1>13
  <2> QED
    BY <2>1, AnswersArrive
<1>17. Reasons(s.m, fifo)'
  <2>1. Reasons(s'.m, a) /\ fifo' = a /\ sync' = sync
    BY <1>2, <1>10, <1>13
  <2> QED
    BY <2>1, ReasonsArrive
<1>18. CallsOnce(s.m, fifo)'
  <2>1. /\ AnsweredCalls(fifo)' = AnsweredCalls(a) /\ Results(fifo)' = Results(a)
        /\ Issued' = Issued /\ Seen(s.m)' = Seen(s.m)
    BY <1>2, <1>13 DEF AnsweredCalls, Results, Issued, Seen
  <2> QED
    BY <1>2, <1>3, <1>8, <1>13, <2>1 DEF CallsOnce
<1>19. TypedRest'
  BY <1>1, <1>2, <1>3, <1>7 DEF TypedRest
<1> QED
  BY <1>12, <1>14, <1>15, <1>16, <1>17, <1>18, <1>19 DEF IInv, Good, Lags

LEMMA CoordinatorEnds ==
  ASSUME IInv, CoordinatorStops \/ CoordinatorFails
  PROVE  IInv'
<1>1. deaths \in Nat
  BY DEF IInv, TypedRest
<1>2. CASE CoordinatorStops
  <2>1. Ends /\ s.run = "stopping" /\ deaths' = deaths
    BY <1>2 DEF CoordinatorStops
  <2> QED
    BY <1>1, <2>1, EndsStep
<1>3. CASE CoordinatorFails
  <2>1. Ends /\ s.run = "up" /\ deaths' = deaths + 1
    BY <1>3 DEF CoordinatorFails
  <2>2. deaths' > 0 /\ deaths' \in Nat /\ (deaths' = 0 => deaths = 0)
    BY <1>1, <2>1
  <2> QED
    BY <2>1, <2>2, EndsStep
<1> QED
  BY <1>2, <1>3

-----------------------------------------------------------------------------
(* The invariant holds in every state.                                     *)

LEMMA InitGood ==
  ASSUME Init
  PROVE  IInv
<1>1. /\ newMirror \in MirrorOf(Inputs, Calls)
      /\ newMirror.reasons = {} /\ newMirror.turnReasons = {}
      /\ newMirror.inflight = FALSE /\ newMirror.outstanding = {}
  BY DEF newMirror, MirrorOf
<1>2. /\ s.turn = NoTurn /\ s.m = newMirror /\ s.unobserved = {} /\ s.inputs = {}
      /\ s.steerQ = <<>> /\ s.noticeQ = <<>> /\ s.notes = {} /\ s.pending = <<>>
      /\ s.news = {} /\ s.adopted = {} /\ s.ended = {} /\ s.cancelled = {}
      /\ s.cancelling = "no" /\ s.parked = FALSE /\ s.muted = {} /\ s.userStop = FALSE
      /\ s.run = "none" /\ s.alive = FALSE /\ s.inbox = <<>> /\ s.restart = "no"
      /\ s.steerable = FALSE /\ s.steerIn = <<>> /\ s.told = {} /\ s.promised = {}
      /\ s.begun = {} /\ s.known = {} /\ s.hushed = FALSE /\ s.how = "none"
  BY DEF Init
<1>3. s \in Session
  BY <1>1 DEF Init, Session, Turns, Endings
<1>4. /\ fifo = <<>> /\ sync = newMirror /\ req = NoRequest /\ deaths = 0
      /\ submitted = 0 /\ steered = {} /\ noted = {} /\ issued = 0
      /\ startup \in {"mounting", "ready", "watched"}
  BY SessionAssumption DEF Init
<1>5. NoRequest \in Request /\ NoRequest.at = "none" /\ NoRequest.calls = {}
  BY DEF NoRequest, Request
<1>6. TypedRest
  BY <1>1, <1>4, <1>5 DEF TypedRest
<1>7. DOMAIN fifo = {} /\ Len(fifo) = 0 /\ Elements(<<>>) = {} /\ Distinct(<<>>) /\ Len(<<>>) = 0
  BY <1>4 DEF Elements, Distinct
<1>8. Typed(s) /\ Exits(s, fifo) /\ Inbox(s, fifo) /\ Sent(s, fifo) /\ Boundary(s)
  <2>1. Typed(s)
    BY <1>2, <1>3, <1>7, FS_EmptySet DEF Typed
  <2>2. Exits(s, fifo) /\ Inbox(s, fifo)
    BY <1>2, <1>4, <1>5, <1>7 DEF Exits, Has, Inbox, Owes
  <2>3. ASSUME NEW i \in Inputs PROVE ~Recorded(i)
    BY <1>7 DEF Recorded, Elements
  <2>4. Sent(s, fifo) /\ Boundary(s)
    BY <1>2, <1>7, <2>3 DEF Sent, Input, Boundary, Waiting
  <2> QED
    BY <2>1, <2>2, <2>4
<1>9. Apart(s, fifo, {}) /\ Landing(s, {})
  <2>1. 0 \in 0..Len(Line)
    BY IdsAssumption
  <2>2. Submits(fifo) = {}
    BY <1>7 DEF Submits
  <2> QED
    BY <1>2, <1>4, <1>7, <2>1, <2>2 DEF Apart, Landing, Open, Cancelling
<1>10. InTurn(s, fifo) /\ Parks(s)
  BY <1>1, <1>2, <1>4, <1>5, <1>7 DEF InTurn, Parks
<1>11. Lags(s.m, fifo)
  <2>1. Answers(s.m, fifo) /\ Reasons(s.m, fifo)
    BY <1>1, <1>2, <1>4, <1>5, <1>7 DEF Answers, Reasons, Has
  <2>2. 0 \in 0..Len(Call)
    BY IdsAssumption
  <2>3. AnsweredCalls(fifo) = {} /\ Results(fifo) = {} /\ Seen(s.m) = {}
    BY <1>1, <1>2, <1>7 DEF AnsweredCalls, Results, Seen
  <2> QED
    BY <1>1, <1>2, <1>4, <1>5, <1>7, <2>1, <2>2, <2>3 DEF Lags, CallsOnce
<1> QED
  BY <1>6, <1>8, <1>9, <1>10, <1>11 DEF IInv, Good

\* A step of anyone but the actor opens and closes no turn, and a drain of the
\* session that it asks for has not returned.
Aside ==
  /\ s'.turn = s.turn /\ s'.drain \in {s.drain, "asked"}
  /\ s.hushed => /\ s'.parked \/ ~(sync.turnReasons \subseteq s.known)
                 /\ req.at = "starting" => req'.at # "provider"

LEMMA IdleAside ==
  ASSUME IInv, \/ Cancel \/ CancelExpires \/ Mounted \/ Watch \/ Drain \/ ChangeTools
               \/ ToolsSettle \/ SettleExpires \/ CancelWaited \/ SubmitLine
               \/ \E text \in Steers : Steer(text)
               \/ \E n \in News : Notify(n)
  PROVE  Aside
<1>1. s \in Session /\ (s.hushed => s.parked)
  BY DEF IInv, Good, Typed, Parks
<1>2. req' = req
  BY DEF Cancel, CancelExpires, Mounted, Watch, Drain, ChangeTools, ToolsSettle, SettleExpires,
     CancelWaited, SubmitLine, Steer, Notify, counters
<1>3. s'.turn = s.turn /\ s'.parked = s.parked /\ s'.drain \in {s.drain, "asked"}
  <2>1. CASE Cancel \/ Mounted \/ Watch \/ SubmitLine
    BY <2>1 DEF Cancel, Mounted, Watch, SubmitLine
  <2>2. CASE CancelExpires \/ Drain \/ ChangeTools
    BY <1>1, <2>2 DEF CancelExpires, Drain, ChangeTools, Session
  <2>3. CASE ToolsSettle \/ SettleExpires \/ CancelWaited
    BY <1>1, <2>3 DEF ToolsSettle, SettleExpires, CancelWaited, Session
  <2>4. ASSUME NEW text \in Steers, Steer(text)
        PROVE  s'.turn = s.turn /\ s'.parked = s.parked /\ s'.drain \in {s.drain, "asked"}
    BY <1>1, <2>4 DEF Steer, Session
  <2>5. ASSUME NEW n \in News, Notify(n)
        PROVE  s'.turn = s.turn /\ s'.parked = s.parked /\ s'.drain \in {s.drain, "asked"}
    BY <1>1, <2>5 DEF Notify, Session
  <2> QED
    BY <2>1, <2>2, <2>3, <2>4, <2>5
<1> QED
  BY <1>1, <1>2, <1>3 DEF Aside

LEMMA EngineAside ==
  ASSUME IInv, \/ Coordinator \/ CoordinatorFails \/ Gate
               \/ \E c \in Calls : CallEnds(c)
  PROVE  Aside
<1>1. /\ s \in Session
      /\ s.hushed => /\ s.parked /\ s.known \subseteq s.muted
                     /\ req.at = "starting" => s.userStop
  BY DEF IInv, Good, Typed, Parks
<1>2. CASE StartRequest
  <2>1. s'.turn = s.turn /\ s'.parked = s.parked /\ s'.drain = s.drain /\ req'.at = "called"
    BY <1>1, <1>2 DEF StartRequest, Session, NoRequest
  <2> QED
    BY <1>1, <2>1 DEF Aside
<1>3. CASE RecordInput
  <2>1. s'.turn = s.turn /\ s'.parked = s.parked /\ s'.drain = s.drain /\ req' = req
    BY <1>1, <1>3 DEF RecordInput, Session
  <2> QED
    BY <1>1, <2>1 DEF Aside
<1>4. CASE CoordinatorStops \/ CoordinatorFails
  <2>1. s'.turn = s.turn /\ s'.parked = s.parked /\ s'.drain = s.drain /\ req'.at = "none"
    BY <1>1, <1>4 DEF CoordinatorStops, CoordinatorFails, Ends, Session, NoRequest
  <2> QED
    BY <1>1, <2>1 DEF Aside
<1>5. CASE Respond \/ GateMutes \/ ResolveFails \/ Reply \/ RecordResponse
  <2>1. s' = s
    BY <1>5 DEF Respond, GateMutes, ResolveFails, Reply, RecordResponse
  <2>2. req.at = "starting" => req'.at # "provider"
    BY <1>5 DEF Respond, GateMutes, ResolveFails, Reply, RecordResponse, Answered
  <2> QED
    BY <1>1, <2>1, <2>2 DEF Aside
<1>6. CASE Resolve
  <2>1. s' = s
    BY <1>6 DEF Resolve
  <2>2. s.userStop => req'.at = "answered"
    BY <1>6 DEF Resolve, Answered
  <2> QED
    BY <1>1, <1>6, <2>1, <2>2 DEF Aside, Resolve
<1>7. CASE GateOpens
  <2>1. s'.turn = s.turn /\ s'.drain = s.drain /\ req.at = "checked"
    BY ZenonT(60),<1>1, <1>7 DEF GateOpens, Session
  <2>2. s.hushed => ~(sync.turnReasons \subseteq s.known)
    BY <1>1, <1>7 DEF GateOpens, Muted
  <2> QED
    BY <2>1, <2>2 DEF Aside
<1>8. CASE \E c \in Calls : CallEnds(c)
  <2>1. s' = s /\ req' = req
    BY <1>8 DEF CallEnds
  <2> QED
    BY <1>1, <2>1 DEF Aside
<1> QED
  BY <1>2, <1>3, <1>4, <1>5, <1>6, <1>7, <1>8 DEF Coordinator, Gate

\* Every step keeps the invariant.
LEMMA NextGood ==
  ASSUME IInv, [Next]_vars
  PROVE  IInv' /\ (Aside \/ (Stepped(s') /\ (req.at = "starting" => req' = req)))
<1>1. CASE Actor
  BY <1>1, ActorSteps
<1>2. CASE Cancel \/ CancelExpires \/ Mounted \/ Watch \/ Drain \/ ChangeTools
           \/ ToolsSettle \/ SettleExpires \/ CancelWaited
  BY <1>2, IdleSteps, IdleAside
<1>3. CASE SubmitLine \/ (\E text \in Steers : Steer(text)) \/ (\E n \in News : Notify(n))
  BY <1>3, SubmitLineStep, SteerStep, NotifyStep, IdleAside
<1>4. CASE Gate
  <2>1. IInv'
    BY <1>4, RespondStep, GateSteps, ReplyStep, RecordResponseStep DEF Gate
  <2> QED
    BY <1>4, <2>1, EngineAside
<1>5. CASE Coordinator \/ CoordinatorFails \/ \E c \in Calls : CallEnds(c)
  <2>1. IInv'
    BY <1>5, StartRequestStep, RecordInputStep, CoordinatorEnds, CallEndsStep DEF Coordinator
  <2> QED
    BY <1>5, <2>1, EngineAside
<1>6. CASE UNCHANGED vars
  <2>1. /\ s' = s /\ fifo' = fifo /\ sync' = sync /\ req' = req /\ startup' = startup
        /\ submitted' = submitted /\ steered' = steered /\ noted' = noted /\ issued' = issued
        /\ deaths' = deaths
    BY <1>6 DEF vars, counters
  <2>2. /\ Good(s', fifo, {}) /\ s'.m = s.m /\ Queued(fifo)
        /\ startup' \in {"mounting", "ready", "watched"}
    BY <2>1 DEF IInv, TypedRest, Queued
  <2>3. IInv'
    BY <2>1, <2>2, QuietStep
  <2>4. Aside
    BY <2>1 DEF Aside, IInv, Good, Parks
  <2> QED
    BY <2>3, <2>4
<1> QED
  BY <1>1, <1>2, <1>3, <1>4, <1>5, <1>6 DEF Next, User

\* The inductive invariant: the parts of Good and of Lags hold of the session,
\* of what is in its queue and of the mirror that lags behind it, for any lines,
\* steers, notices and calls, and however often a request fails, an Esc comes, a
\* coordinator dies or the tools change.
THEOREM Invariant == Spec => []IInv
<1>1. IInv /\ [Next]_vars => IInv'
  BY NextGood
<1> QED
  BY <1>1, InitGood, PTL DEF Spec

\* Type correctness: the actor's state, the queue, the mirrors and the request
\* (actorState, Runtime.q, Mirror, Gate).
THEOREM TypeCorrect == Spec => []TypeOK
<1>1. ASSUME IInv PROVE TypeOK
  <2>1. /\ s \in Session /\ fifo \in Seq(Message) /\ sync \in MirrorOf(Inputs, Calls)
        /\ req \in Request /\ startup \in {"mounting", "ready", "watched"}
        /\ s.run = "none" => ~s.alive /\ s.restart = "no"
    BY <1>1 DEF IInv, TypedRest, Good, Typed
  <2>2. \A n \in DOMAIN fifo : fifo[n] \in Message
    BY <2>1
  <2> QED
    BY <2>1, <2>2 DEF TypeOK
<1> QED
  BY <1>1, Invariant, PTL

LEMMA SteersAreKept ==
  ASSUME IInv
  PROVE  SteersKept
<1> DEFINE S == Lines \cup Steers
           c == s.steerIn \o s.steerQ
<1>1. s.steerIn \in Seq(S) /\ s.steerQ \in Seq(S) /\ s.pending \in Seq(S)
  BY DEF IInv, Good, Typed, Session
<1> HIDE DEF S
<1>2. c \in Seq(S) /\ Elements(c) = Elements(s.steerIn) \cup Elements(s.steerQ)
  BY <1>1, ElementsConcat
<1> HIDE DEF c
<1>3. Elements(c \o s.pending) = Elements(c) \cup Elements(s.pending)
  BY <1>1, <1>2, ElementsConcat
<1>4. steered \subseteq Elements(s.steerIn) \cup Elements(s.steerQ)
                    \cup Elements(s.pending) \cup s.notes \cup s.told \cup s.begun
  BY DEF IInv, Good, Landing
<1> QED
  BY <1>2, <1>3, <1>4 DEF SteersKept, c

\* What is said reaches the model once: a text that Steer accepted is queued,
\* told, kept for the next input or a line, never lost; one accepted while a turn
\* was open is in that turn, never a line of its own; and the inputs sent and not
\* recorded are exactly the inbox of the coordinator that works (Steer,
\* landQueued, cancelTurn, note, send, ensureRun).
THEOREM EverythingLands == Spec => []InputsLand
<1>1. ASSUME IInv PROVE InputsLand
  <2>1. SteersInTurn
    BY <1>1 DEF IInv, Good, Landing, SteersInTurn
  <2>2. InputsOnce
    <3>1. {i \in s.unobserved : ~Recorded(i)} = Owes(s, fifo)
      <4>1. s.unobserved \subseteq Inputs /\ fifo \in Seq(Message)
        BY <1>1 DEF IInv, TypedRest, Good, Typed, Session
      <4>2. \A i \in Inputs : Recorded(i) <=> Input(fifo, i)
        BY <4>1, RecordedIs
      <4> QED
        BY <4>1, <4>2 DEF Owes
    <3> QED
      BY <1>1, <3>1 DEF IInv, Good, Inbox, InputsOnce, Works
  <2> QED
    BY <1>1, <2>1, <2>2, SteersAreKept DEF InputsLand
<1> QED
  BY <1>1, Invariant, PTL

\* Nothing happens behind a session that says it is done: unless the last turn
\* was cut, no request that the actor has heard of is at the provider between
\* turns, and no call runs there but jobs and what was cancelled, unless the turn
\* ended with its coordinator (evaluate, note, turnStarted, runExit).
THEOREM NothingBehind == Spec => []NothingHidden
<1>1. ASSUME IInv PROVE NothingHidden
  <2>1. fifo = <<>> => ~Has(fifo, "start")
    BY DEF Has
  <2> QED
    BY <1>1, <2>1 DEF IInv, Good, InTurn, NothingHidden, NoHiddenRequest, NoStrayCalls
<1> QED
  BY <1>1, Invariant, PTL

\* A turn ends on its own only when nothing of it is left anywhere, although the
\* actor judges by a mirror that lags behind the coordinator's: what the queue
\* still brings would have kept the turn open. And Drain returns only when
\* nothing runs at all, or nobody is there to hear of it (evaluate, Drain).
THEOREM DoneIsQuiet == Spec => QuietDone
<1>1. IInv /\ [Next]_vars =>
        [/\ Closes /\ s'.how = "done" =>
              /\ QuietFor(s.adopted \cup s'.adopted \cup s.cancelled)
              /\ s'.steerIn = <<>> /\ s'.steerQ = <<>>
         /\ s.drain # "returned" /\ s'.drain = "returned" =>
              s'.run = "none" \/ QuietFor({})]_vars
  <2> SUFFICES ASSUME IInv, [Next]_vars
               PROVE  /\ Closes /\ s'.how = "done" =>
                           /\ QuietFor(s.adopted \cup s'.adopted \cup s.cancelled)
                           /\ s'.steerIn = <<>> /\ s'.steerQ = <<>>
                      /\ s.drain # "returned" /\ s'.drain = "returned" =>
                           s'.run = "none" \/ QuietFor({})
    OBVIOUS
  <2>1. CASE Aside
    BY <2>1 DEF Aside, Closes
  <2>2. CASE Stepped(s')
    BY <2>2 DEF Stepped, Closes, Open
  <2> QED
    BY <2>1, <2>2, NextGood
<1> QED
  BY <1>1, Invariant, PTL DEF Spec, QuietDone

\* After Esc the Gate stays parked for all that the actor knew of the turn when
\* it parked, and a request that was being set up never goes out, until a request
\* is about something else (cancelTurn, Gate.covered, Gate.resolve).
THEOREM EscStays == Spec => EscParks
<1>1. IInv /\ [Next]_vars =>
        [s.hushed => /\ s'.parked \/ ~(sync.turnReasons \subseteq s.known)
                     /\ req.at = "starting" => req'.at # "provider"]_vars
  <2> SUFFICES ASSUME IInv, [Next]_vars, s.hushed
               PROVE  /\ s'.parked \/ ~(sync.turnReasons \subseteq s.known)
                      /\ req.at = "starting" => req'.at # "provider"
    OBVIOUS
  <2>1. CASE Aside
    BY <2>1 DEF Aside
  <2>2. CASE Stepped(s') /\ (req.at = "starting" => req' = req)
    BY <2>2 DEF Stepped, Good, Parks
  <2> QED
    BY <2>1, <2>2, NextGood
<1> QED
  BY <1>1, Invariant, PTL DEF Spec, EscParks
=============================================================================
