---------------------------- MODULE HistoryProofs ----------------------------
(***************************************************************************)
(* Theorems about module History, for any number of processes, lines,      *)
(* notices, opens and faults, proved by TLAPS.                             *)
(***************************************************************************)
EXTENDS History, TLAPS, FiniteSetTheorems, WellFoundedInduction

----------------------------------------------------------------------------
(* Largest and the last newline.                                           *)

LEMMA MaxExists ==
  ASSUME NEW m \in Nat, NEW S, S \subseteq 0 .. m, S # {}
  PROVE  \E x \in S : \A y \in S : x >= y
<1> DEFINE T == {t \in Nat : m - t \in S}
<1>1. T \subseteq Nat /\ T # {}
  <2>1. PICK x \in S : TRUE
    OBVIOUS
  <2>2. x \in 0 .. m /\ m - (m - x) = x /\ m - x \in Nat
    OBVIOUS
  <2>3. m - x \in T
    BY <2>2
  <2> QED BY <2>3
<1>2. PICK t \in T : \A u \in T : <<u, t>> \notin OpToRel(<, Nat)
  BY <1>1, NatLessThanWellFounded, WFMin
<1>3. \A u \in T : ~(u < t)
  BY <1>1, <1>2 DEF OpToRel
<1>4. ASSUME NEW y \in S PROVE m - t >= y
  <2>1. y \in 0 .. m /\ m - (m - y) = y /\ m - y \in Nat
    OBVIOUS
  <2>2. m - y \in T
    BY <2>1
  <2>3. ~(m - y < t)
    BY <1>3, <2>2
  <2> QED BY <2>1, <2>3
<1> QED BY <1>4

LEMMA LargestIs ==
  ASSUME NEW m \in Nat, NEW S, S \subseteq 0 .. m, S # {}
  PROVE  Largest(S) \in S /\ \A y \in S : Largest(S) >= y
  BY MaxExists DEF Largest

LEMMA TopSeqIs ==
  ASSUME NEW m \in Nat, NEW S, NEW least \in 0 .. m, \A e \in S : e.seq \in 0 .. m
  PROVE  /\ TopSeq(S, least) \in 0 .. m /\ TopSeq(S, least) >= least
         /\ \A e \in S : TopSeq(S, least) >= e.seq
<1> DEFINE T == {least} \cup {e.seq : e \in S}
<1>1. T \subseteq 0 .. m /\ T # {}
  OBVIOUS
<1>2. Largest(T) \in T /\ \A y \in T : Largest(T) >= y
  BY <1>1, LargestIs
<1>3. \A e \in S : e.seq \in T
  OBVIOUS
<1> QED BY <1>1, <1>2, <1>3 DEF TopSeq

LEMMA TailEndIs ==
  ASSUME NEW C, NEW f \in Seq(C)
  PROVE  /\ TailEnd(f) \in 0 .. Len(f)
         /\ TailEnd(f) > 0 => IsEntry(f[TailEnd(f)])
         /\ \A i \in 1 .. Len(f) : IsEntry(f[i]) => i <= TailEnd(f)
<1> DEFINE T == {0} \cup {i \in 1 .. Len(f) : IsEntry(f[i])}
<1>1. T \subseteq 0 .. Len(f) /\ T # {} /\ Len(f) \in Nat
  OBVIOUS
<1>2. Largest(T) \in T /\ \A y \in T : Largest(T) >= y
  BY <1>1, LargestIs
<1>3. Largest(T) > 0 => IsEntry(f[Largest(T)])
  BY <1>2
<1> QED BY <1>1, <1>2, <1>3 DEF TailEnd

----------------------------------------------------------------------------
(* BySeq: every set of readable notices can be put in the order of their   *)
(* numbers.                                                                *)

Sorts(q, S) ==
  /\ q \in [1 .. Cardinality(S) -> S]
  /\ \A i, j \in 1 .. Cardinality(S) : i < j => q[i] # q[j] /\ q[i].seq <= q[j].seq

LEMMA SortExtends ==
  ASSUME NEW S, IsFiniteSet(S), NEW x \in S, \A e \in S : e.seq \in Nat /\ x.seq >= e.seq,
         NEW q, Sorts(q, S \ {x})
  PROVE  \E p : Sorts(p, S)
<1> DEFINE n == Cardinality(S)
<1>1. Cardinality(S \ {x}) = n - 1 /\ n \in Nat /\ n - 1 \in Nat
  <2>1. IsFiniteSet(S \ {x}) /\ Cardinality(S \ {x}) = n - 1
    BY FS_RemoveElement
  <2>2. Cardinality(S \ {x}) \in Nat /\ n \in Nat
    BY <2>1, FS_CardinalityType
  <2> QED BY <2>1, <2>2
<1> HIDE DEF n
<1>2. q \in [1 .. n - 1 -> S \ {x}]
      /\ \A i, j \in 1 .. n - 1 : i < j => q[i] # q[j] /\ q[i].seq <= q[j].seq
  BY <1>1 DEF Sorts
<1> DEFINE p == [i \in 1 .. n |-> IF i = n THEN x ELSE q[i]]
<1>3. p \in [1 .. n -> S]
  BY <1>1, <1>2
<1>4. ASSUME NEW i \in 1 .. n, NEW j \in 1 .. n, i < j
      PROVE  p[i] # p[j] /\ p[i].seq <= p[j].seq
  <2>1. i \in 1 .. n - 1 /\ p[i] = q[i] /\ q[i] \in S \ {x}
    BY <1>1, <1>2, <1>4
  <2>2. CASE j = n
    BY <2>1, <2>2
  <2>3. CASE j # n
    BY <1>1, <1>2, <1>4, <2>1, <2>3
  <2> QED BY <2>2, <2>3
<1>5. Sorts(p, S)
  BY <1>3, <1>4 DEF Sorts, n
<1> QED BY <1>5

LEMMA SortExists ==
  ASSUME NEW U, IsFiniteSet(U), \A e \in U : e.seq \in Nat,
         NEW m \in Nat, \A e \in U : e.seq <= m
  PROVE  \E q : Sorts(q, U)
<1> DEFINE T == {S \in SUBSET U : ~ \E q : Sorts(q, S)}
           N == {n \in Nat : \E S \in T : Cardinality(S) = n}
<1>1. SUFFICES ASSUME T # {} PROVE FALSE
  OBVIOUS
<1>2. \A S \in SUBSET U : IsFiniteSet(S) /\ Cardinality(S) \in Nat
  BY FS_Subset, FS_CardinalityType
<1>3. N \subseteq Nat /\ N # {}
  BY <1>1, <1>2
<1>4. PICK n \in N : \A k \in N : <<k, n>> \notin OpToRel(<, Nat)
  BY <1>3, NatLessThanWellFounded, WFMin
<1>5. PICK S \in T : Cardinality(S) = n
  BY <1>4
<1>6. S # {}
  <2>1. ASSUME S = {} PROVE FALSE
    <3>1. Cardinality(S) = 0 /\ 1 .. 0 = {}
      BY <2>1, FS_EmptySet
    <3>2. [i \in {} |-> 0] \in [{} -> S]
      OBVIOUS
    <3>3. Sorts([i \in {} |-> 0], S)
      BY <3>1, <3>2 DEF Sorts
    <3> QED BY <1>5, <3>3
  <2> QED BY <2>1
<1>7. PICK x \in S : \A e \in S : x.seq >= e.seq
  <2> DEFINE Q == {e.seq : e \in S}
  <2>1. Q \subseteq 0 .. m /\ Q # {}
    BY <1>5, <1>6
  <2>2. PICK y \in Q : \A z \in Q : y >= z
    BY <2>1, MaxExists
  <2> QED BY <2>2
<1>8. S \ {x} \in SUBSET U /\ Cardinality(S \ {x}) = n - 1 /\ n - 1 \in Nat /\ n - 1 < n
  BY <1>2, <1>5, FS_RemoveElement
<1>9. n - 1 \notin N
  BY <1>3, <1>4, <1>8 DEF OpToRel
<1>10. S \ {x} \notin T
  BY <1>8, <1>9
<1>11. PICK q : Sorts(q, S \ {x})
  BY <1>8, <1>10
<1>12. \E p : Sorts(p, S)
  <2>1. IsFiniteSet(S) /\ \A e \in S : e.seq \in Nat /\ x.seq >= e.seq
    BY <1>2, <1>5, <1>7
  <2> QED BY <1>11, <2>1, SortExtends
<1> QED BY <1>5, <1>12

LEMMA BySeqSorts ==
  ASSUME NEW S, IsFiniteSet(S), NEW m \in Nat, \A e \in S : e.seq \in 0 .. m
  PROVE  Sorts(BySeq(S), S)
<1>1. \E q : Sorts(q, S)
  BY SortExists
<1> QED BY <1>1 DEF Sorts, BySeq

----------------------------------------------------------------------------
(* The inductive invariant.                                                *)

Writers == Stores \cup {Serve}

\* Entries numbered so far, when m of them are.
Ents(m) ==
  [n : 1 .. m, seq : 1 .. m, by : Writers, kind : {"line", "notice", "mark"}, of : 0 .. m]
Chunks(m) == Ents(m) \cup {Torn}

StoreT(m) ==
  [up : {"down", "open", "closed"},
   pc : {"idle", "opening", "opencut", "tail", "cut", "write"},
   seq : 0 .. m, off : Nat, end : Nat, pending : Seq(Ents(m)),
   op : {"none", "line", "mark", "flush", "close"}, blind : BOOLEAN,
   read : SUBSET Ents(m)]
MailT(m) ==
  [pc : {"off", "idle", "mark", "marking"}, seen : Seq(Chunks(m)), todo : Seq(1 .. m)]

Typed ==
  /\ made \in Nat \ {0}
  /\ file \in Seq(Chunks(made))
  /\ lock \in Writers \cup {Nobody}
  /\ store \in [Stores -> StoreT(made)]
  /\ mail \in [Stores -> MailT(made)]
  /\ serve \in Chunks(made) /\ (serve # Torn => serve.by = Serve)
  /\ landed \subseteq Ents(made) /\ loose \subseteq Ents(made)

\* Who holds the lock is in an operation; an operation has a line to write.
Writing == {"tail", "cut", "write"}
LockHeld ==
  /\ lock = Serve => serve # Torn
  /\ \A p \in Stores :
       /\ Holds(p) => store[p].pc \in Writing
       /\ store[p].pc \in Writing => store[p].pending # <<>>
       /\ store[p].pc \in {"opening", "opencut"} => store[p].up = "down"
       /\ store[p].up = "down" =>
            \/ store[p].pc \in {"opening", "opencut"} /\ store[p].pending = <<>>
            \/ store[p] = NoStore
       /\ mail[p].pc = "mark" => mail[p].todo # <<>>
       /\ mail[p].pc = "marking" => mail[p].todo # <<>>

\* A landed entry stands in the file, and whoever holds the lock has seen
\* the file's end, as long as nobody wrote without it.
Stands(e) ==
  \E i \in 1 .. Len(file) :
    file[i] = e /\ (i = 1 \/ IsEntry(file[i - 1]) \/ e.by = Serve)
TailSeen ==
  bare = {} =>
    /\ \A e \in landed : Stands(e)
    /\ \A p \in Stores : Holds(p) =>
         /\ store[p].pc = "cut" => store[p].end = TailEnd(file)
         /\ store[p].pc = "write" => Len(file) = 0 \/ IsEntry(file[Len(file)])

\* A process numbers upwards: past its lines in the file, then those that
\* wait.
Upwards(p) ==
  /\ \A k \in 1 .. Len(store[p].pending) :
       /\ store[p].pending[k].by = p /\ store[p].pending[k].seq <= store[p].seq
       /\ \A j \in 1 .. k - 1 :
            /\ store[p].pending[j].seq < store[p].pending[k].seq
            /\ store[p].pending[j].n < store[p].pending[k].n
       /\ \A i \in Lines(file, 0) : file[i].by = p =>
            /\ file[i].seq < store[p].pending[k].seq
            /\ file[i].n < store[p].pending[k].n
  /\ store[p] # NoStore =>
       \A i \in Lines(file, 0) : file[i].by = p => file[i].seq <= store[p].seq
  /\ \A e \in store[p].read : e.seq <= store[p].seq
NumbersUp == OrderKept /\ \A p \in Stores : Upwards(p)

\* The number of an entry that was numbered under the lock by a store that
\* had seen the file is above the numbers of all such entries in the file,
\* and the lock is kept until it is there.
Firm(e) == e \notin loose
Above(e) == \A i \in Lines(file, 0) : Firm(file[i]) => file[i].seq < e.seq
FirmApart ==
  \A i, j \in Lines(file, 0) :
    i # j /\ Firm(file[i]) /\ Firm(file[j]) => file[i].seq # file[j].seq
ServeAbove == serve # Torn /\ Firm(serve) => lock = Serve /\ Above(serve)
PendingAbove(p) ==
  \A k \in 1 .. Len(store[p].pending) :
    Firm(store[p].pending[k]) =>
      Holds(p) /\ k = Len(store[p].pending) /\ Above(store[p].pending[k])
\* A store that is not blind has met the firm lines up to its offset.
Covers(p) ==
  ~store[p].blind =>
    /\ store[p].off <= Len(file)
    /\ \A i \in Lines(file, 0) :
         i <= store[p].off /\ Firm(file[i]) => file[i].seq <= store[p].seq
NumbersApart ==
  "cut" \notin bare =>
    FirmApart /\ ServeAbove /\ \A p \in Stores : PendingAbove(p) /\ Covers(p)

IInv == Typed /\ LockHeld /\ TailSeen /\ NumbersUp /\ NumbersApart

----------------------------------------------------------------------------
(* What the file's operators do to a typed file.                           *)

LEMMA EntryOrTorn ==
  ASSUME NEW m \in Nat
  PROVE  /\ \A c \in Chunks(m) : IsEntry(c) <=> c \in Ents(m)
         /\ \A c \in Chunks(m) : ~IsEntry(c) <=> c = Torn
  BY DEF Chunks, Ents, IsEntry, Torn

LEMMA TypesGrow ==
  ASSUME NEW m \in Nat, NEW n \in Nat, m <= n
  PROVE  /\ Ents(m) \subseteq Ents(n) /\ Chunks(m) \subseteq Chunks(n)
         /\ StoreT(m) \subseteq StoreT(n) /\ MailT(m) \subseteq MailT(n)
<1>1. 1 .. m \subseteq 1 .. n /\ 0 .. m \subseteq 0 .. n
  OBVIOUS
<1>2. Ents(m) \subseteq Ents(n)
  BY <1>1 DEF Ents
<1>3. Chunks(m) \subseteq Chunks(n)
  BY <1>2 DEF Chunks
<1>4. /\ Seq(Ents(m)) \subseteq Seq(Ents(n)) /\ Seq(Chunks(m)) \subseteq Seq(Chunks(n))
      /\ Seq(1 .. m) \subseteq Seq(1 .. n)
  BY <1>1, <1>2, <1>3
<1>5. StoreT(m) \subseteq StoreT(n)
  <2> SUFFICES ASSUME NEW s \in StoreT(m) PROVE s \in StoreT(n)
    OBVIOUS
  <2>1. s.seq \in 0 .. n /\ s.pending \in Seq(Ents(n)) /\ s.read \in SUBSET Ents(n)
    BY <1>1, <1>2, <1>4 DEF StoreT
  <2> QED BY <2>1 DEF StoreT
<1>6. MailT(m) \subseteq MailT(n)
  <2> SUFFICES ASSUME NEW s \in MailT(m) PROVE s \in MailT(n)
    OBVIOUS
  <2>1. s.seen \in Seq(Chunks(n)) /\ s.todo \in Seq(1 .. n)
    BY <1>4 DEF MailT
  <2> QED BY <2>1 DEF MailT
<1> QED BY <1>2, <1>3, <1>5, <1>6

LEMMA LinesAre ==
  ASSUME NEW m \in Nat, NEW f \in Seq(Chunks(m)), NEW o \in Nat
  PROVE  /\ \A i \in Lines(f, o) : i \in 1 .. Len(f) /\ f[i] \in Ents(m) /\ i > o
         /\ ReadAfter(f, o) \subseteq Ents(m)
         /\ \A e \in ReadAfter(f, o) : e.seq \in 1 .. m /\ e.seq \in 0 .. m
<1>1. ASSUME NEW i \in Lines(f, o)
      PROVE  i \in 1 .. Len(f) /\ f[i] \in Ents(m) /\ i > o
  <2>1. i \in o + 1 .. Len(f) /\ IsEntry(f[i])
    BY DEF Lines
  <2>2. i \in 1 .. Len(f) /\ i > o
    BY <2>1
  <2>3. f[i] \in Chunks(m)
    BY <2>2
  <2> QED BY <2>1, <2>2, <2>3, EntryOrTorn
<1>2. ReadAfter(f, o) \subseteq Ents(m)
  BY <1>1 DEF ReadAfter
<1>3. \A e \in Ents(m) : e.seq \in 1 .. m /\ e.seq \in 0 .. m
  BY DEF Ents
<1> QED BY <1>1, <1>2, <1>3

LEMMA HeadTail ==
  ASSUME NEW C, NEW s \in Seq(C), s # <<>>
  PROVE  Head(s) \in C /\ Tail(s) \in Seq(C)
  OBVIOUS

LEMMA Appended ==
  ASSUME NEW C, NEW f \in Seq(C), NEW c \in C
  PROVE  /\ Append(f, c) \in Seq(C) /\ Len(Append(f, c)) = Len(f) + 1
         /\ Append(f, c)[Len(f) + 1] = c
         /\ \A i \in 1 .. Len(f) : Append(f, c)[i] = f[i]
  OBVIOUS

LEMMA Truncated ==
  ASSUME NEW m \in Nat, NEW f \in Seq(Chunks(m)), NEW end \in Nat
  PROVE  /\ Truncate(f, end) \in Seq(Chunks(m)) /\ Len(Truncate(f, end)) = end
         /\ \A i \in 1 .. end : Truncate(f, end)[i] = IF i <= Len(f) THEN f[i] ELSE Torn
<1>1. \A i \in 1 .. end : (IF i <= Len(f) THEN f[i] ELSE Torn) \in Chunks(m)
  BY DEF Chunks
<1>2. Truncate(f, end) \in [1 .. end -> Chunks(m)]
  BY <1>1 DEF Truncate
<1>3. Truncate(f, end) \in Seq(Chunks(m)) /\ Len(Truncate(f, end)) = end
  BY <1>2
<1> QED BY <1>3 DEF Truncate

LEMMA Uncut ==
  ASSUME NEW C, NEW f \in Seq(C)
  PROVE  Truncate(f, Len(f)) = f
<1>1. Truncate(f, Len(f)) = [i \in 1 .. Len(f) |-> f[i]]
  BY DEF Truncate
<1> QED BY <1>1

LEMMA TopOfFile ==
  ASSUME Typed
  PROVE  TopSeq(Readable(file), 0) \in 0 .. made /\ Readable(file) \in SUBSET Ents(made)
<1>1. made \in Nat /\ file \in Seq(Chunks(made)) /\ 0 \in Nat
  BY DEF Typed
<1>2. /\ ReadAfter(file, 0) \subseteq Ents(made)
      /\ \A e \in ReadAfter(file, 0) : e.seq \in 0 .. made
  BY <1>1, LinesAre
<1>3. 0 \in 0 .. made
  BY <1>1
<1>4. TopSeq(ReadAfter(file, 0), 0) \in 0 .. made
  BY <1>1, <1>2, <1>3, TopSeqIs
<1> QED BY <1>2, <1>4 DEF Readable

(* catchUp leaves a store of its type, with the numbers it met covered.    *)
LEMMA CaughtUpIs ==
  ASSUME Typed, NEW p \in Stores
  PROVE  /\ CaughtUp(p) \in StoreT(made)
         /\ CaughtUp(p) = [store[p] EXCEPT !.seq = CaughtUp(p).seq,
                             !.off = CaughtUp(p).off, !.pc = CaughtUp(p).pc]
         /\ CaughtUp(p).seq >= store[p].seq /\ CaughtUp(p).pc \in {"write", "tail"}
         /\ CaughtUp(p).off = IF Len(file) > store[p].off THEN Len(file) ELSE store[p].off
         /\ \A e \in ReadAfter(file, store[p].off) : CaughtUp(p).seq >= e.seq
<1> DEFINE s == store[p]
           top == TopSeq(ReadAfter(file, s.off), s.seq)
           off == IF Len(file) > s.off THEN Len(file) ELSE s.off
           pc == IF s.up = "closed" THEN "write" ELSE "tail"
<1>1. s \in StoreT(made) /\ made \in Nat /\ file \in Seq(Chunks(made)) /\ Len(file) \in Nat
  BY DEF Typed
<1>2. s.seq \in 0 .. made /\ s.off \in Nat
  BY <1>1 DEF StoreT
<1>3. \A e \in ReadAfter(file, s.off) : e.seq \in 0 .. made
  BY <1>1, <1>2, LinesAre
<1>4. /\ top \in 0 .. made /\ top >= s.seq
      /\ \A e \in ReadAfter(file, s.off) : top >= e.seq
  BY <1>1, <1>2, <1>3, TopSeqIs
<1>5. CaughtUp(p) = [s EXCEPT !.seq = top, !.off = off, !.pc = pc]
  BY DEF CaughtUp
<1>6. off \in Nat /\ pc \in {"write", "tail"}
  BY <1>1, <1>2
<1> HIDE DEF top, off, pc
<1>7. CaughtUp(p).seq = top /\ CaughtUp(p).off = off /\ CaughtUp(p).pc = pc
  BY <1>1, <1>5 DEF StoreT
<1>8. CaughtUp(p) \in StoreT(made)
  BY <1>1, <1>4, <1>5, <1>6 DEF StoreT
<1> QED BY <1>4, <1>5, <1>6, <1>7, <1>8 DEF off, s

(* The new entry of Append and what it does to the store that numbers it.  *)
LEMMA Numbered ==
  ASSUME Typed, NEW p \in Stores, NEW op \in {"line", "mark"}, NEW of \in 0 .. made,
         NumberEntry(p, op, of)
  PROVE  \E e \in Ents(made + 1) :
           /\ e.n = made + 1 /\ e.by = p /\ e.seq = CaughtUp(p).seq + 1
           /\ store' = [store EXCEPT ![p] =
                [CaughtUp(p) EXCEPT !.seq = e.seq, !.op = op, !.pending = Append(@, e)]]
           /\ made' = made + 1
           /\ loose' = IF lock' = p /\ ~CaughtUp(p).blind THEN loose ELSE loose \cup {e}
<1> DEFINE e == Entry(made + 1, CaughtUp(p).seq + 1, p, op, of)
<1>1. CaughtUp(p).seq \in 0 .. made /\ made \in Nat
  BY CaughtUpIs DEF StoreT, Typed
<1>2. e \in Ents(made + 1)
  BY <1>1 DEF Entry, Ents, Writers
<1>3. e.n = made + 1 /\ e.by = p /\ e.seq = CaughtUp(p).seq + 1
  BY DEF Entry
<1>4. /\ store' = [store EXCEPT ![p] =
                [CaughtUp(p) EXCEPT !.seq = e.seq, !.op = op, !.pending = Append(@, e)]]
      /\ made' = made + 1
      /\ loose' = IF lock' = p /\ ~CaughtUp(p).blind THEN loose ELSE loose \cup {e}
  BY DEF NumberEntry
<1> QED BY <1>2, <1>3, <1>4

LEMMA NumberedTyped ==
  ASSUME Typed, NEW p \in Stores, NEW op \in {"line", "mark"}, NEW of \in 0 .. made,
         NumberEntry(p, op, of)
  PROVE  /\ made' = made + 1 /\ made' \in Nat \ {0}
         /\ store' \in [Stores -> StoreT(made')] /\ loose' \subseteq Ents(made')
         /\ lock' \in Writers \cup {Nobody}
<1>1. PICK e \in Ents(made + 1) :
           /\ e.n = made + 1 /\ e.by = p /\ e.seq = CaughtUp(p).seq + 1
           /\ store' = [store EXCEPT ![p] =
                [CaughtUp(p) EXCEPT !.seq = e.seq, !.op = op, !.pending = Append(@, e)]]
           /\ made' = made + 1
           /\ loose' = IF lock' = p /\ ~CaughtUp(p).blind THEN loose ELSE loose \cup {e}
  BY Numbered
<1>2. made \in Nat /\ store \in [Stores -> StoreT(made)] /\ loose \subseteq Ents(made)
  BY DEF Typed
<1>3. StoreT(made) \subseteq StoreT(made + 1) /\ Ents(made) \subseteq Ents(made + 1)
  BY <1>2, TypesGrow
<1>4. CaughtUp(p) \in StoreT(made + 1) /\ CaughtUp(p).seq \in 0 .. made
  BY <1>3, CaughtUpIs DEF StoreT
<1>5. Append(CaughtUp(p).pending, e) \in Seq(Ents(made + 1)) /\ e.seq \in 0 .. made + 1
  BY <1>1, <1>2, <1>4 DEF StoreT
<1>6. [CaughtUp(p) EXCEPT !.seq = e.seq, !.op = op, !.pending = Append(@, e)]
        \in StoreT(made + 1)
  BY <1>4, <1>5 DEF StoreT
<1>7. store' \in [Stores -> StoreT(made + 1)]
  BY <1>1, <1>2, <1>3, <1>6
<1>8. lock' \in Writers \cup {Nobody}
  BY DEF NumberEntry, Lock, Typed, Writers
<1> QED BY <1>1, <1>2, <1>3, <1>7, <1>8


LEMMA EmptyTyped ==
  ASSUME NEW m \in Nat
  PROVE  NoStore \in StoreT(m) /\ NoMail \in MailT(m)
<1>1. <<>> \in Seq(Ents(m)) /\ <<>> \in Seq(Chunks(m)) /\ <<>> \in Seq(1 .. m)
      /\ {} \in SUBSET Ents(m) /\ 0 \in 0 .. m /\ 0 \in Nat
  OBVIOUS
<1>2. NoStore \in StoreT(m)
  BY <1>1 DEF NoStore, StoreT
<1>3. NoMail \in MailT(m)
  BY <1>1 DEF NoMail, MailT
<1> QED BY <1>2, <1>3

LEMMA OpenedTyped ==
  ASSUME Typed, NEW p \in Stores, NEW end \in Nat, Opened(p, end)
  PROVE  store' \in [Stores -> StoreT(made)] /\ mail' \in [Stores -> MailT(made)]
<1>1. store \in [Stores -> StoreT(made)] /\ mail \in [Stores -> MailT(made)]
  BY DEF Typed
<1> DEFINE unseen == Readable(Truncate(file, end)) # store[p].read
<1>2. unseen \in BOOLEAN
  OBVIOUS
<1> DEFINE s == [store[p] EXCEPT !.up = "open", !.pc = "idle", !.off = end,
                                 !.read = {}, !.blind = unseen]
<1>3. /\ store' = [store EXCEPT ![p] = s]
      /\ mail' = [mail EXCEPT ![p].pc = "idle"]
  BY DEF Opened
<1> HIDE DEF unseen
<1>6. s \in StoreT(made)
  BY <1>1, <1>2 DEF StoreT
<1> HIDE DEF s
<1>4. store' \in [Stores -> StoreT(made)]
  BY <1>1, <1>3, <1>6
<1>5. mail' \in [Stores -> MailT(made)]
  BY <1>1, <1>3 DEF MailT
<1> QED BY <1>4, <1>5

LEMMA FileFinite ==
  ASSUME NEW C, NEW f \in Seq(C)
  PROVE  IsFiniteSet(Readable(f))
<1>1. IsFiniteSet(1 .. Len(f)) /\ Lines(f, 0) \subseteq 1 .. Len(f)
  BY FS_Interval DEF Lines
<1>2. IsFiniteSet(Lines(f, 0))
  BY <1>1, FS_Subset
<1> DEFINE g == [i \in Lines(f, 0) |-> f[i]]
<1>3. g \in Surjection(Lines(f, 0), Readable(f))
  BY DEF Readable, ReadAfter, Surjection
<1> QED BY <1>2, <1>3, FS_Surjection

LEMMA UndeliveredSorts ==
  ASSUME Typed
  PROVE  LET S == Undelivered(file)
         IN /\ BySeq(S) \in [1 .. Cardinality(S) -> S] /\ Cardinality(S) \in Nat
            /\ S \subseteq Ents(made)
<1> DEFINE S == Undelivered(file)
<1>1. file \in Seq(Chunks(made)) /\ made \in Nat
  BY DEF Typed
<1>2. S \subseteq Readable(file)
  BY DEF Undelivered
<1>3. IsFiniteSet(S) /\ Cardinality(S) \in Nat
  BY <1>1, <1>2, FileFinite, FS_Subset, FS_CardinalityType
<1>4. Readable(file) \subseteq Ents(made) /\ \A e \in Readable(file) : e.seq \in 0 .. made
  BY <1>1, LinesAre DEF Readable
<1>5. Sorts(BySeq(S), S)
  BY <1>1, <1>2, <1>3, <1>4, BySeqSorts
<1> QED BY <1>2, <1>3, <1>4, <1>5 DEF Sorts

(* Every variable keeps its type.                                           *)
LEMMA TypedStep ==
  ASSUME IInv, [Next]_vars
  PROVE  Typed'
<1>a. /\ file \in Seq(Chunks(made)) /\ made \in Nat /\ made \in Nat \ {0}
      /\ lock \in Writers \cup {Nobody} /\ store \in [Stores -> StoreT(made)]
      /\ mail \in [Stores -> MailT(made)] /\ serve \in Chunks(made)
      /\ landed \subseteq Ents(made) /\ loose \subseteq Ents(made) /\ Typed
  BY DEF IInv, Typed
<1>b. LockHeld
  BY DEF IInv
<1>c. NoStore \in StoreT(made) /\ NoMail \in MailT(made)
  BY <1>a, EmptyTyped
<1> USE <1>a
<1>1. ASSUME NEW p \in Stores, OpenReads(p) PROVE Typed'
  <2>1. TopSeq(Readable(file), 0) \in 0 .. made /\ Readable(file) \in SUBSET Ents(made)
    BY TopOfFile
  <2> DEFINE s == [store[p] EXCEPT !.pc = "opening", !.read = Readable(file),
                                   !.seq = TopSeq(Readable(file), 0)]
  <2>2. store' = [store EXCEPT ![p] = s]
    BY <1>1 DEF OpenReads
  <2>5. s \in StoreT(made)
    BY <1>a, <2>1 DEF StoreT
  <2> HIDE DEF s
  <2>3. store' \in [Stores -> StoreT(made)]
    BY <1>a, <2>2, <2>5
  <2>4. UNCHANGED <<file, lock, mail, serve, made, landed, loose>>
    BY <1>1 DEF OpenReads
  <2> QED BY <2>3, <2>4 DEF Typed
<1>2. ASSUME NEW p \in Stores, OpenLooks(p) PROVE Typed'
  <2>1. TailEnd(file) \in Nat
    BY <1>a, TailEndIs
  <2>2. UNCHANGED <<file, lock, serve, made, landed, loose>>
    BY <1>2 DEF OpenLooks
  <2>3. CASE TailEnd(file) = Len(file)
    <3>1. Opened(p, TailEnd(file))
      BY <1>2, <2>3 DEF OpenLooks
    <3> QED BY <2>1, <2>2, <3>1, OpenedTyped DEF Typed
  <2>4. CASE TailEnd(file) # Len(file)
    <3> DEFINE s == [store[p] EXCEPT !.pc = "opencut", !.end = TailEnd(file)]
    <3>1. store' = [store EXCEPT ![p] = s] /\ UNCHANGED mail
      BY <1>2, <2>4 DEF OpenLooks
    <3>3. s \in StoreT(made)
      BY <1>a, <2>1 DEF StoreT
    <3> HIDE DEF s
    <3>2. store' \in [Stores -> StoreT(made)]
      BY <1>a, <3>1, <3>3
    <3> QED BY <2>2, <3>1, <3>2 DEF Typed
  <2> QED BY <2>3, <2>4
<1>3. ASSUME NEW p \in Stores, OpenCuts(p) PROVE Typed'
  <2>1. store[p].end \in Nat
    BY <1>a DEF StoreT
  <2>2. /\ file' = Truncate(file, store[p].end) /\ Opened(p, store[p].end)
        /\ UNCHANGED <<lock, serve, made, landed, loose>>
    BY <1>3 DEF OpenCuts
  <2>3. file' \in Seq(Chunks(made))
    BY <1>a, <2>1, <2>2, Truncated
  <2> QED BY <2>1, <2>2, <2>3, OpenedTyped DEF Typed
<1>4. ASSUME NEW p \in Stores, AppendLine(p) PROVE Typed'
  <2>1. 0 \in 0 .. made
    BY <1>a
  <2>2. /\ made' = made + 1 /\ made' \in Nat \ {0}
        /\ store' \in [Stores -> StoreT(made')] /\ loose' \subseteq Ents(made')
        /\ lock' \in Writers \cup {Nobody}
    BY <1>4, <2>1, NumberedTyped DEF AppendLine
  <2>3. UNCHANGED <<file, serve, landed>>
    BY <1>4 DEF AppendLine
  <2>4. /\ Ents(made) \subseteq Ents(made') /\ Chunks(made) \subseteq Chunks(made')
        /\ MailT(made) \subseteq MailT(made')
    BY <1>a, <2>2, TypesGrow
  <2>5. file' \in Seq(Chunks(made')) /\ serve' \in Chunks(made') /\ landed' \subseteq Ents(made')
    BY <1>a, <2>3, <2>4
  <2>6. serve' # Torn => serve'.by = Serve
    BY <2>3 DEF Typed
  <2>7. mail' \in [Stores -> MailT(made')]
    BY <1>4, <1>a, <2>4 DEF AppendLine
  <2> QED BY <2>2, <2>5, <2>6, <2>7 DEF Typed
<1>5. ASSUME NEW p \in Stores, Flush(p) PROVE Typed'
  <2>1. store' = [store EXCEPT ![p] = [CaughtUp(p) EXCEPT !.op = "flush"]]
    BY <1>5 DEF Flush
  <2>2. [CaughtUp(p) EXCEPT !.op = "flush"] \in StoreT(made)
    BY CaughtUpIs DEF StoreT
  <2>3. store' \in [Stores -> StoreT(made)]
    BY <1>a, <2>1, <2>2
  <2>4. lock' \in Writers \cup {Nobody}
    BY <1>5 DEF Flush, Lock, Typed, Writers
  <2>5. UNCHANGED <<file, mail, serve, made, landed, loose>>
    BY <1>5 DEF Flush
  <2> QED BY <2>3, <2>4, <2>5 DEF Typed
<1>6. ASSUME NEW p \in Stores, Close(p) PROVE Typed'
  <2> DEFINE s == [store[p] EXCEPT !.up = "closed"]
             t == [store[p] EXCEPT !.pc = "tail", !.op = "close"]
  <2>1. store' = [store EXCEPT ![p] = IF store[p].pending = <<>> THEN s ELSE t]
    BY <1>6 DEF Close
  <2>5. s \in StoreT(made) /\ t \in StoreT(made)
    BY <1>a DEF StoreT
  <2> HIDE DEF s, t
  <2>2. store' \in [Stores -> StoreT(made)]
    BY <1>a, <2>1, <2>5
  <2>3. mail' \in [Stores -> MailT(made)]
    BY <1>6, <1>a, <1>c DEF Close
  <2>4. UNCHANGED <<file, lock, serve, made, landed, loose>>
    BY <1>6 DEF Close
  <2> QED BY <2>2, <2>3, <2>4 DEF Typed
<1>7. ASSUME NEW p \in Stores, LookAtTail(p) PROVE Typed'
  <2>1. TailEnd(file) \in Nat
    BY <1>a, TailEndIs
  <2> DEFINE off == IF TailEnd(file) = Len(file) /\ TailEnd(file) < store[p].off
                    THEN TailEnd(file) ELSE store[p].off
             pc == IF TailEnd(file) = Len(file) THEN "write" ELSE "cut"
             s == [store[p] EXCEPT !.pc = pc, !.end = TailEnd(file), !.off = off]
  <2>2. store' = [store EXCEPT ![p] = s]
    BY <1>7, Zenon DEF LookAtTail
  <2>5. off \in Nat /\ pc \in {"write", "cut"}
    BY <1>a, <2>1 DEF StoreT
  <2> HIDE DEF off, pc
  <2>6. s \in StoreT(made)
    BY <1>a, <2>1, <2>5 DEF StoreT
  <2> HIDE DEF s
  <2>3. store' \in [Stores -> StoreT(made)]
    BY <1>a, <2>2, <2>6
  <2>4. UNCHANGED <<file, lock, mail, serve, made, landed, loose>>
    BY <1>7 DEF LookAtTail
  <2> QED BY <2>3, <2>4 DEF Typed
<1>8. ASSUME NEW p \in Stores, CutTail(p) PROVE Typed'
  <2>1. store[p].end \in Nat
    BY <1>a DEF StoreT
  <2>2. /\ file' = Truncate(file, store[p].end)
        /\ UNCHANGED <<lock, mail, serve, made, landed, loose>>
    BY <1>8 DEF CutTail
  <2>3. file' \in Seq(Chunks(made))
    BY <1>a, <2>1, <2>2, Truncated
  <2>4. store' \in [Stores -> StoreT(made)]
    <3> DEFINE mine == [store[p] EXCEPT !.pc = "write",
                          !.off = IF store[p].end < @ THEN store[p].end ELSE @]
               others(q) == IF store[p].end < store[q].off
                            THEN [store[q] EXCEPT !.blind = TRUE] ELSE store[q]
    <3>1. store' = [q \in Stores |-> IF q = p THEN mine ELSE others(q)]
      BY <1>8 DEF CutTail
    <3>2. mine \in StoreT(made)
      BY <1>a, <2>1 DEF StoreT
    <3>3. ASSUME NEW q \in Stores PROVE others(q) \in StoreT(made)
      <4>1. store[q] \in StoreT(made)
        BY <1>a
      <4>2. [store[q] EXCEPT !.blind = TRUE] \in StoreT(made)
        BY <4>1 DEF StoreT
      <4> QED BY <4>1, <4>2
    <3> HIDE DEF mine, others
    <3> QED BY <3>1, <3>2, <3>3
  <2> QED BY <2>2, <2>3, <2>4 DEF Typed
<1>9. ASSUME NEW p \in Stores, Write(p) PROVE Typed'
  <2> DEFINE unseen == store[p].blind \/ store[p].off # Len(file)
             s == [store[p] EXCEPT !.pending = Tail(@), !.off = @ + 1, !.blind = unseen]
             e == Head(store[p].pending)
  <2>1. /\ file' = Append(file, e) /\ landed' = landed \cup {e}
        /\ store' = [store EXCEPT ![p] = IF s.pending = <<>> THEN Returned(s) ELSE s]
        /\ lock' = Nobody \/ lock' = lock
        /\ UNCHANGED <<mail, serve, made, loose>>
    BY <1>9 DEF Write, Unlock
  <2>2. store[p].pending \in Seq(Ents(made)) /\ store[p].pending # <<>>
    BY <1>9, <1>a, <1>b DEF Write, LockHeld, Writing, StoreT
  <2>3. e \in Ents(made) /\ Tail(store[p].pending) \in Seq(Ents(made))
    BY <2>2
  <2>4. s \in StoreT(made)
    <3>1. PICK b \in BOOLEAN : b = unseen
      BY Zenon
    <3>2. s = [store[p] EXCEPT !.pending = Tail(@), !.off = @ + 1, !.blind = b]
      BY <3>1, Zenon
    <3> DEFINE rest == Tail(store[p].pending)
               off == store[p].off + 1
    <3>4. rest \in Seq(Ents(made)) /\ off \in Nat
      BY <1>a, <2>3 DEF StoreT
    <3> HIDE DEF rest, off
    <3>3. [store[p] EXCEPT !.pending = rest, !.off = off, !.blind = b] \in StoreT(made)
      BY <1>a, <3>4 DEF StoreT
    <3> QED BY <3>2, <3>3, Zenon DEF rest, off
  <2> HIDE DEF s
  <2>5. Returned(s) \in StoreT(made)
    BY <2>4 DEF Returned, StoreT
  <2>6. store' \in [Stores -> StoreT(made)]
    BY <1>a, <2>1, <2>4, <2>5
  <2>7. e \in Chunks(made)
    BY <2>3 DEF Chunks
  <2> HIDE DEF e
  <2>8. file' \in Seq(Chunks(made))
    BY <1>a, <2>1, <2>7, Appended
  <2> QED BY <2>1, <2>3, <2>6, <2>8 DEF Typed
<1>10. ASSUME NEW p \in Stores, WriteFails(p) PROVE Typed'
  <2>1. /\ file' \in {file, Append(file, Torn)} /\ loose' = loose \cup Waiting(p)
        /\ store' = [store EXCEPT ![p] = Returned(@)]
        /\ lock' = Nobody \/ lock' = lock
        /\ UNCHANGED <<mail, serve, made, landed>>
    BY <1>10 DEF WriteFails, Unlock
  <2>2. store' \in [Stores -> StoreT(made)]
    <3>1. Returned(store[p]) \in StoreT(made)
      BY <1>a DEF Returned, StoreT
    <3> QED BY <1>a, <2>1, <3>1
  <2>3. file' \in Seq(Chunks(made))
    <3>1. Torn \in Chunks(made)
      BY DEF Chunks
    <3> QED BY <1>a, <2>1, <3>1, Appended
  <2>4. Waiting(p) \subseteq Ents(made)
    <3>1. store[p].pending \in Seq(Ents(made))
      BY <1>a DEF StoreT
    <3> QED BY <3>1 DEF Waiting
  <2> QED BY <2>1, <2>2, <2>3, <2>4 DEF Typed
<1>11. ASSUME NEW p \in Stores, Exit(p) PROVE Typed'
  <2>1. /\ store' = [store EXCEPT ![p] = NoStore] /\ mail' = [mail EXCEPT ![p] = NoMail]
        /\ lock' = Nobody \/ lock' = lock
        /\ UNCHANGED <<file, serve, made, landed, loose>>
    BY <1>11 DEF Exit, Gone, Unlock
  <2> QED BY <1>a, <1>c, <2>1 DEF Typed
<1>12. ASSUME NEW p \in Stores, Crash(p) PROVE Typed'
  <2>1. /\ store' = [store EXCEPT ![p] = NoStore] /\ mail' = [mail EXCEPT ![p] = NoMail]
        /\ lock' = Nobody \/ lock' = lock
        /\ file' \in {file, Append(file, Torn)}
        /\ UNCHANGED <<serve, made, landed, loose>>
    BY <1>12 DEF Crash, Gone, Unlock
  <2>3. file' \in Seq(Chunks(made))
    <3>1. Torn \in Chunks(made)
      BY DEF Chunks
    <3> QED BY <1>a, <2>1, <3>1, Appended
  <2> QED BY <1>a, <1>c, <2>1, <2>3 DEF Typed
<1>13. ASSUME NEW p \in Stores, MailLooks(p) PROVE Typed'
  <2> DEFINE S == Undelivered(file)
             todo == BySeq(S)
             ns == [i \in DOMAIN todo |-> todo[i].n]
  <2>1. /\ mail' = [mail EXCEPT ![p] = [pc |-> IF todo = <<>> THEN "idle" ELSE "mark",
                                        seen |-> file, todo |-> ns]]
        /\ UNCHANGED <<file, lock, store, serve, made, landed, loose>>
    BY <1>13 DEF MailLooks
  <2>2. /\ todo \in [1 .. Cardinality(S) -> S] /\ Cardinality(S) \in Nat /\ S \subseteq Ents(made)
    BY UndeliveredSorts
  <2> HIDE DEF todo, S
  <2>3. ns \in [1 .. Cardinality(S) -> 1 .. made]
    BY <2>2 DEF Ents
  <2>4. ns \in Seq(1 .. made)
    BY <2>2, <2>3
  <2> HIDE DEF ns
  <2>5. [pc |-> IF todo = <<>> THEN "idle" ELSE "mark", seen |-> file, todo |-> ns] \in MailT(made)
    BY <1>a, <2>4 DEF MailT
  <2> QED BY <1>a, <2>1, <2>5 DEF Typed
<1>14. ASSUME NEW p \in Stores, MailMarks(p) PROVE Typed'
  <2>1. Head(mail[p].todo) \in 0 .. made
    <3>1. mail[p].todo \in Seq(1 .. made) /\ mail[p].todo # <<>>
      BY <1>14, <1>a, <1>b DEF MailMarks, LockHeld, MailT
    <3>2. Head(mail[p].todo) \in 1 .. made
      BY <3>1
    <3> QED BY <3>2
  <2>2. /\ made' = made + 1 /\ made' \in Nat \ {0}
        /\ store' \in [Stores -> StoreT(made')] /\ loose' \subseteq Ents(made')
        /\ lock' \in Writers \cup {Nobody}
    BY <1>14, <2>1, NumberedTyped DEF MailMarks
  <2>3. UNCHANGED <<file, serve, landed>>
    BY <1>14 DEF MailMarks
  <2>4. /\ Ents(made) \subseteq Ents(made') /\ Chunks(made) \subseteq Chunks(made')
        /\ MailT(made) \subseteq MailT(made')
    BY <1>a, <2>2, TypesGrow
  <2>5. file' \in Seq(Chunks(made')) /\ serve' \in Chunks(made') /\ landed' \subseteq Ents(made')
    BY <1>a, <2>3, <2>4
  <2>6. serve' # Torn => serve'.by = Serve
    BY <2>3 DEF Typed
  <2>7. mail' = [mail EXCEPT ![p].pc = "marking"]
    BY <1>14 DEF MailMarks
  <2>8. mail' \in [Stores -> MailT(made)]
    BY <1>a, <2>7 DEF MailT
  <2>9. mail' \in [Stores -> MailT(made')]
    BY <2>4, <2>8
  <2> QED BY <2>2, <2>5, <2>6, <2>9 DEF Typed
<1>15. ASSUME NEW p \in Stores, MailTells(p) PROVE Typed'
  <2> DEFINE pc == IF Tail(mail[p].todo) = <<>> THEN "idle" ELSE "mark"
             m == [mail[p] EXCEPT !.todo = Tail(@), !.pc = pc]
  <2>1. /\ mail' = [mail EXCEPT ![p] = m]
        /\ UNCHANGED <<file, lock, store, serve, made, landed, loose>>
    BY <1>15, Zenon DEF MailTells
  <2>2. mail[p].todo \in Seq(1 .. made) /\ mail[p].todo # <<>>
    BY <1>15, <1>a, <1>b DEF MailTells, LockHeld, MailT
  <2>3. Tail(mail[p].todo) \in Seq(1 .. made) /\ pc \in {"idle", "mark"}
    <3> DEFINE T == 1 .. made
    <3>1. mail[p].todo \in Seq(T)
      BY <2>2
    <3> HIDE DEF T
    <3>2. Tail(mail[p].todo) \in Seq(T)
      BY <2>2, <3>1
    <3> QED BY <3>2 DEF T
  <2> HIDE DEF pc
  <2>5. m \in MailT(made)
    BY <1>a, <2>3 DEF MailT
  <2> HIDE DEF m
  <2>4. mail' \in [Stores -> MailT(made)]
    BY <1>a, <2>1, <2>5
  <2> QED BY <2>1, <2>4 DEF Typed
<1>16. CASE ServeStarts
  <2>1. TopSeq(Readable(file), 0) \in 0 .. made
    BY <1>a, LinesAre, TopSeqIs DEF Readable
  <2>2. /\ made' = made + 1 /\ made' \in Nat \ {0}
        /\ serve' = Entry(made + 1, TopSeq(Readable(file), 0) + 1, Serve, "notice", 0)
        /\ loose' = loose \/ loose' = loose \cup {serve'}
        /\ lock' \in Writers \cup {Nobody}
        /\ UNCHANGED <<file, store, mail, landed>>
    BY <1>16, <1>a DEF ServeStarts, Lock, Writers
  <2>3. serve' \in Ents(made') /\ serve'.by = Serve
    BY <1>a, <2>1, <2>2 DEF Entry, Ents, Writers
  <2>4. /\ Ents(made) \subseteq Ents(made') /\ Chunks(made) \subseteq Chunks(made')
        /\ MailT(made) \subseteq MailT(made') /\ StoreT(made) \subseteq StoreT(made')
    BY <1>a, <2>2, TypesGrow
  <2>5. /\ file' \in Seq(Chunks(made')) /\ serve' \in Chunks(made') /\ landed' \subseteq Ents(made')
        /\ loose' \subseteq Ents(made')
    BY <1>a, <2>2, <2>3, <2>4 DEF Chunks
  <2>6. store' \in [Stores -> StoreT(made')] /\ mail' \in [Stores -> MailT(made')]
    BY <1>a, <2>2, <2>4
  <2> QED BY <2>2, <2>3, <2>5, <2>6 DEF Typed
<1>17. CASE ServeWrites
  <2>1. /\ file' = Append(file, serve) /\ landed' = landed \cup {serve} /\ serve # Torn
        /\ serve' = Torn /\ lock' \in {Nobody, lock}
        /\ UNCHANGED <<store, mail, made, loose>>
    BY <1>17 DEF ServeWrites, NoServe, Unlock
  <2>2. serve \in Ents(made) /\ Torn \in Chunks(made)
    BY <1>a, <2>1 DEF Chunks
  <2>3. file' \in Seq(Chunks(made))
    BY <1>a, <2>1, Appended
  <2> QED BY <2>1, <2>2, <2>3 DEF Typed
<1>18. CASE ServeFails
  <2>1. /\ file' \in {file, Append(file, Torn)}
        /\ serve' = Torn /\ lock' \in {Nobody, lock}
        /\ UNCHANGED <<store, mail, made, landed, loose>>
    BY <1>18 DEF ServeFails, NoServe, Unlock
  <2>2. Torn \in Chunks(made)
    BY DEF Chunks
  <2>3. file' \in Seq(Chunks(made))
    <3>1. Torn \in Chunks(made)
      BY DEF Chunks
    <3> QED BY <1>a, <2>1, <3>1, Appended
  <2> QED BY <2>1, <2>2, <2>3 DEF Typed
<1>19. CASE UNCHANGED vars
  BY <1>19 DEF vars, Typed
<1> QED
  BY <1>1, <1>2, <1>3, <1>4, <1>5, <1>6, <1>7, <1>8, <1>9, <1>10, <1>11, <1>12, <1>13, <1>14, <1>15, <1>16, <1>17, <1>18, <1>19 DEF Next, Proceed, Deliver

----------------------------------------------------------------------------
(* What each action does to the fields the invariant speaks of.            *)

OthersSame(p) == \A q \in Stores \ {p} : store'[q] = store[q]

LEMMA OpenReadsDoes ==
  ASSUME Typed, NEW p \in Stores, OpenReads(p)
  PROVE  /\ store[p].up = "down" /\ store[p].pc = "idle" /\ OthersSame(p)
         /\ store'[p].up = "down" /\ store'[p].pc = "opening"
         /\ store'[p].pending = store[p].pending /\ store'[p].off = store[p].off
         /\ store'[p].seq = TopSeq(Readable(file), 0) /\ store'[p].read = Readable(file)
         /\ UNCHANGED <<file, lock, mail, serve, made, landed, loose, bare>>
<1>1. store' = [store EXCEPT ![p] = [store[p] EXCEPT
        !.pc = "opening", !.read = Readable(file), !.seq = TopSeq(Readable(file), 0)]]
  BY DEF OpenReads
<1>2. store \in [Stores -> StoreT(made)]
  BY DEF Typed
<1> QED BY <1>1, <1>2 DEF OpenReads, OthersSame, StoreT

LEMMA OpenedDoes ==
  ASSUME Typed, NEW p \in Stores, NEW end \in Nat, Opened(p, end)
  PROVE  /\ OthersSame(p)
         /\ store'[p].up = "open" /\ store'[p].pc = "idle"
         /\ store'[p].pending = store[p].pending /\ store'[p].off = end
         /\ store'[p].seq = store[p].seq /\ store'[p].read = {}
         /\ ~store'[p].blind => Readable(Truncate(file, end)) = store[p].read
         /\ \A q \in Stores : mail'[q].todo = mail[q].todo
         /\ \A q \in Stores : mail'[q].pc = IF q = p THEN "idle" ELSE mail[q].pc
<1>1. store \in [Stores -> StoreT(made)] /\ mail \in [Stores -> MailT(made)]
  BY DEF Typed
<1>2. PICK b \in BOOLEAN : b = (Readable(Truncate(file, end)) # store[p].read)
  BY Zenon
<1>3. store' = [store EXCEPT ![p] = [store[p] EXCEPT !.up = "open", !.pc = "idle",
                  !.off = end, !.read = {}, !.blind = b]]
  BY <1>2, Zenon DEF Opened
<1>4. mail' = [mail EXCEPT ![p].pc = "idle"]
  BY DEF Opened
<1>5. store'[p] = [store[p] EXCEPT !.up = "open", !.pc = "idle",
                     !.off = end, !.read = {}, !.blind = b]
  BY <1>1, <1>3
<1>6. store'[p].blind = b
  BY <1>1, <1>5 DEF StoreT
<1>7. ~store'[p].blind => Readable(Truncate(file, end)) = store[p].read
  BY <1>2, <1>6, Zenon
<1>8. /\ store'[p].up = "open" /\ store'[p].pc = "idle"
      /\ store'[p].pending = store[p].pending /\ store'[p].off = end
      /\ store'[p].seq = store[p].seq /\ store'[p].read = {}
  BY <1>1, <1>5 DEF StoreT
<1>9. OthersSame(p)
  BY <1>1, <1>3 DEF OthersSame
<1>10. \A q \in Stores : mail'[q].todo = mail[q].todo
  BY <1>1, <1>4 DEF MailT
<1>11. \A q \in Stores : mail'[q].pc = IF q = p THEN "idle" ELSE mail[q].pc
  BY <1>1, <1>4 DEF MailT
<1> QED BY <1>7, <1>8, <1>9, <1>10, <1>11

LEMMA OpenLooksDoes ==
  ASSUME Typed, NEW p \in Stores, OpenLooks(p)
  PROVE  /\ store[p].pc = "opening" /\ OthersSame(p)
         /\ store'[p].pending = store[p].pending /\ store'[p].seq = store[p].seq
         /\ UNCHANGED <<file, lock, serve, made, landed, loose, bare>>
         /\ \/ /\ store'[p].up = store[p].up /\ store'[p].pc = "opencut"
               /\ store'[p].off = store[p].off /\ store'[p].blind = store[p].blind
               /\ store'[p].read = store[p].read /\ UNCHANGED mail
            \/ /\ Opened(p, Len(file))
               /\ store'[p].up = "open" /\ store'[p].pc = "idle" /\ store'[p].read = {}
               /\ store'[p].off = Len(file)
               /\ ~store'[p].blind => Readable(file) = store[p].read
<1>1. store \in [Stores -> StoreT(made)] /\ file \in Seq(Chunks(made)) /\ Len(file) \in Nat
  BY DEF Typed
<1>2. store[p].pc = "opening" /\ UNCHANGED <<file, lock, serve, made, landed, loose, bare>>
  BY DEF OpenLooks
<1>3. CASE TailEnd(file) = Len(file)
  <2>1. Opened(p, Len(file))
    BY <1>3 DEF OpenLooks
  <2>2. Truncate(file, Len(file)) = file
    BY <1>1, Uncut
  <2> QED BY <1>1, <1>2, <2>1, <2>2, OpenedDoes
<1>4. CASE TailEnd(file) # Len(file)
  <2>1. /\ store' = [store EXCEPT ![p] = [store[p] EXCEPT !.pc = "opencut", !.end = TailEnd(file)]]
        /\ UNCHANGED mail
    BY <1>4 DEF OpenLooks
  <2> QED BY <1>1, <1>2, <2>1 DEF StoreT, OthersSame
<1> QED BY <1>3, <1>4

LEMMA OpenCutsDoes ==
  ASSUME Typed, NEW p \in Stores, OpenCuts(p)
  PROVE  /\ store[p].pc = "opencut" /\ store[p].end \in Nat /\ Opened(p, store[p].end)
         /\ OthersSame(p)
         /\ store'[p].up = "open" /\ store'[p].pc = "idle" /\ store'[p].read = {}
         /\ store'[p].pending = store[p].pending /\ store'[p].seq = store[p].seq
         /\ file' = Truncate(file, store[p].end) /\ "cut" \in bare' /\ bare' # {}
         /\ UNCHANGED <<lock, serve, made, landed, loose>>
<1>1. store[p].end \in Nat
  BY DEF Typed, StoreT
<1>2. /\ store[p].pc = "opencut" /\ Opened(p, store[p].end)
      /\ file' = Truncate(file, store[p].end) /\ bare' = bare \cup {"cut"}
      /\ UNCHANGED <<lock, serve, made, landed, loose>>
  BY DEF OpenCuts
<1> QED BY <1>1, <1>2, OpenedDoes

(* Append, by a line or by a mark.                                         *)
Numbering(p) ==
  /\ \E op \in {"line", "mark"}, of \in 0 .. made : NumberEntry(p, op, of)
  /\ UNCHANGED <<file, serve, landed, bare>>

LEMMA NumberingIs ==
  ASSUME Typed, LockHeld, NEW p \in Stores, AppendLine(p) \/ MailMarks(p)
  PROVE  Numbering(p)
<1>1. made \in Nat
  BY DEF Typed
<1>2. CASE AppendLine(p)
  BY <1>1, <1>2 DEF AppendLine, Numbering
<1>3. CASE MailMarks(p)
  <2>1. mail[p].todo \in Seq(1 .. made) /\ mail[p].todo # <<>>
    BY <1>3 DEF MailMarks, LockHeld, Typed, MailT
  <2>2. Head(mail[p].todo) \in 1 .. made
    BY <2>1, HeadTail
  <2>3. Head(mail[p].todo) \in 0 .. made
    BY <1>1, <2>2
  <2> QED BY <1>3, <2>3 DEF MailMarks, Numbering
<1> QED BY <1>2, <1>3

LEMMA NumberingDoes ==
  ASSUME Typed, NEW p \in Stores, Numbering(p)
  PROVE  /\ store[p].pc = "idle" /\ store[p].up # "down" /\ OthersSame(p)
         /\ store'[p].up = store[p].up /\ store'[p].pc = CaughtUp(p).pc
         /\ store'[p].off = CaughtUp(p).off /\ store'[p].blind = store[p].blind
         /\ store'[p].read = store[p].read
         /\ made' = made + 1 /\ UNCHANGED <<file, serve, landed, bare>>
         /\ \/ lock = Nobody /\ lock' = p /\ store[p].up = "open"
            \/ lock # Nobody /\ lock' = lock
            \/ lock' = lock /\ store[p].up = "closed"
         /\ \E e \in Ents(made + 1) :
              /\ e.n = made + 1 /\ e.by = p /\ e.seq = CaughtUp(p).seq + 1
              /\ store'[p].seq = e.seq /\ store'[p].pending = Append(store[p].pending, e)
              /\ loose' = IF lock' = p /\ ~store[p].blind THEN loose ELSE loose \cup {e}
<1>1. store \in [Stores -> StoreT(made)] /\ store[p] \in StoreT(made)
  BY DEF Typed
<1>2. PICK op \in {"line", "mark"}, of \in 0 .. made : NumberEntry(p, op, of)
  BY DEF Numbering
<1>3. PICK e \in Ents(made + 1) :
           /\ e.n = made + 1 /\ e.by = p /\ e.seq = CaughtUp(p).seq + 1
           /\ store' = [store EXCEPT ![p] =
                [CaughtUp(p) EXCEPT !.seq = e.seq, !.op = op, !.pending = Append(@, e)]]
           /\ made' = made + 1
           /\ loose' = IF lock' = p /\ ~CaughtUp(p).blind THEN loose ELSE loose \cup {e}
  BY <1>2, Numbered
<1> DEFINE c == CaughtUp(p)
<1>4. /\ c \in StoreT(made) /\ c.up = store[p].up /\ c.blind = store[p].blind
      /\ c.read = store[p].read /\ c.pending = store[p].pending
  <2>1. c \in StoreT(made) /\ c = [store[p] EXCEPT !.seq = c.seq, !.off = c.off, !.pc = c.pc]
    BY CaughtUpIs
  <2> HIDE DEF c
  <2> QED BY <1>1, <2>1 DEF StoreT
<1>5. store' = [store EXCEPT ![p] = [c EXCEPT !.seq = e.seq, !.op = op, !.pending = Append(@, e)]]
  BY <1>3
<1> HIDE DEF c
<1>6. store'[p] = [c EXCEPT !.seq = e.seq, !.op = op, !.pending = Append(@, e)]
  BY <1>1, <1>5
<1>7. /\ store'[p].up = store[p].up /\ store'[p].pc = c.pc /\ store'[p].off = c.off
      /\ store'[p].read = store[p].read
      /\ store'[p].seq = e.seq /\ store'[p].pending = Append(store[p].pending, e)
  BY <1>4, <1>6 DEF StoreT
<1>8. store'[p].blind = store[p].blind
  BY <1>4, <1>6 DEF StoreT
<1>9. OthersSame(p)
  BY <1>1, <1>5 DEF OthersSame
<1>10. loose' = IF lock' = p /\ ~store[p].blind THEN loose ELSE loose \cup {e}
  BY <1>3, <1>4 DEF c
<1>11. store[p].up \in {"open", "closed"} /\ store[p].pc = "idle"
  BY <1>1, <1>2 DEF NumberEntry, Idle, StoreT
<1>12. \/ lock = Nobody /\ lock' = p /\ store[p].up = "open"
       \/ lock # Nobody /\ lock' = lock
       \/ lock' = lock /\ store[p].up = "closed"
  BY <1>2, <1>11 DEF NumberEntry, Lock
<1>13. UNCHANGED <<file, serve, landed, bare>>
  BY DEF Numbering
<1> QED BY <1>3, <1>7, <1>8, <1>9, <1>10, <1>11, <1>12, <1>13 DEF c

LEMMA FlushDoes ==
  ASSUME Typed, NEW p \in Stores, Flush(p)
  PROVE  /\ store[p].pc = "idle" /\ store[p].up = "open" /\ OthersSame(p)
         /\ store[p].pending # <<>>
         /\ store'[p].up = store[p].up /\ store'[p].pc = "tail"
         /\ store'[p].off = CaughtUp(p).off /\ store'[p].blind = store[p].blind
         /\ store'[p].seq = CaughtUp(p).seq /\ store'[p].read = store[p].read
         /\ store'[p].pending = store[p].pending
         /\ UNCHANGED <<file, mail, serve, made, landed, loose, bare>>
         /\ \/ lock = Nobody /\ lock' = p
            \/ lock # Nobody /\ lock' = lock
<1>1. store \in [Stores -> StoreT(made)] /\ store[p] \in StoreT(made)
  BY DEF Typed
<1> DEFINE c == CaughtUp(p)
<1>2. c \in StoreT(made) /\ c = [store[p] EXCEPT !.seq = c.seq, !.off = c.off, !.pc = c.pc]
  BY CaughtUpIs
<1>3. store' = [store EXCEPT ![p] = [c EXCEPT !.op = "flush"]]
  BY DEF Flush
<1>4. store[p].up = "open" => c.pc = "tail"
  BY <1>1 DEF CaughtUp, StoreT
<1> HIDE DEF c
<1>5. store'[p] = [c EXCEPT !.op = "flush"]
  BY <1>1, <1>3
<1>6. /\ store'[p].up = store[p].up /\ store'[p].pc = c.pc /\ store'[p].off = c.off
      /\ store'[p].read = store[p].read
      /\ store'[p].seq = c.seq /\ store'[p].pending = store[p].pending
  BY <1>1, <1>2, <1>5 DEF StoreT
<1>7. store'[p].blind = store[p].blind
  BY <1>1, <1>2, <1>5 DEF StoreT
<1>8. OthersSame(p)
  BY <1>1, <1>3 DEF OthersSame
<1>9. /\ store[p].pc = "idle" /\ store[p].up = "open" /\ store[p].pending # <<>>
      /\ UNCHANGED <<file, mail, serve, made, landed, loose, bare>>
      /\ Lock(p)
  BY DEF Flush, Idle
<1> QED BY <1>4, <1>6, <1>7, <1>8, <1>9 DEF c, Lock

LEMMA CloseDoes ==
  ASSUME Typed, NEW p \in Stores, Close(p)
  PROVE  /\ store[p].pc = "idle" /\ store[p].up = "open" /\ OthersSame(p)
         /\ store'[p].off = store[p].off /\ store'[p].blind = store[p].blind
         /\ store'[p].seq = store[p].seq /\ store'[p].read = store[p].read
         /\ store'[p].pending = store[p].pending
         /\ \/ store'[p].up = "closed" /\ store'[p].pc = "idle"
            \/ store'[p].up = "open" /\ store'[p].pc = "tail" /\ store[p].pending # <<>>
         /\ \A q \in Stores : mail'[q] = mail[q] \/ mail'[q] = NoMail
         /\ UNCHANGED <<file, lock, serve, made, landed, loose, bare>>
<1>1. store \in [Stores -> StoreT(made)] /\ mail \in [Stores -> MailT(made)]
  BY DEF Typed
<1>2. /\ store[p].pc = "idle" /\ store[p].up = "open"
      /\ UNCHANGED <<file, lock, serve, made, landed, loose, bare>>
      /\ mail' = IF mail[p].pc = "idle" THEN [mail EXCEPT ![p] = NoMail] ELSE mail
  BY DEF Close, Idle
<1>3. CASE store[p].pending = <<>>
  <2>1. store' = [store EXCEPT ![p].up = "closed"]
    BY <1>3 DEF Close
  <2> QED BY <1>1, <1>2, <2>1 DEF StoreT, OthersSame
<1>4. CASE store[p].pending # <<>>
  <2>1. store' = [store EXCEPT ![p] = [store[p] EXCEPT !.pc = "tail", !.op = "close"]]
    BY <1>4 DEF Close
  <2> QED BY <1>1, <1>2, <1>4, <2>1 DEF StoreT, OthersSame
<1> QED BY <1>3, <1>4

LEMMA LookAtTailDoes ==
  ASSUME Typed, NEW p \in Stores, LookAtTail(p)
  PROVE  /\ store[p].pc = "tail" /\ OthersSame(p)
         /\ store'[p].up = store[p].up /\ store'[p].blind = store[p].blind
         /\ store'[p].seq = store[p].seq /\ store'[p].read = store[p].read
         /\ store'[p].pending = store[p].pending
         /\ \/ store'[p].off = store[p].off
            \/ store'[p].off = Len(file) /\ Len(file) < store[p].off
         /\ store'[p].end = TailEnd(file)
         /\ \/ store'[p].pc = "write" /\ TailEnd(file) = Len(file)
            \/ store'[p].pc = "cut" /\ TailEnd(file) # Len(file)
         /\ UNCHANGED <<file, lock, mail, serve, made, landed, loose, bare>>
<1> DEFINE off == IF TailEnd(file) = Len(file) /\ TailEnd(file) < store[p].off
                  THEN TailEnd(file) ELSE store[p].off
           pc == IF TailEnd(file) = Len(file) THEN "write" ELSE "cut"
<1>1. store \in [Stores -> StoreT(made)]
  BY DEF Typed
<1>2. store' = [store EXCEPT ![p] = [store[p] EXCEPT !.pc = pc, !.end = TailEnd(file), !.off = off]]
  BY Zenon DEF LookAtTail
<1>3. /\ store[p].pc = "tail"
      /\ UNCHANGED <<file, lock, mail, serve, made, landed, loose, bare>>
  BY DEF LookAtTail
<1> HIDE DEF off, pc
<1>4. store'[p] = [store[p] EXCEPT !.pc = pc, !.end = TailEnd(file), !.off = off]
  BY <1>1, <1>2
<1>5. /\ store'[p].up = store[p].up /\ store'[p].blind = store[p].blind
      /\ store'[p].seq = store[p].seq /\ store'[p].read = store[p].read
      /\ store'[p].pending = store[p].pending
      /\ store'[p].off = off /\ store'[p].pc = pc /\ store'[p].end = TailEnd(file)
  BY <1>1, <1>4 DEF StoreT
<1>6. OthersSame(p)
  BY <1>1, <1>2 DEF OthersSame
<1>7. off = store[p].off \/ (off = Len(file) /\ Len(file) < store[p].off)
  BY DEF off
<1>8. (pc = "write" /\ TailEnd(file) = Len(file)) \/ (pc = "cut" /\ TailEnd(file) # Len(file))
  BY DEF pc
<1> QED BY <1>3, <1>5, <1>6, <1>7, <1>8

LEMMA CutTailDoes ==
  ASSUME Typed, NEW p \in Stores, CutTail(p)
  PROVE  /\ store[p].pc = "cut" /\ store[p].end \in Nat
         /\ file' = Truncate(file, store[p].end)
         /\ store'[p].pc = "write" /\ store'[p].blind = store[p].blind
         /\ \/ store'[p].off = store[p].off /\ store[p].off <= store[p].end
            \/ store'[p].off = store[p].end /\ store[p].end < store[p].off
         /\ \A q \in Stores \ {p} :
              /\ store'[q].pc = store[q].pc /\ store'[q].end = store[q].end
              /\ store'[q].off = store[q].off
              /\ ~store'[q].blind => ~store[q].blind /\ store[q].off <= store[p].end
              /\ store[q] = NoStore => store'[q] = NoStore
         /\ \A q \in Stores :
              /\ store'[q].up = store[q].up /\ store'[q].read = store[q].read
              /\ store'[q].seq = store[q].seq /\ store'[q].pending = store[q].pending
         /\ bare' = (IF Holds(p) THEN bare ELSE bare \cup {"cut"})
         /\ UNCHANGED <<lock, mail, serve, made, landed, loose>>
<1> DEFINE off == IF store[p].end < store[p].off THEN store[p].end ELSE store[p].off
           mine == [store[p] EXCEPT !.pc = "write", !.off = off]
           others(q) == IF store[p].end < store[q].off THEN [store[q] EXCEPT !.blind = TRUE]
                        ELSE store[q]
<1>1. store \in [Stores -> StoreT(made)] /\ store[p].end \in Nat /\ store[p].off \in Nat
  BY DEF Typed, StoreT
<1>2. /\ store[p].pc = "cut" /\ file' = Truncate(file, store[p].end)
      /\ bare' = (IF Holds(p) THEN bare ELSE bare \cup {"cut"})
      /\ UNCHANGED <<lock, mail, serve, made, landed, loose>>
  BY DEF CutTail, Bare
<1>3. store' = [q \in Stores |-> IF q = p THEN mine ELSE others(q)]
  BY DEF CutTail
<1>4. /\ store'[p].pc = "write" /\ store'[p].blind = store[p].blind
      /\ store'[p].off = off
      /\ store'[p].up = store[p].up /\ store'[p].read = store[p].read
      /\ store'[p].seq = store[p].seq /\ store'[p].pending = store[p].pending
  <2>1. store'[p] = mine
    BY <1>3
  <2> HIDE DEF off
  <2> QED BY <1>1, <2>1 DEF StoreT
<1>5. \/ off = store[p].off /\ store[p].off <= store[p].end
      \/ off = store[p].end /\ store[p].end < store[p].off
  BY <1>1
<1>6. ASSUME NEW q \in Stores \ {p}
      PROVE  /\ store'[q].pc = store[q].pc /\ store'[q].end = store[q].end
             /\ store'[q].off = store[q].off
             /\ ~store'[q].blind => ~store[q].blind /\ store[q].off <= store[p].end
             /\ store[q] = NoStore => store'[q] = NoStore
             /\ store'[q].up = store[q].up /\ store'[q].read = store[q].read
             /\ store'[q].seq = store[q].seq /\ store'[q].pending = store[q].pending
  <2>1. /\ store'[q] = (IF store[p].end < store[q].off THEN [store[q] EXCEPT !.blind = TRUE]
                         ELSE store[q])
        /\ store[q] \in StoreT(made) /\ store[q].off \in Nat
    BY <1>1, <1>3 DEF StoreT
  <2>2. store[q] = NoStore => ~(store[p].end < store[q].off)
    BY <1>1 DEF NoStore
  <2>3. CASE store[p].end < store[q].off
    <3>1. store'[q] = [store[q] EXCEPT !.blind = TRUE]
      BY <2>1, <2>3
    <3>2. store'[q].blind = TRUE
      BY <2>1, <3>1 DEF StoreT
    <3>3. /\ store'[q].pc = store[q].pc /\ store'[q].end = store[q].end
          /\ store'[q].off = store[q].off
          /\ store'[q].up = store[q].up /\ store'[q].read = store[q].read
          /\ store'[q].seq = store[q].seq /\ store'[q].pending = store[q].pending
      BY <2>1, <3>1 DEF StoreT
    <3> QED BY <2>2, <2>3, <3>2, <3>3
  <2>4. CASE ~(store[p].end < store[q].off)
    <3>1. store'[q] = store[q] /\ store[q].off <= store[p].end
      BY <1>1, <2>1, <2>4
    <3> QED BY <3>1
  <2> QED BY <2>3, <2>4
<1> HIDE DEF off, mine, others
<1> QED BY <1>1, <1>2, <1>4, <1>5, <1>6

LEMMA WriteDoes ==
  ASSUME Typed, LockHeld, NEW p \in Stores, Write(p)
  PROVE  /\ store[p].pc = "write" /\ OthersSame(p)
         /\ store[p].pending \in Seq(Ents(made)) /\ store[p].pending # <<>>
         /\ file' = Append(file, Head(store[p].pending))
         /\ landed' = landed \cup {Head(store[p].pending)}
         /\ store'[p].off = store[p].off + 1
         /\ ~store'[p].blind => ~store[p].blind /\ store[p].off = Len(file)
         /\ store'[p].seq = store[p].seq /\ store'[p].read = store[p].read
         /\ store'[p].pending = Tail(store[p].pending)
         /\ \/ /\ Tail(store[p].pending) = <<>> /\ store'[p].pc = "idle"
               /\ store'[p].up \in {store[p].up, "closed"}
               /\ lock' = (IF Holds(p) THEN Nobody ELSE lock)
            \/ /\ Tail(store[p].pending) # <<>> /\ store'[p].pc = "write"
               /\ store'[p].up = store[p].up /\ UNCHANGED lock
         /\ bare' = (IF Holds(p) THEN bare ELSE bare \cup {"write"})
         /\ UNCHANGED <<mail, serve, made, loose>>
<1>1. store \in [Stores -> StoreT(made)]
  BY DEF Typed
<1>2. PICK b \in BOOLEAN : b = (store[p].blind \/ store[p].off # Len(file))
  BY Zenon
<1> DEFINE rest == Tail(store[p].pending)
           s == [store[p] EXCEPT !.pending = rest, !.off = @ + 1, !.blind = b]
           t == [s EXCEPT !.pc = "idle", !.op = "none", !.end = 0,
                          !.up = IF s.op = "close" THEN "closed" ELSE @]
<1>3. /\ store[p].pc = "write"
      /\ file' = Append(file, Head(store[p].pending))
      /\ landed' = landed \cup {Head(store[p].pending)}
      /\ bare' = (IF Holds(p) THEN bare ELSE bare \cup {"write"})
      /\ UNCHANGED <<mail, serve, made, loose>>
  BY DEF Write, Bare
<1>4. store[p].pending \in Seq(Ents(made)) /\ store[p].pending # <<>>
  BY <1>1, <1>3 DEF LockHeld, Writing, StoreT
<1>5. s = [store[p] EXCEPT !.pending = Tail(@), !.off = @ + 1,
                        !.blind = @ \/ store[p].off # Len(file)]
  BY <1>2, Zenon
<1>6. IF s.pending = <<>>
      THEN store' = [store EXCEPT ![p] = Returned(s)] /\ lock' = (IF Holds(p) THEN Nobody ELSE lock)
      ELSE store' = [store EXCEPT ![p] = s] /\ UNCHANGED lock
  BY <1>5, Zenon DEF Write, Unlock
<1>7. ~b => ~store[p].blind /\ store[p].off = Len(file)
  BY <1>2, Zenon
<1>8. Returned(s) = t
  BY Zenon DEF Returned
<1> HIDE DEF rest
<1>9. /\ s.pending = rest /\ s.off = store[p].off + 1 /\ s.blind = b /\ s.seq = store[p].seq
      /\ s.read = store[p].read /\ s.pc = "write" /\ s.up = store[p].up
  BY <1>1, <1>3 DEF StoreT
<1>10. /\ t.pending = rest /\ t.off = store[p].off + 1 /\ t.blind = b /\ t.seq = store[p].seq
       /\ t.read = store[p].read /\ t.pc = "idle" /\ t.up \in {store[p].up, "closed"}
  BY <1>1 DEF StoreT
<1> HIDE DEF s, t
<1>11. store' = [store EXCEPT ![p] = IF rest = <<>> THEN t ELSE s]
  BY <1>6, <1>8, <1>9
<1>12. OthersSame(p) /\ store'[p] = IF rest = <<>> THEN t ELSE s
  BY <1>1, <1>11 DEF OthersSame
<1>13. /\ store'[p].off = store[p].off + 1
       /\ ~store'[p].blind => ~store[p].blind /\ store[p].off = Len(file)
       /\ store'[p].seq = store[p].seq /\ store'[p].read = store[p].read
       /\ store'[p].pending = rest
  BY <1>7, <1>9, <1>10, <1>12
<1>14. \/ /\ rest = <<>> /\ store'[p].pc = "idle"
          /\ store'[p].up \in {store[p].up, "closed"}
          /\ lock' = (IF Holds(p) THEN Nobody ELSE lock)
       \/ /\ rest # <<>> /\ store'[p].pc = "write"
          /\ store'[p].up = store[p].up /\ UNCHANGED lock
  BY <1>6, <1>9, <1>10, <1>12
<1> QED BY <1>3, <1>4, <1>12, <1>13, <1>14 DEF rest

LEMMA WriteFailsDoes ==
  ASSUME Typed, NEW p \in Stores, WriteFails(p)
  PROVE  /\ store[p].pc = "write" /\ OthersSame(p)
         /\ file' \in {file, Append(file, Torn)} /\ loose' = loose \cup Waiting(p)
         /\ store'[p].off = store[p].off /\ store'[p].blind = store[p].blind
         /\ store'[p].seq = store[p].seq /\ store'[p].read = store[p].read
         /\ store'[p].pending = store[p].pending
         /\ store'[p].pc = "idle" /\ store'[p].up \in {store[p].up, "closed"}
         /\ lock' = (IF Holds(p) THEN Nobody ELSE lock)
         /\ bare' = (IF Holds(p) THEN bare ELSE bare \cup {"write"})
         /\ UNCHANGED <<mail, serve, made, landed>>
<1>1. store \in [Stores -> StoreT(made)]
  BY DEF Typed
<1>2. store' = [store EXCEPT ![p] = [store[p] EXCEPT
        !.pc = "idle", !.op = "none", !.end = 0,
        !.up = IF store[p].op = "close" THEN "closed" ELSE @]]
  BY Zenon DEF WriteFails, Returned
<1>3. store'[p] = [store[p] EXCEPT
        !.pc = "idle", !.op = "none", !.end = 0,
        !.up = IF store[p].op = "close" THEN "closed" ELSE @]
  BY <1>1, <1>2
<1>4. /\ store'[p].off = store[p].off /\ store'[p].blind = store[p].blind
      /\ store'[p].seq = store[p].seq /\ store'[p].read = store[p].read
      /\ store'[p].pending = store[p].pending
      /\ store'[p].pc = "idle" /\ store'[p].up \in {store[p].up, "closed"}
  BY <1>1, <1>3 DEF StoreT
<1>5. OthersSame(p)
  BY <1>1, <1>2 DEF OthersSame
<1> QED BY <1>4, <1>5 DEF WriteFails, Unlock, Bare

(* A process that exits or dies.                                           *)
LEMMA GoneDoes ==
  ASSUME Typed, NEW p \in Stores, Exit(p) \/ Crash(p)
  PROVE  /\ OthersSame(p) /\ store'[p] = NoStore
         /\ \A q \in Stores : mail'[q] = mail[q] \/ mail'[q] = NoMail
         /\ file' \in {file, Append(file, Torn)}
         /\ lock' = (IF Holds(p) THEN Nobody ELSE lock)
         /\ bare \subseteq bare' /\ (file' # file /\ bare' = {} => Holds(p))
         /\ UNCHANGED <<serve, made, landed, loose>>
<1>1. store \in [Stores -> StoreT(made)] /\ mail \in [Stores -> MailT(made)]
  BY DEF Typed
<1>2. store' = [store EXCEPT ![p] = NoStore] /\ mail' = [mail EXCEPT ![p] = NoMail]
      /\ lock' = (IF Holds(p) THEN Nobody ELSE lock)
      /\ UNCHANGED <<serve, made, landed, loose>>
  BY DEF Exit, Crash, Gone, Unlock
<1>3. file' \in {file, Append(file, Torn)}
  BY DEF Exit, Crash
<1>4. bare \subseteq bare' /\ (file' # file /\ bare' = {} => Holds(p))
  BY DEF Exit, Crash, Bare
<1> QED BY <1>1, <1>2, <1>3, <1>4 DEF OthersSame

(* Serve's three steps and the mailbox's own two.                          *)
LEMMA ServeStartsDoes ==
  ASSUME Typed, ServeStarts
  PROVE  /\ serve = Torn /\ made' = made + 1 /\ UNCHANGED <<file, store, mail, landed, bare>>
         /\ serve' \in Ents(made + 1) /\ serve'.seq = TopSeq(Readable(file), 0) + 1
         /\ loose' = (IF lock' = Serve THEN loose ELSE loose \cup {serve'})
         /\ \/ lock = Nobody /\ lock' = Serve
            \/ lock # Nobody /\ lock' = lock
<1>1. TopSeq(Readable(file), 0) \in 0 .. made /\ made \in Nat
  BY TopOfFile DEF Typed
<1>2. serve' = Entry(made + 1, TopSeq(Readable(file), 0) + 1, Serve, "notice", 0)
  BY DEF ServeStarts
<1>3. serve' \in Ents(made + 1) /\ serve'.seq = TopSeq(Readable(file), 0) + 1
  BY <1>1, <1>2 DEF Entry, Ents, Writers
<1> QED BY <1>3 DEF ServeStarts, NoServe, Lock

LEMMA ServeEndsDoes ==
  ASSUME Typed, ServeWrites \/ ServeFails
  PROVE  /\ serve # Torn /\ serve \in Ents(made) /\ serve.by = Serve /\ serve' = Torn
         /\ UNCHANGED <<store, mail, made, loose>>
         /\ \/ file' = Append(file, serve) /\ landed' = landed \cup {serve}
            \/ file' \in {file, Append(file, Torn)} /\ UNCHANGED landed
         /\ lock' = (IF lock = Serve THEN Nobody ELSE lock)
         /\ bare' = (IF lock = Serve THEN bare ELSE bare \cup {"write"})
<1>1. serve # Torn
  BY DEF ServeWrites, ServeFails, NoServe
<1>2. serve \in Ents(made) /\ serve.by = Serve
  BY <1>1 DEF Typed, Chunks
<1> QED BY <1>1, <1>2 DEF ServeWrites, ServeFails, NoServe, Unlock, Bare, Holds

LEMMA MailDoes ==
  ASSUME Typed, NEW p \in Stores, MailLooks(p) \/ MailTells(p)
  PROVE  /\ UNCHANGED <<file, lock, store, serve, made, landed, loose, bare>>
         /\ \A q \in Stores \ {p} : mail'[q] = mail[q]
         /\ mail'[p].pc \in {"idle", "mark"}
         /\ mail'[p].pc = "mark" => mail'[p].todo # <<>>
<1>1. mail \in [Stores -> MailT(made)]
  BY DEF Typed
<1>2. CASE MailLooks(p)
  <2> DEFINE todo == BySeq(Undelivered(file))
             ns == [i \in DOMAIN todo |-> todo[i].n]
             S == Undelivered(file)
  <2>1. /\ mail' = [mail EXCEPT ![p] = [pc |-> IF todo = <<>> THEN "idle" ELSE "mark",
                                        seen |-> file, todo |-> ns]]
        /\ UNCHANGED <<file, lock, store, serve, made, landed, loose, bare>>
    BY <1>2 DEF MailLooks
  <2>2. todo # <<>> => ns # <<>>
    <3>1. /\ todo \in [1 .. Cardinality(S) -> S] /\ Cardinality(S) \in Nat
      BY UndeliveredSorts
    <3>2. todo \in Seq(S)
      BY <3>1
    <3>3. DOMAIN ns = DOMAIN todo /\ DOMAIN <<>> = {}
      OBVIOUS
    <3> HIDE DEF todo, ns
    <3>4. ASSUME todo # <<>> PROVE 1 \in DOMAIN todo
      BY <3>2, <3>4
    <3> QED BY <3>3, <3>4
  <2> HIDE DEF todo, ns
  <2> QED BY <1>1, <2>1, <2>2
<1>3. CASE MailTells(p)
  <2> DEFINE m == [mail[p] EXCEPT !.todo = Tail(@),
                     !.pc = IF Tail(mail[p].todo) = <<>> THEN "idle" ELSE "mark"]
  <2>1. mail' = [mail EXCEPT ![p] = m]
    BY <1>3, Zenon DEF MailTells
  <2>2. UNCHANGED <<file, lock, store, serve, made, landed, loose, bare>>
    BY <1>3 DEF MailTells
  <2>3. m.todo = Tail(mail[p].todo) /\ m.pc = IF Tail(mail[p].todo) = <<>> THEN "idle" ELSE "mark"
    BY <1>1 DEF MailT
  <2> HIDE DEF m
  <2> QED BY <1>1, <2>1, <2>2, <2>3
<1> QED BY <1>2, <1>3

----------------------------------------------------------------------------
(* The lines of a file that grew by a chunk or lost its tail.              *)

\* The lines of f are lines of g, at the same place.
Within(f, g) == \A i \in Lines(f, 0) : i \in Lines(g, 0) /\ f[i] = g[i]

LEMMA LinesAppended ==
  ASSUME NEW m \in Nat, NEW f \in Seq(Chunks(m)), NEW c \in Chunks(m)
  PROVE  /\ \A i \in Lines(Append(f, c), 0) :
              \/ i \in Lines(f, 0) /\ Append(f, c)[i] = f[i] /\ i <= Len(f)
              \/ i = Len(f) + 1 /\ Append(f, c)[i] = c /\ IsEntry(c)
         /\ \A i \in Lines(f, 0) : i \in Lines(Append(f, c), 0) /\ Append(f, c)[i] = f[i]
<1> DEFINE g == Append(f, c)
<1>1. /\ g \in Seq(Chunks(m)) /\ Len(g) = Len(f) + 1 /\ g[Len(f) + 1] = c /\ Len(f) \in Nat
      /\ \A i \in 1 .. Len(f) : g[i] = f[i]
  BY Appended
<1> HIDE DEF g
<1>2. ASSUME NEW i \in Lines(g, 0)
      PROVE  \/ i \in Lines(f, 0) /\ g[i] = f[i] /\ i <= Len(f)
             \/ i = Len(f) + 1 /\ g[i] = c /\ IsEntry(c)
  <2>1. i \in 0 + 1 .. Len(g) /\ IsEntry(g[i]) /\ (i = 0 + 1 \/ IsEntry(g[i - 1]))
    BY DEF Lines
  <2>2. CASE i = Len(f) + 1
    BY <1>1, <2>1, <2>2
  <2>3. CASE i # Len(f) + 1
    <3>1. i \in 1 .. Len(f) /\ g[i] = f[i] /\ i <= Len(f)
      BY <1>1, <2>1, <2>3
    <3>2. i # 1 => i - 1 \in 1 .. Len(f) /\ g[i - 1] = f[i - 1]
      BY <1>1, <3>1
    <3> QED BY <2>1, <3>1, <3>2 DEF Lines
  <2> QED BY <2>2, <2>3
<1>3. ASSUME NEW i \in Lines(f, 0) PROVE i \in Lines(g, 0) /\ g[i] = f[i]
  <2>1. i \in 0 + 1 .. Len(f) /\ IsEntry(f[i]) /\ (i = 0 + 1 \/ IsEntry(f[i - 1]))
    BY DEF Lines
  <2>2. i \in 1 .. Len(f) /\ g[i] = f[i] /\ i \in 0 + 1 .. Len(g)
    BY <1>1, <2>1
  <2>3. i # 1 => i - 1 \in 1 .. Len(f) /\ g[i - 1] = f[i - 1]
    BY <1>1, <2>2
  <2> QED BY <2>1, <2>2, <2>3 DEF Lines
<1> QED BY <1>2, <1>3 DEF g

LEMMA LinesTorn ==
  ASSUME NEW m \in Nat, NEW f \in Seq(Chunks(m)), NEW g \in {f, Append(f, Torn)}
  PROVE  Within(g, f) /\ Len(f) <= Len(g)
<1>1. Torn \in Chunks(m) /\ ~IsEntry(Torn)
  BY EntryOrTorn DEF Chunks
<1>2. CASE g = f
  BY <1>2 DEF Within
<1>3. CASE g = Append(f, Torn)
  <2>1. Len(Append(f, Torn)) = Len(f) + 1 /\ Len(f) \in Nat
    BY <1>1, Appended
  <2>2. \A i \in Lines(Append(f, Torn), 0) :
          \/ i \in Lines(f, 0) /\ Append(f, Torn)[i] = f[i] /\ i <= Len(f)
          \/ i = Len(f) + 1 /\ Append(f, Torn)[i] = Torn /\ IsEntry(Torn)
    BY <1>1, LinesAppended
  <2>3. Within(Append(f, Torn), f)
    BY <1>1, <2>2, Zenon DEF Within
  <2>4. Len(f) <= Len(f) + 1
    BY <2>1
  <2> QED BY <1>3, <2>1, <2>3, <2>4, Zenon
<1>4. Len(f) <= Len(f)
  OBVIOUS
<1> QED BY <1>2, <1>3, <1>4

LEMMA LinesTruncated ==
  ASSUME NEW m \in Nat, NEW f \in Seq(Chunks(m)), NEW end \in Nat
  PROVE  Within(Truncate(f, end), f)
<1> DEFINE g == Truncate(f, end)
<1>1. /\ g \in Seq(Chunks(m)) /\ Len(g) = end /\ Len(f) \in Nat
      /\ \A i \in 1 .. end : g[i] = IF i <= Len(f) THEN f[i] ELSE Torn
  BY Truncated
<1> HIDE DEF g
<1>2. ASSUME NEW i \in Lines(g, 0) PROVE i \in Lines(f, 0) /\ g[i] = f[i]
  <2>1. i \in 0 + 1 .. Len(g) /\ IsEntry(g[i]) /\ (i = 0 + 1 \/ IsEntry(g[i - 1]))
    BY DEF Lines
  <2>2. ~IsEntry(Torn)
    BY DEF IsEntry, Torn
  <2>3. i \in 1 .. end /\ i <= Len(f) /\ g[i] = f[i] /\ i \in 0 + 1 .. Len(f)
    BY <1>1, <2>1, <2>2
  <2>4. i # 1 => i - 1 \in 1 .. end /\ i - 1 <= Len(f) /\ g[i - 1] = f[i - 1]
    BY <1>1, <2>3
  <2> QED BY <2>1, <2>3, <2>4 DEF Lines
<1> QED BY <1>2 DEF Within, g

----------------------------------------------------------------------------
(* Who holds the lock is in the middle of an operation, and an operation   *)
(* has a line to write.                                                    *)

\* The clause of LockHeld about one store.
Working(p) ==
  /\ Holds(p) => store[p].pc \in Writing
  /\ store[p].pc \in Writing => store[p].pending # <<>>
  /\ store[p].pc \in {"opening", "opencut"} => store[p].up = "down"
  /\ store[p].up = "down" =>
       \/ store[p].pc \in {"opening", "opencut"} /\ store[p].pending = <<>>
       \/ store[p] = NoStore

LEMMA WorkingSame ==
  ASSUME LockHeld, NEW p \in Stores, store'[p] = store[p], Holds(p)' => Holds(p)
  PROVE  Working(p)'
  BY DEF LockHeld, Working, Holds

LEMMA LockHeldParts ==
  ASSUME lock' = Serve => serve' # Torn, \A p \in Stores : Working(p)',
         \A p \in Stores :
           mail'[p].pc \in {"mark", "marking"} => mail'[p].todo # <<>>
  PROVE  LockHeld'
  BY DEF LockHeld, Working

LEMMA MailWaits ==
  ASSUME LockHeld, \A q \in Stores : mail'[q] = mail[q] \/ mail'[q] = NoMail
  PROVE  \A q \in Stores : mail'[q].pc \in {"mark", "marking"} => mail'[q].todo # <<>>
  BY DEF LockHeld, NoMail

LEMMA LockHeldStep ==
  ASSUME IInv, [Next]_vars
  PROVE  LockHeld'
<1> DEFINE MailOK == \A q \in Stores :
                       mail'[q].pc \in {"mark", "marking"} => mail'[q].todo # <<>>
<1>a. Typed /\ LockHeld
  BY DEF IInv
<1>b. /\ store \in [Stores -> StoreT(made)] /\ mail \in [Stores -> MailT(made)]
      /\ lock = Serve => serve # Torn
      /\ made \in Nat /\ file \in Seq(Chunks(made)) /\ Len(file) \in Nat
  BY <1>a DEF Typed, LockHeld
<1>c. \A p \in Stores : Working(p)
  BY <1>a DEF LockHeld, Working
<1>d. UNCHANGED mail => MailOK
  BY <1>a DEF LockHeld
<1>e. \A p \in Stores : p # Serve /\ p # Nobody
  BY Actors
<1> HIDE DEF MailOK
<1>1. ASSUME NEW p \in Stores, OpenReads(p) PROVE LockHeld'
  <2>1. /\ store[p].up = "down" /\ store[p].pc = "idle" /\ OthersSame(p)
        /\ store'[p].up = "down" /\ store'[p].pc = "opening"
        /\ store'[p].pending = store[p].pending
        /\ UNCHANGED <<lock, mail, serve>>
    BY <1>1, <1>a, OpenReadsDoes
  <2>2. store[p].pending = <<>> /\ ~Holds(p)
    BY <1>c, <2>1 DEF Working, NoStore, Writing
  <2>3. Working(p)'
    BY <2>1, <2>2 DEF Working, Holds, Writing
  <2>4. \A q \in Stores \ {p} : Working(q)'
    BY <1>a, <2>1, WorkingSame DEF OthersSame, Holds
  <2> QED BY <1>b, <1>d, <2>1, <2>3, <2>4, LockHeldParts DEF MailOK
<1>2. ASSUME NEW p \in Stores, OpenLooks(p) \/ OpenCuts(p) PROVE LockHeld'
  <2>1. /\ store[p].pc \in {"opening", "opencut"} /\ OthersSame(p)
        /\ store'[p].pending = store[p].pending
        /\ UNCHANGED <<lock, serve>>
        /\ \/ store'[p].up = "open" /\ store'[p].pc = "idle"
           \/ store'[p].up = store[p].up /\ store'[p].pc = "opencut"
    BY <1>2, <1>a, OpenLooksDoes, OpenCutsDoes
  <2>2. store[p].up = "down" /\ store[p].pending = <<>> /\ ~Holds(p)
    BY <1>c, <2>1 DEF Working, NoStore, Writing
  <2>3. Working(p)'
    BY <2>1, <2>2 DEF Working, Holds, Writing
  <2>4. \A q \in Stores \ {p} : Working(q)'
    BY <1>a, <2>1, WorkingSame DEF OthersSame, Holds
  <2>5. MailOK
    <3>1. CASE UNCHANGED mail
      BY <1>d, <3>1
    <3>2. CASE \E end \in Nat : Opened(p, end)
      <4>1. /\ \A q \in Stores : mail'[q].todo = mail[q].todo
            /\ \A q \in Stores : mail'[q].pc = IF q = p THEN "idle" ELSE mail[q].pc
        BY <1>a, <3>2, OpenedDoes
      <4> QED BY <1>a, <4>1 DEF MailOK, LockHeld
    <3>3. UNCHANGED mail \/ \E end \in Nat : Opened(p, end)
      BY <1>2, <1>a, <1>b, OpenLooksDoes, OpenCutsDoes
    <3> QED BY <3>1, <3>2, <3>3
  <2> QED BY <1>b, <2>1, <2>3, <2>4, <2>5, LockHeldParts DEF MailOK
<1>3. ASSUME NEW p \in Stores, AppendLine(p) \/ MailMarks(p) PROVE LockHeld'
  <2>1. Numbering(p)
    BY <1>3, <1>a, NumberingIs
  <2>2. PICK e \in Ents(made + 1) : store'[p].pending = Append(store[p].pending, e)
    BY <1>a, <2>1, NumberingDoes
  <2>3. /\ store[p].pc = "idle" /\ store[p].up # "down" /\ OthersSame(p)
        /\ store'[p].up = store[p].up /\ store'[p].pc = CaughtUp(p).pc
        /\ UNCHANGED serve
        /\ \/ lock = Nobody /\ lock' = p /\ store[p].up = "open"
           \/ lock # Nobody /\ lock' = lock
           \/ lock' = lock /\ store[p].up = "closed"
    BY <1>a, <2>1, NumberingDoes
  <2>4. store'[p].pc \in Writing /\ store'[p].pending # <<>>
    <3>1. CaughtUp(p).pc \in {"write", "tail"}
      BY <1>a, CaughtUpIs
    <3>2. store[p].pending \in Seq(Ents(made))
      BY <1>b DEF StoreT
    <3>3. Ents(made) \subseteq Ents(made + 1)
      BY <1>b, TypesGrow
    <3>4. store[p].pending \in Seq(Ents(made + 1))
      BY <3>2, <3>3
    <3>5. Append(store[p].pending, e) # <<>>
      BY <3>4
    <3> QED BY <2>2, <2>3, <3>1, <3>5 DEF Writing
  <2>5. Working(p)'
    BY <2>3, <2>4 DEF Working, Holds, Writing
  <2>6. \A q \in Stores \ {p} : Working(q)'
    BY <1>a, <2>3, WorkingSame DEF OthersSame, Holds
  <2>7. MailOK
    <3>1. CASE AppendLine(p)
      BY <1>d, <3>1 DEF AppendLine
    <3>2. CASE MailMarks(p)
      <4>1. mail[p].pc = "mark" /\ mail' = [mail EXCEPT ![p].pc = "marking"]
        BY <3>2 DEF MailMarks
      <4> QED BY <1>a, <1>b, <4>1 DEF MailOK, LockHeld, MailT
    <3> QED BY <1>3, <3>1, <3>2
  <2>8. lock' = Serve => serve' # Torn
    BY <1>b, <1>e, <2>3
  <2> QED BY <2>5, <2>6, <2>7, <2>8, LockHeldParts DEF MailOK
<1>4. ASSUME NEW p \in Stores, Flush(p) PROVE LockHeld'
  <2>1. /\ store[p].pc = "idle" /\ store[p].up = "open" /\ OthersSame(p)
        /\ store[p].pending # <<>>
        /\ store'[p].up = store[p].up /\ store'[p].pc = "tail"
        /\ store'[p].pending = store[p].pending
        /\ UNCHANGED <<mail, serve>>
        /\ \/ lock = Nobody /\ lock' = p
           \/ lock # Nobody /\ lock' = lock
    BY <1>4, <1>a, FlushDoes
  <2>2. Working(p)'
    BY <2>1 DEF Working, Holds, Writing
  <2>3. \A q \in Stores \ {p} : Working(q)'
    BY <1>a, <2>1, WorkingSame DEF OthersSame, Holds
  <2> QED BY <1>b, <1>d, <1>e, <2>1, <2>2, <2>3, LockHeldParts DEF MailOK
<1>5. ASSUME NEW p \in Stores, Close(p) PROVE LockHeld'
  <2>1. /\ store[p].pc = "idle" /\ store[p].up = "open" /\ OthersSame(p)
        /\ store'[p].pending = store[p].pending
        /\ \/ store'[p].up = "closed" /\ store'[p].pc = "idle"
           \/ store'[p].up = "open" /\ store'[p].pc = "tail" /\ store[p].pending # <<>>
        /\ \A q \in Stores : mail'[q] = mail[q] \/ mail'[q] = NoMail
        /\ UNCHANGED <<lock, serve>>
    BY <1>5, <1>a, CloseDoes
  <2>2. ~Holds(p)
    BY <1>c, <2>1 DEF Working, Writing
  <2>3. Working(p)'
    BY <2>1, <2>2 DEF Working, Holds, Writing
  <2>4. \A q \in Stores \ {p} : Working(q)'
    BY <1>a, <2>1, WorkingSame DEF OthersSame, Holds
  <2> QED BY <1>a, <1>b, <2>1, <2>3, <2>4, LockHeldParts, MailWaits
<1>6. ASSUME NEW p \in Stores, LookAtTail(p) PROVE LockHeld'
  <2>1. /\ store[p].pc = "tail" /\ OthersSame(p)
        /\ store'[p].up = store[p].up /\ store'[p].pending = store[p].pending
        /\ store'[p].pc \in {"write", "cut"}
        /\ UNCHANGED <<lock, mail, serve>>
    BY <1>6, <1>a, LookAtTailDoes
  <2>2. store[p].up # "down" /\ store[p].pending # <<>>
    BY <1>c, <2>1 DEF Working, NoStore, Writing
  <2>3. Working(p)'
    BY <2>1, <2>2 DEF Working, Holds, Writing
  <2>4. \A q \in Stores \ {p} : Working(q)'
    BY <1>a, <2>1, WorkingSame DEF OthersSame, Holds
  <2> QED BY <1>b, <1>d, <2>1, <2>3, <2>4, LockHeldParts DEF MailOK
<1>7. ASSUME NEW p \in Stores, CutTail(p) PROVE LockHeld'
  <2>1. /\ store[p].pc = "cut" /\ store'[p].pc = "write"
        /\ \A q \in Stores \ {p} :
             store'[q].pc = store[q].pc /\ (store[q] = NoStore => store'[q] = NoStore)
        /\ \A q \in Stores :
             store'[q].up = store[q].up /\ store'[q].pending = store[q].pending
        /\ UNCHANGED <<lock, mail, serve>>
    BY <1>7, <1>a, CutTailDoes
  <2>2. store[p].up # "down" /\ store[p].pending # <<>>
    BY <1>c, <2>1 DEF Working, NoStore, Writing
  <2>3. Working(p)'
    BY <2>1, <2>2 DEF Working, Holds, Writing
  <2>4. ASSUME NEW q \in Stores \ {p} PROVE Working(q)'
    <3>1. Working(q)
      BY <1>c
    <3> QED BY <2>1, <3>1 DEF Working, Holds
  <2> QED BY <1>b, <1>d, <2>1, <2>3, <2>4, LockHeldParts DEF MailOK
<1>8. ASSUME NEW p \in Stores, Write(p) \/ WriteFails(p) PROVE LockHeld'
  <2>1. /\ store[p].pc = "write" /\ OthersSame(p)
        /\ \/ /\ store'[p].pc = "idle" /\ store'[p].up \in {store[p].up, "closed"}
              /\ lock' = (IF Holds(p) THEN Nobody ELSE lock)
           \/ /\ store'[p].pending # <<>> /\ store'[p].pc = "write"
              /\ store'[p].up = store[p].up /\ UNCHANGED lock
        /\ UNCHANGED <<mail, serve>>
    BY <1>8, <1>a, WriteDoes, WriteFailsDoes
  <2>2. store[p].up # "down"
    BY <1>c, <2>1 DEF Working, NoStore, Writing
  <2>3. Working(p)'
    BY <1>e, <2>1, <2>2 DEF Working, Holds, Writing
  <2>4. \A q \in Stores \ {p} : Working(q)'
    BY <1>a, <1>e, <2>1, WorkingSame DEF OthersSame, Holds
  <2>5. lock' = Serve => serve' # Torn
    BY <1>b, <2>1, Actors
  <2>6. MailOK
    BY <1>d, <2>1
  <2> QED BY <2>3, <2>4, <2>5, <2>6, LockHeldParts DEF MailOK
<1>9. ASSUME NEW p \in Stores, Exit(p) \/ Crash(p) PROVE LockHeld'
  <2>1. /\ OthersSame(p) /\ store'[p] = NoStore
        /\ \A q \in Stores : mail'[q] = mail[q] \/ mail'[q] = NoMail
        /\ lock' = (IF Holds(p) THEN Nobody ELSE lock)
        /\ UNCHANGED serve
    BY <1>9, <1>a, GoneDoes
  <2>2. Working(p)'
    BY <1>e, <2>1 DEF Working, Holds, Writing, NoStore
  <2>3. \A q \in Stores \ {p} : Working(q)'
    BY <1>a, <1>e, <2>1, WorkingSame DEF OthersSame, Holds
  <2>4. lock' = Serve => serve' # Torn
    BY <1>b, <2>1, Actors
  <2> QED BY <1>a, <2>1, <2>2, <2>3, <2>4, LockHeldParts, MailWaits
<1>10. ASSUME NEW p \in Stores, MailLooks(p) \/ MailTells(p) PROVE LockHeld'
  <2>1. /\ UNCHANGED <<lock, store, serve>>
        /\ \A q \in Stores \ {p} : mail'[q] = mail[q]
        /\ mail'[p].pc \in {"idle", "mark"}
        /\ mail'[p].pc = "mark" => mail'[p].todo # <<>>
    BY <1>10, <1>a, MailDoes
  <2>2. \A q \in Stores : Working(q)'
    BY <1>a, <2>1, WorkingSame DEF Holds
  <2>3. MailOK
    BY <1>a, <2>1 DEF MailOK, LockHeld
  <2> QED BY <1>b, <2>1, <2>2, <2>3, LockHeldParts DEF MailOK
<1>11. CASE ServeStarts
  <2>1. /\ UNCHANGED <<store, mail>> /\ serve' \in Ents(made + 1)
        /\ \/ lock = Nobody /\ lock' = Serve
           \/ lock # Nobody /\ lock' = lock
    BY <1>11, <1>a, ServeStartsDoes
  <2>2. serve' # Torn
    BY <2>1 DEF Ents, Torn
  <2>3. \A q \in Stores : Working(q)'
    BY <1>a, <1>e, <2>1, WorkingSame DEF Holds
  <2> QED BY <1>d, <2>1, <2>2, <2>3, LockHeldParts DEF MailOK
<1>12. CASE ServeWrites \/ ServeFails
  <2>1. /\ UNCHANGED <<store, mail>> /\ lock' = (IF lock = Serve THEN Nobody ELSE lock)
    BY <1>12, <1>a, ServeEndsDoes
  <2>2. \A q \in Stores : Working(q)'
    BY <1>a, <1>e, <2>1, WorkingSame DEF Holds
  <2>3. lock' # Serve
    BY <2>1, Actors
  <2> QED BY <1>d, <2>1, <2>2, <2>3, LockHeldParts DEF MailOK
<1>13. CASE UNCHANGED vars
  <2>1. UNCHANGED <<store, mail, lock, serve>>
    BY <1>13 DEF vars
  <2>2. \A q \in Stores : Working(q)'
    BY <1>a, <2>1, WorkingSame DEF Holds
  <2> QED BY <1>b, <1>d, <2>1, <2>2, LockHeldParts DEF MailOK
<1> QED
  BY <1>1, <1>2, <1>3, <1>4, <1>5, <1>6, <1>7, <1>8, <1>9, <1>10, <1>11, <1>12, <1>13
  DEF Next, Proceed, Deliver

----------------------------------------------------------------------------
(* What was written stays readable while every writer holds the lock.      *)

\* The clause of TailSeen about one store.
Ready(p) ==
  Holds(p) =>
    /\ store[p].pc = "cut" => store[p].end = TailEnd(file)
    /\ store[p].pc = "write" => Len(file) = 0 \/ IsEntry(file[Len(file)])

LEMMA ReadySame ==
  ASSUME NEW p \in Stores, Ready(p), store'[p] = store[p], Holds(p)' => Holds(p), file' = file
  PROVE  Ready(p)'
  BY DEF Ready, Holds

LEMMA TailSeenParts ==
  ASSUME bare' = {} => /\ \A e \in landed' : Stands(e)'
                       /\ \A p \in Stores : Ready(p)'
  PROVE  TailSeen'
  BY DEF TailSeen, Ready

\* Nothing is written: who holds the lock afterwards held it, or starts.
LEMMA TailSeenQuiet ==
  ASSUME TailSeen, UNCHANGED <<file, landed>>, bare \subseteq bare',
         \A q \in Stores :
           \/ store'[q] = store[q] /\ (Holds(q)' => Holds(q))
           \/ ~Holds(q)'
           \/ store'[q].pc \notin {"cut", "write"}
  PROVE  TailSeen'
<1> SUFFICES ASSUME bare' = {}
             PROVE  /\ \A e \in landed' : Stands(e)'
                    /\ \A p \in Stores : Ready(p)'
  BY TailSeenParts
<1>1. (\A e \in landed : Stands(e)) /\ (\A p \in Stores : Ready(p))
  BY DEF TailSeen, Ready
<1>2. \A e \in landed' : Stands(e)'
  BY <1>1 DEF Stands
<1>3. ASSUME NEW q \in Stores PROVE Ready(q)'
  BY <1>1, <1>3 DEF Ready, Holds
<1> QED BY <1>2, <1>3

LEMMA StandsOn ==
  ASSUME NEW m \in Nat, file \in Seq(Chunks(m)), NEW c \in Chunks(m),
         file' \in {file, Append(file, c)}, NEW e, Stands(e)
  PROVE  Stands(e)'
<1>1. PICK i \in 1 .. Len(file) :
        file[i] = e /\ (i = 1 \/ IsEntry(file[i - 1]) \/ e.by = Serve)
  BY DEF Stands
<1>2. CASE file' = file
  BY <1>2 DEF Stands
<1>3. CASE file' = Append(file, c)
  <2>1. /\ Len(file') = Len(file) + 1 /\ Len(file) \in Nat
        /\ \A j \in 1 .. Len(file) : file'[j] = file[j]
    BY <1>3, Appended
  <2>2. i \in 1 .. Len(file') /\ file'[i] = e
    BY <1>1, <2>1
  <2>3. i # 1 => i - 1 \in 1 .. Len(file) /\ file'[i - 1] = file[i - 1]
    BY <1>1, <2>1
  <2> QED BY <1>1, <2>2, <2>3 DEF Stands
<1> QED BY <1>2, <1>3

LEMMA StandsLast ==
  ASSUME NEW m \in Nat, file \in Seq(Chunks(m)), NEW c \in Chunks(m),
         file' = Append(file, c),
         Len(file) = 0 \/ IsEntry(file[Len(file)]) \/ c.by = Serve
  PROVE  Stands(c)'
<1>1. /\ Len(file') = Len(file) + 1 /\ Len(file) \in Nat /\ file'[Len(file) + 1] = c
      /\ \A j \in 1 .. Len(file) : file'[j] = file[j]
  BY Appended
<1> DEFINE i == Len(file')
<1>2. i \in 1 .. Len(file') /\ file'[i] = c
  BY <1>1
<1>3. i = 1 \/ IsEntry(file'[i - 1]) \/ c.by = Serve
  <2>1. Len(file) # 0 => i - 1 = Len(file) /\ file'[i - 1] = file[Len(file)]
    BY <1>1
  <2>2. Len(file) = 0 => i = 1
    BY <1>1
  <2> QED BY <2>1, <2>2
<1> QED BY <1>2, <1>3 DEF Stands

LEMMA TailSeenStep ==
  ASSUME IInv, [Next]_vars
  PROVE  TailSeen'
<1>a. Typed /\ LockHeld /\ TailSeen
  BY DEF IInv
<1>b. /\ store \in [Stores -> StoreT(made)]
      /\ made \in Nat /\ file \in Seq(Chunks(made)) /\ Len(file) \in Nat
      /\ landed \subseteq Ents(made)
  BY <1>a DEF Typed
<1>c. \A p \in Stores : Holds(p) => store[p].pc \in Writing
  BY <1>a DEF LockHeld
<1>d. \A p \in Stores : p # Serve /\ p # Nobody
  BY Actors
<1>e. Torn \in Chunks(made)
  BY DEF Chunks
<1>f. bare = {} => (\A e \in landed : Stands(e)) /\ (\A p \in Stores : Ready(p))
  BY <1>a DEF TailSeen, Ready
<1>1. ASSUME NEW p \in Stores, OpenReads(p) PROVE TailSeen'
  <2>1. /\ OthersSame(p) /\ store'[p].pc = "opening"
        /\ UNCHANGED <<file, lock, landed, bare>>
    BY <1>1, <1>a, OpenReadsDoes
  <2> QED BY <1>a, <2>1, TailSeenQuiet DEF OthersSame, Holds
<1>2. ASSUME NEW p \in Stores, OpenLooks(p) PROVE TailSeen'
  <2>1. /\ OthersSame(p) /\ store'[p].pc \in {"opencut", "idle"}
        /\ UNCHANGED <<file, lock, landed, bare>>
    BY <1>2, <1>a, OpenLooksDoes
  <2> QED BY <1>a, <2>1, TailSeenQuiet DEF OthersSame, Holds
<1>3. ASSUME NEW p \in Stores, OpenCuts(p) PROVE TailSeen'
  BY <1>3, <1>a, OpenCutsDoes DEF TailSeen
<1>4. ASSUME NEW p \in Stores, AppendLine(p) \/ MailMarks(p) PROVE TailSeen'
  <2>1. Numbering(p)
    BY <1>4, <1>a, NumberingIs
  <2>2. /\ store[p].pc = "idle" /\ store[p].up # "down" /\ OthersSame(p)
        /\ store'[p].pc = CaughtUp(p).pc
        /\ UNCHANGED <<file, landed, bare>>
        /\ \/ lock = Nobody /\ lock' = p /\ store[p].up = "open"
           \/ lock # Nobody /\ lock' = lock
           \/ lock' = lock /\ store[p].up = "closed"
    BY <1>a, <2>1, NumberingDoes
  <2>3. store[p].up = "open" => CaughtUp(p).pc = "tail"
    BY <1>b DEF CaughtUp, StoreT
  <2>4. ~Holds(p)
    BY <1>c, <2>2 DEF Writing
  <2>5. ~Holds(p)' \/ store'[p].pc = "tail"
    BY <2>2, <2>3, <2>4 DEF Holds
  <2>6. ASSUME NEW q \in Stores, q # p
        PROVE  store'[q] = store[q] /\ (Holds(q)' => Holds(q))
    BY <2>2, <2>6 DEF Holds, OthersSame
  <2> QED BY <1>a, <2>2, <2>5, <2>6, TailSeenQuiet
<1>5. ASSUME NEW p \in Stores, Flush(p) PROVE TailSeen'
  <2>1. /\ OthersSame(p) /\ store'[p].pc = "tail"
        /\ UNCHANGED <<file, landed, bare>>
        /\ \/ lock = Nobody /\ lock' = p
           \/ lock # Nobody /\ lock' = lock
    BY <1>5, <1>a, FlushDoes
  <2>2. ASSUME NEW q \in Stores, q # p
        PROVE  store'[q] = store[q] /\ (Holds(q)' => Holds(q))
    BY <2>1, <2>2 DEF Holds, OthersSame
  <2> QED BY <1>a, <2>1, <2>2, TailSeenQuiet
<1>6. ASSUME NEW p \in Stores, Close(p) PROVE TailSeen'
  <2>1. /\ OthersSame(p) /\ store'[p].pc \in {"tail", "idle"}
        /\ UNCHANGED <<file, lock, landed, bare>>
    BY <1>6, <1>a, CloseDoes
  <2> QED BY <1>a, <2>1, TailSeenQuiet DEF OthersSame, Holds
<1>7. ASSUME NEW p \in Stores, LookAtTail(p) PROVE TailSeen'
  <2>1. /\ OthersSame(p) /\ store'[p].end = TailEnd(file)
        /\ \/ store'[p].pc = "write" /\ TailEnd(file) = Len(file)
           \/ store'[p].pc = "cut"
        /\ UNCHANGED <<file, lock, landed, bare>>
    BY <1>7, <1>a, LookAtTailDoes
  <2>2. TailEnd(file) \in Nat /\ (TailEnd(file) > 0 => IsEntry(file[TailEnd(file)]))
    BY <1>b, TailEndIs
  <2>3. Ready(p)'
    BY <1>b, <2>1, <2>2 DEF Ready
  <2>4. ASSUME bare = {}, NEW q \in Stores, q # p PROVE Ready(q)'
    BY <1>f, <2>1, <2>4, ReadySame DEF OthersSame, Holds
  <2>5. bare = {} => \A e \in landed' : Stands(e)'
    BY <1>f, <2>1 DEF Stands
  <2> QED BY <2>1, <2>3, <2>4, <2>5, TailSeenParts
<1>8. ASSUME NEW p \in Stores, CutTail(p) PROVE TailSeen'
  <2> SUFFICES ASSUME bare' = {}
               PROVE  /\ \A e \in landed' : Stands(e)'
                      /\ \A q \in Stores : Ready(q)'
    BY TailSeenParts
  <2>1. /\ store[p].pc = "cut" /\ store[p].end \in Nat
        /\ file' = Truncate(file, store[p].end)
        /\ bare' = (IF Holds(p) THEN bare ELSE bare \cup {"cut"})
        /\ UNCHANGED <<lock, landed>>
    BY <1>8, <1>a, CutTailDoes
  <2>2. Holds(p) /\ bare = {}
    BY <2>1
  <2>3. store[p].end = TailEnd(file)
    BY <1>f, <2>1, <2>2 DEF Ready
  <2> DEFINE end == TailEnd(file)
  <2>4. /\ end \in Nat /\ end <= Len(file) /\ (end > 0 => IsEntry(file[end]))
        /\ \A i \in 1 .. Len(file) : IsEntry(file[i]) => i <= end
    BY <1>b, TailEndIs
  <2>5. /\ Len(file') = end
        /\ \A i \in 1 .. end : file'[i] = file[i]
    <3>1. /\ Len(file') = end
          /\ \A i \in 1 .. end : file'[i] = IF i <= Len(file) THEN file[i] ELSE Torn
      BY <1>b, <2>1, <2>3, Truncated
    <3> QED BY <1>b, <2>4, <3>1
  <2> HIDE DEF end
  <2>6. ASSUME NEW e \in landed' PROVE Stands(e)'
    <3>1. e \in landed /\ IsEntry(e)
      BY <1>b, <2>1 DEF Ents, IsEntry
    <3>2. PICK i \in 1 .. Len(file) :
            file[i] = e /\ (i = 1 \/ IsEntry(file[i - 1]) \/ e.by = Serve)
      BY <1>f, <2>2, <3>1 DEF Stands
    <3>3. i \in 1 .. Len(file') /\ file'[i] = e
      BY <1>b, <2>4, <2>5, <3>1, <3>2
    <3>4. i # 1 => file'[i - 1] = file[i - 1]
      BY <2>4, <2>5, <3>3
    <3> QED BY <3>2, <3>3, <3>4 DEF Stands
  <2>7. Len(file') = 0 \/ IsEntry(file'[Len(file')])
    <3>1. ASSUME end # 0 PROVE IsEntry(file'[end])
      BY <2>4, <2>5, <3>1
    <3> QED BY <2>5, <3>1
  <2>8. ASSUME NEW q \in Stores PROVE Ready(q)'
    <3>1. CASE q = p
      <4>1. store'[p].pc = "write"
        BY <1>8, <1>a, CutTailDoes
      <4> QED BY <2>7, <3>1, <4>1 DEF Ready
    <3>2. CASE q # p
      BY <2>1, <2>2, <3>2 DEF Ready, Holds
    <3> QED BY <3>1, <3>2
  <2> QED BY <2>6, <2>8
<1>9. ASSUME NEW p \in Stores, Write(p) PROVE TailSeen'
  <2> SUFFICES ASSUME bare' = {}
               PROVE  /\ \A e \in landed' : Stands(e)'
                      /\ \A q \in Stores : Ready(q)'
    BY TailSeenParts
  <2>0. store[p].pending \in Seq(Ents(made)) /\ store[p].pending # <<>>
    BY <1>9, <1>a, WriteDoes
  <2>3. PICK c \in Ents(made) : c = Head(store[p].pending)
    BY <2>0, HeadTail
  <2>1. /\ store[p].pc = "write" /\ store'[p].pc \in {"idle", "write"}
        /\ file' = Append(file, c) /\ landed' = landed \cup {c}
        /\ lock' = Nobody \/ lock' = lock
        /\ bare' = (IF Holds(p) THEN bare ELSE bare \cup {"write"})
    BY <1>9, <1>a, <2>3, WriteDoes
  <2>2. Holds(p) /\ bare = {}
    BY <2>1
  <2>4. c \in Chunks(made) /\ IsEntry(c)
    BY DEF Chunks, Ents, IsEntry
  <2>5. Len(file) = 0 \/ IsEntry(file[Len(file)])
    BY <1>f, <2>1, <2>2 DEF Ready
  <2>6. Stands(c)'
    BY <1>b, <2>1, <2>4, <2>5, StandsLast
  <2>7. ASSUME NEW e \in landed' PROVE Stands(e)'
    <3>1. CASE e = c
      BY <2>6, <3>1
    <3>2. CASE e # c
      <4>1. Stands(e)
        BY <1>f, <2>1, <2>2, <3>2
      <4> QED BY <1>b, <2>1, <2>4, <4>1, StandsOn
    <3> QED BY <3>1, <3>2
  <2>9. file'[Len(file')] = c
    BY <1>b, <2>1, <2>4, Appended
  <2>8. ASSUME NEW q \in Stores PROVE Ready(q)'
    <3>1. CASE q = p
      BY <2>1, <2>4, <2>9, <3>1 DEF Ready
    <3>2. CASE q # p
      BY <1>d, <2>1, <2>2, <3>2 DEF Ready, Holds
    <3> QED BY <3>1, <3>2
  <2> QED BY <2>7, <2>8
<1>10. ASSUME NEW p \in Stores, WriteFails(p) PROVE TailSeen'
  <2> SUFFICES ASSUME bare' = {}
               PROVE  /\ \A e \in landed' : Stands(e)'
                      /\ \A q \in Stores : Ready(q)'
    BY TailSeenParts
  <2>1. /\ file' \in {file, Append(file, Torn)} /\ landed' = landed
        /\ lock' = (IF Holds(p) THEN Nobody ELSE lock)
        /\ bare' = (IF Holds(p) THEN bare ELSE bare \cup {"write"})
    BY <1>10, <1>a, WriteFailsDoes
  <2>2. Holds(p) /\ bare = {} /\ lock' = Nobody
    BY <2>1
  <2>3. \A e \in landed' : Stands(e)'
    BY <1>b, <1>e, <1>f, <2>1, <2>2, StandsOn
  <2>4. \A q \in Stores : Ready(q)'
    BY <1>d, <2>2 DEF Ready, Holds
  <2> QED BY <2>3, <2>4
<1>11. ASSUME NEW p \in Stores, Exit(p) \/ Crash(p) PROVE TailSeen'
  <2>1. /\ OthersSame(p) /\ store'[p] = NoStore
        /\ file' \in {file, Append(file, Torn)}
        /\ lock' = (IF Holds(p) THEN Nobody ELSE lock)
        /\ bare \subseteq bare' /\ (file' # file /\ bare' = {} => Holds(p))
        /\ landed' = landed
    BY <1>11, <1>a, GoneDoes
  <2>2. CASE file' = file
    <3>1. store'[p].pc \notin {"cut", "write"}
      BY <2>1 DEF NoStore
    <3>2. ASSUME NEW q \in Stores, q # p
          PROVE  store'[q] = store[q] /\ (Holds(q)' => Holds(q))
      BY <1>d, <2>1, <3>2 DEF Holds, OthersSame
    <3> QED BY <1>a, <2>1, <2>2, <3>1, <3>2, TailSeenQuiet
  <2>3. CASE file' # file
    <3> SUFFICES ASSUME bare' = {}
                 PROVE  /\ \A e \in landed' : Stands(e)'
                        /\ \A q \in Stores : Ready(q)'
      BY TailSeenParts
    <3>1. Holds(p) /\ bare = {} /\ lock' = Nobody
      BY <2>1, <2>3
    <3>2. \A e \in landed' : Stands(e)'
      BY <1>b, <1>e, <1>f, <2>1, <3>1, StandsOn
    <3>3. \A q \in Stores : Ready(q)'
      BY <1>d, <3>1 DEF Ready, Holds
    <3> QED BY <3>2, <3>3
  <2> QED BY <2>2, <2>3
<1>12. ASSUME NEW p \in Stores, MailLooks(p) \/ MailTells(p) PROVE TailSeen'
  <2>1. UNCHANGED <<file, lock, store, landed, bare>>
    BY <1>12, <1>a, MailDoes
  <2> QED BY <1>a, <2>1, TailSeenQuiet DEF Holds
<1>13. CASE ServeStarts
  <2>1. /\ UNCHANGED <<file, store, landed, bare>>
        /\ lock' = Serve \/ lock' = lock
    BY <1>13, <1>a, ServeStartsDoes
  <2>2. \A q \in Stores : Holds(q)' => Holds(q)
    BY <1>d, <2>1 DEF Holds
  <2> QED BY <1>a, <2>1, <2>2, TailSeenQuiet
<1>14. CASE ServeWrites \/ ServeFails
  <2> SUFFICES ASSUME bare' = {}
               PROVE  /\ \A e \in landed' : Stands(e)'
                      /\ \A q \in Stores : Ready(q)'
    BY TailSeenParts
  <2>1. /\ serve \in Ents(made) /\ serve.by = Serve
        /\ \/ file' = Append(file, serve) /\ landed' = landed \cup {serve}
           \/ file' \in {file, Append(file, Torn)} /\ UNCHANGED landed
        /\ lock' = (IF lock = Serve THEN Nobody ELSE lock)
        /\ bare' = (IF lock = Serve THEN bare ELSE bare \cup {"write"})
    BY <1>14, <1>a, ServeEndsDoes
  <2>2. lock = Serve /\ bare = {} /\ lock' = Nobody
    BY <2>1
  <2>3. \A q \in Stores : Ready(q)'
    BY <1>d, <2>2 DEF Ready, Holds
  <2>4. CASE file' = Append(file, serve) /\ landed' = landed \cup {serve}
    <3>1. PICK c \in Chunks(made) : c = serve
      BY <2>1 DEF Chunks
    <3>2. file' = Append(file, c) /\ landed' = landed \cup {c} /\ c.by = Serve
      BY <2>1, <2>4, <3>1
    <3>3. Stands(c)'
      BY <1>b, <3>2, StandsLast
    <3>4. ASSUME NEW e \in landed' PROVE Stands(e)'
      <4>1. CASE e = c
        BY <3>3, <4>1
      <4>2. CASE e # c
        <5>1. Stands(e)
          BY <1>f, <2>2, <3>2, <4>2
        <5> QED BY <1>b, <3>2, <5>1, StandsOn
      <4> QED BY <4>1, <4>2
    <3> QED BY <2>3, <3>4
  <2>5. CASE file' \in {file, Append(file, Torn)} /\ UNCHANGED landed
    <3>1. \A e \in landed' : Stands(e)'
      BY <1>b, <1>e, <1>f, <2>2, <2>5, StandsOn
    <3> QED BY <2>3, <3>1
  <2> QED BY <2>1, <2>4, <2>5
<1>15. CASE UNCHANGED vars
  <2>1. UNCHANGED <<file, lock, store, landed, bare>>
    BY <1>15 DEF vars
  <2> QED BY <1>a, <2>1, TailSeenQuiet DEF Holds
<1> QED
  BY <1>1, <1>2, <1>3, <1>4, <1>5, <1>6, <1>7, <1>8, <1>9, <1>10, <1>11, <1>12, <1>13, <1>14, <1>15
  DEF Next, Proceed, Deliver

----------------------------------------------------------------------------
(* A process numbers upwards.                                              *)

\* The lines p wrote are those it had written.
OwnWithin(p) ==
  \A i \in Lines(file', 0) :
    file'[i].by = p => i \in Lines(file, 0) /\ file'[i] = file[i]

LEMMA OwnOfWithin ==
  ASSUME Within(file', file) PROVE \A p \in Stores : OwnWithin(p)
  BY DEF Within, OwnWithin

LEMMA UpwardsSame ==
  ASSUME Typed, Typed', NEW p \in Stores, Upwards(p), OwnWithin(p),
         store'[p].pending = store[p].pending, store'[p].seq >= store[p].seq,
         store'[p].read = store[p].read \/ store'[p].read = {},
         store'[p] # NoStore => store[p] # NoStore
  PROVE  Upwards(p)'
<1> DEFINE s == store[p]
           t == store'[p]
<1>1. /\ made \in Nat /\ file \in Seq(Chunks(made)) /\ made' \in Nat
      /\ s.seq \in Nat /\ t.seq \in Nat /\ s.pending \in Seq(Ents(made))
      /\ s.read \subseteq Ents(made)
  BY DEF Typed, StoreT
<1>2. \A i \in Lines(file, 0) : file[i] \in Ents(made) /\ file[i].seq \in Nat
  <2>1. \A i \in Lines(file, 0) : file[i] \in Ents(made)
    BY <1>1, LinesAre
  <2> QED BY <1>1, <2>1 DEF Ents
<1>3. \A k \in 1 .. Len(s.pending) : s.pending[k].seq \in Nat
  <2>1. \A k \in 1 .. Len(s.pending) : s.pending[k] \in Ents(made)
    BY <1>1
  <2>2. \A e \in Ents(made) : e.seq \in Nat
    BY <1>1 DEF Ents
  <2> QED BY <2>1, <2>2
<1>4. \A e \in s.read : e.seq \in Nat
  BY <1>1 DEF Ents
<1>5. ASSUME NEW k \in 1 .. Len(t.pending)
      PROVE  /\ t.pending[k].by = p /\ t.pending[k].seq <= t.seq
             /\ \A j \in 1 .. k - 1 :
                  /\ t.pending[j].seq < t.pending[k].seq
                  /\ t.pending[j].n < t.pending[k].n
             /\ \A i \in Lines(file', 0) : file'[i].by = p =>
                  /\ file'[i].seq < t.pending[k].seq
                  /\ file'[i].n < t.pending[k].n
  <2>1. /\ t.pending = s.pending /\ t.seq >= s.seq /\ k \in 1 .. Len(s.pending)
        /\ s.pending[k].seq \in Nat
    BY <1>3, <1>5
  <2>2. /\ s.pending[k].by = p /\ s.pending[k].seq <= s.seq
        /\ \A j \in 1 .. k - 1 :
             s.pending[j].seq < s.pending[k].seq /\ s.pending[j].n < s.pending[k].n
        /\ \A i \in Lines(file, 0) : file[i].by = p =>
             file[i].seq < s.pending[k].seq /\ file[i].n < s.pending[k].n
    BY <2>1 DEF Upwards
  <2> HIDE DEF s, t
  <2>3. s.pending[k].seq <= t.seq
    BY <1>1, <2>1, <2>2
  <2>4. \A i \in Lines(file', 0) : file'[i].by = p =>
          file'[i].seq < s.pending[k].seq /\ file'[i].n < s.pending[k].n
    BY <2>2 DEF OwnWithin
  <2> QED BY <2>1, <2>2, <2>3, <2>4
<1>6. ASSUME t # NoStore
      PROVE  \A i \in Lines(file', 0) : file'[i].by = p => file'[i].seq <= t.seq
  BY <1>1, <1>2, <1>6 DEF Upwards, OwnWithin
<1>7. \A e \in t.read : e.seq <= t.seq
  BY <1>1, <1>4 DEF Upwards
<1> QED BY <1>5, <1>6, <1>7 DEF Upwards

LEMMA UpwardsGone ==
  ASSUME NEW p \in Stores, store'[p] = NoStore
  PROVE  Upwards(p)'
<1>1. store'[p].pending = <<>> /\ store'[p].read = {}
  BY DEF NoStore
<1>2. 1 .. Len(store'[p].pending) = {}
  BY <1>1
<1> QED BY <1>1, <1>2 DEF Upwards

LEMMA OrderSame ==
  ASSUME OrderKept, Within(file', file)
  PROVE  OrderKept'
  BY DEF OrderKept, Within

LEMMA FileSame ==
  ASSUME file' = file PROVE Within(file', file)
  BY DEF Within

\* A step that adds no line and changes p's store alone.
LEMMA UpSteps ==
  ASSUME Typed, Typed', NumbersUp, Within(file', file), NEW p \in Stores,
         OthersSame(p), Upwards(p)'
  PROVE  NumbersUp'
<1>1. OrderKept'
  BY OrderSame DEF NumbersUp
<1>2. ASSUME NEW q \in Stores, q # p PROVE Upwards(q)'
  <2>1. store'[q] = store[q] /\ Upwards(q) /\ OwnWithin(q)
    BY <1>2, OwnOfWithin DEF OthersSame, NumbersUp
  <2>2. store[q].seq \in Nat
    BY DEF Typed, StoreT
  <2>3. store'[q].seq >= store[q].seq
    BY <2>1, <2>2
  <2> QED BY <2>1, <2>3, UpwardsSame
<1> QED BY <1>1, <1>2 DEF NumbersUp

\* A step that adds no line and leaves the stores alone.
LEMMA UpStill ==
  ASSUME Typed, Typed', NumbersUp, Within(file', file), UNCHANGED store
  PROVE  NumbersUp'
<1>1. OrderKept'
  BY OrderSame DEF NumbersUp
<1>2. ASSUME NEW q \in Stores PROVE Upwards(q)'
  <2>1. Upwards(q) /\ OwnWithin(q)
    BY OwnOfWithin DEF NumbersUp
  <2>2. store[q].seq \in Nat
    BY DEF Typed, StoreT
  <2>3. store'[q].seq >= store[q].seq
    BY <2>2
  <2> QED BY <2>1, <2>3, UpwardsSame
<1> QED BY <1>1, <1>2 DEF NumbersUp

LEMMA TailIs ==
  ASSUME NEW C, NEW s \in Seq(C), s # <<>>
  PROVE  /\ Head(s) = s[1] /\ 1 \in 1 .. Len(s) /\ Len(s) \in Nat
         /\ Len(Tail(s)) = Len(s) - 1 /\ Tail(s) \in Seq(C)
         /\ \A k \in 1 .. Len(Tail(s)) : Tail(s)[k] = s[k + 1] /\ k + 1 \in 1 .. Len(s)
  OBVIOUS

\* The last number of every store and entry is a number.
LEMMA Numbers ==
  ASSUME Typed, NEW p \in Stores
  PROVE  /\ store[p].seq \in Nat /\ store[p].off \in Nat /\ made \in Nat
         /\ store[p].pending \in Seq(Ents(made))
         /\ \A i \in Lines(file, 0) : file[i] \in Ents(made)
         /\ \A e \in Ents(made) : e.seq \in Nat /\ e.n \in Nat /\ e.n <= made
<1>1. made \in Nat /\ file \in Seq(Chunks(made)) /\ store[p] \in StoreT(made)
  BY DEF Typed
<1>2. \A i \in Lines(file, 0) : file[i] \in Ents(made)
  BY <1>1, LinesAre
<1> QED BY <1>1, <1>2 DEF StoreT, Ents

LEMMA CaughtUpSeq ==
  ASSUME Typed, NEW p \in Stores
  PROVE  CaughtUp(p).seq >= store[p].seq /\ CaughtUp(p).seq \in Nat
<1>1. CaughtUp(p).seq >= store[p].seq /\ CaughtUp(p) \in StoreT(made) /\ made \in Nat
  BY CaughtUpIs, Numbers
<1>2. CaughtUp(p).seq \in 0 .. made
  BY <1>1 DEF StoreT
<1> QED BY <1>1, <1>2

LEMMA NumberedUp ==
  ASSUME Typed, LockHeld, NumbersUp, Typed', NEW p \in Stores, Numbering(p)
  PROVE  NumbersUp'
<1>1. PICK e \in Ents(made + 1) :
        /\ e.n = made + 1 /\ e.by = p /\ e.seq = CaughtUp(p).seq + 1
        /\ store'[p].seq = e.seq /\ store'[p].pending = Append(store[p].pending, e)
  BY NumberingDoes
<1>2. /\ store[p].up # "down" /\ OthersSame(p) /\ store'[p].read = store[p].read
      /\ file' = file /\ made' = made + 1
  BY NumberingDoes
<1>3. CaughtUp(p).seq >= store[p].seq /\ CaughtUp(p).seq \in Nat
  BY CaughtUpSeq
<1>4. Upwards(p) /\ store[p] # NoStore
  BY <1>2 DEF NumbersUp, NoStore
<1> DEFINE s == store[p].pending
           t == store'[p].pending
<1>5. /\ store[p].seq \in Nat /\ made \in Nat /\ s \in Seq(Ents(made))
      /\ \A i \in Lines(file, 0) : file[i] \in Ents(made)
      /\ \A f \in Ents(made) : f.seq \in Nat /\ f.n \in Nat /\ f.n <= made
  BY Numbers
<1>6. /\ Len(t) = Len(s) + 1 /\ t[Len(s) + 1] = e /\ Len(s) \in Nat
      /\ \A k \in 1 .. Len(s) : t[k] = s[k] /\ s[k] \in Ents(made)
  <2>1. Ents(made) \subseteq Ents(made + 1)
    BY <1>5, TypesGrow
  <2>2. s \in Seq(Ents(made + 1))
    BY <1>5, <2>1
  <2> QED BY <1>1, <1>5, <2>2, Appended
<1> HIDE DEF s, t
<1>7. ASSUME NEW k \in 1 .. Len(t)
      PROVE  /\ t[k].by = p /\ t[k].seq <= store'[p].seq
             /\ \A j \in 1 .. k - 1 : t[j].seq < t[k].seq /\ t[j].n < t[k].n
             /\ \A i \in Lines(file, 0) : file[i].by = p =>
                  file[i].seq < t[k].seq /\ file[i].n < t[k].n
  <2>1. CASE k \in 1 .. Len(s)
    <3>1. /\ t[k] = s[k] /\ s[k] \in Ents(made) /\ s[k].by = p /\ s[k].seq <= store[p].seq
          /\ \A j \in 1 .. k - 1 : s[j].seq < s[k].seq /\ s[j].n < s[k].n
          /\ \A i \in Lines(file, 0) : file[i].by = p =>
               file[i].seq < s[k].seq /\ file[i].n < s[k].n
      BY <1>4, <1>6, <2>1 DEF Upwards, s
    <3>2. t[k].seq <= store'[p].seq
      BY <1>1, <1>3, <1>5, <3>1
    <3>3. \A j \in 1 .. k - 1 : t[j] = s[j]
      BY <1>6, <2>1
    <3> QED BY <3>1, <3>2, <3>3
  <2>2. CASE k = Len(s) + 1
    <3>1. t[k] = e
      BY <1>6, <2>2
    <3>2. ASSUME NEW j \in 1 .. k - 1 PROVE t[j].seq < e.seq /\ t[j].n < e.n
      <4>1. j \in 1 .. Len(s) /\ t[j] = s[j] /\ s[j] \in Ents(made)
        BY <1>6, <2>2
      <4>2. s[j].seq <= store[p].seq
        BY <1>4, <4>1 DEF Upwards, s
      <4> QED BY <1>1, <1>3, <1>5, <4>1, <4>2
    <3>3. ASSUME NEW i \in Lines(file, 0), file[i].by = p
          PROVE  file[i].seq < e.seq /\ file[i].n < e.n
      <4>1. file[i].seq <= store[p].seq /\ file[i] \in Ents(made)
        BY <1>4, <1>5, <3>3 DEF Upwards
      <4> QED BY <1>1, <1>3, <1>5, <4>1
    <3>4. e.seq <= store'[p].seq
      BY <1>1, <1>3
    <3> QED BY <1>1, <3>1, <3>2, <3>3, <3>4
  <2> QED BY <1>6, <2>1, <2>2
<1>8. ASSUME NEW i \in Lines(file, 0), file[i].by = p PROVE file[i].seq <= store'[p].seq
  <2>1. file[i].seq <= store[p].seq /\ file[i].seq \in Nat
    BY <1>4, <1>5, <1>8 DEF Upwards
  <2> QED BY <1>1, <1>3, <1>5, <2>1
<1>9. ASSUME NEW f \in store'[p].read PROVE f.seq <= store'[p].seq
  <2>1. f \in store[p].read /\ f \in Ents(made)
    BY <1>2, <1>9 DEF Typed, StoreT
  <2>2. f.seq <= store[p].seq /\ f.seq \in Nat
    BY <1>4, <1>5, <2>1 DEF Upwards
  <2> QED BY <1>1, <1>3, <1>5, <2>2
<1>10. Upwards(p)'
  BY <1>2, <1>7, <1>8, <1>9 DEF Upwards, t
<1> QED BY <1>2, <1>10, FileSame, UpSteps

LEMMA WrittenUp ==
  ASSUME Typed, LockHeld, NumbersUp, Typed', NEW p \in Stores, Write(p)
  PROVE  NumbersUp'
<1> DEFINE s == store[p].pending
           t == store'[p].pending
<1>1. s \in Seq(Ents(made)) /\ s # <<>>
  BY WriteDoes
<1>2. /\ Head(s) = s[1] /\ 1 \in 1 .. Len(s) /\ Len(s) \in Nat
      /\ Len(Tail(s)) = Len(s) - 1
      /\ \A k \in 1 .. Len(Tail(s)) : Tail(s)[k] = s[k + 1] /\ k + 1 \in 1 .. Len(s)
  BY <1>1, TailIs
<1>3. PICK c \in Ents(made) : c = s[1]
  BY <1>1, <1>2
<1>4. /\ OthersSame(p) /\ file' = Append(file, c) /\ t = Tail(s)
      /\ store'[p].seq = store[p].seq /\ store'[p].read = store[p].read
      /\ store[p].pc = "write"
  BY <1>2, <1>3, WriteDoes
<1>5. Upwards(p) /\ store[p] # NoStore
  BY <1>4 DEF NumbersUp, NoStore
<1>6. /\ store[p].seq \in Nat /\ made \in Nat
      /\ \A i \in Lines(file, 0) : file[i] \in Ents(made)
      /\ \A f \in Ents(made) : f.seq \in Nat /\ f.n \in Nat /\ f.n <= made
  BY Numbers
<1>7. file \in Seq(Chunks(made)) /\ c \in Chunks(made) /\ Len(file) \in Nat
  BY DEF Typed, Chunks
<1>8. \A i \in Lines(file', 0) :
        \/ i \in Lines(file, 0) /\ file'[i] = file[i] /\ i <= Len(file)
        \/ i = Len(file) + 1 /\ file'[i] = c
  <2>1. \A i \in Lines(Append(file, c), 0) :
          \/ i \in Lines(file, 0) /\ Append(file, c)[i] = file[i] /\ i <= Len(file)
          \/ i = Len(file) + 1 /\ Append(file, c)[i] = c /\ IsEntry(c)
    BY <1>6, <1>7, LinesAppended
  <2> QED BY <1>4, <2>1, Zenon
<1>9. /\ c.by = p /\ c.seq <= store[p].seq
      /\ \A i \in Lines(file, 0) : file[i].by = p => file[i].seq < c.seq /\ file[i].n < c.n
  BY <1>2, <1>3, <1>5 DEF Upwards
<1> HIDE DEF s, t
<1>10. OrderKept'
  <2> SUFFICES ASSUME NEW i \in Lines(file', 0), NEW j \in Lines(file', 0), i < j,
                      file'[i].by = file'[j].by, file'[i].by # Serve
               PROVE  file'[i].seq < file'[j].seq /\ file'[i].n < file'[j].n
    BY DEF OrderKept
  <2>1. i \in Lines(file, 0) /\ file'[i] = file[i] /\ i <= Len(file)
    <3>1. j <= Len(file) + 1 /\ i \in Int /\ j \in Int
      BY <1>7, <1>8 DEF Lines
    <3> QED BY <1>7, <1>8, <3>1
  <2>2. CASE j \in Lines(file, 0) /\ file'[j] = file[j]
    BY <2>1, <2>2 DEF NumbersUp, OrderKept
  <2>3. CASE j = Len(file) + 1 /\ file'[j] = c
    BY <1>9, <2>1, <2>3
  <2> QED BY <1>8, <2>2, <2>3
<1>11. ASSUME NEW k \in 1 .. Len(t)
       PROVE  /\ t[k].by = p /\ t[k].seq <= store'[p].seq
              /\ \A j \in 1 .. k - 1 : t[j].seq < t[k].seq /\ t[j].n < t[k].n
              /\ \A i \in Lines(file', 0) : file'[i].by = p =>
                   file'[i].seq < t[k].seq /\ file'[i].n < t[k].n
  <2>1. t[k] = s[k + 1] /\ k + 1 \in 1 .. Len(s) /\ k \in Nat
    BY <1>2, <1>4
  <2>2. /\ s[k + 1].by = p /\ s[k + 1].seq <= store[p].seq
        /\ \A j \in 1 .. k : s[j].seq < s[k + 1].seq /\ s[j].n < s[k + 1].n
        /\ \A i \in Lines(file, 0) : file[i].by = p =>
             file[i].seq < s[k + 1].seq /\ file[i].n < s[k + 1].n
    BY <1>5, <2>1 DEF Upwards, s
  <2>3. ASSUME NEW j \in 1 .. k - 1 PROVE t[j].seq < t[k].seq /\ t[j].n < t[k].n
    <3>1. t[j] = s[j + 1] /\ j + 1 \in 1 .. k
      BY <1>2, <1>4, <2>1
    <3> QED BY <2>1, <2>2, <3>1
  <2>4. ASSUME NEW i \in Lines(file', 0), file'[i].by = p
        PROVE  file'[i].seq < t[k].seq /\ file'[i].n < t[k].n
    <3>1. 1 \in 1 .. k
      BY <2>1
    <3> QED BY <1>3, <1>8, <2>1, <2>2, <2>4, <3>1
  <2> QED BY <1>4, <2>1, <2>2, <2>3, <2>4
<1>12. ASSUME NEW i \in Lines(file', 0), file'[i].by = p PROVE file'[i].seq <= store'[p].seq
  BY <1>4, <1>5, <1>8, <1>9, <1>12 DEF Upwards
<1>13. \A e \in store'[p].read : e.seq <= store'[p].seq
  BY <1>4, <1>5 DEF Upwards
<1>14. Upwards(p)'
  BY <1>11, <1>12, <1>13 DEF Upwards, t
<1>15. ASSUME NEW q \in Stores, q # p PROVE Upwards(q)'
  <2>1. store'[q] = store[q] /\ Upwards(q)
    BY <1>4, <1>15 DEF OthersSame, NumbersUp
  <2>2. OwnWithin(q)
    BY <1>8, <1>9, <1>15 DEF OwnWithin
  <2>3. store'[q].seq >= store[q].seq
    BY <2>1, Numbers
  <2> QED BY <2>1, <2>2, <2>3, UpwardsSame
<1> QED BY <1>10, <1>14, <1>15 DEF NumbersUp

LEMMA NumbersUpStep ==
  ASSUME IInv, [Next]_vars, Typed'
  PROVE  NumbersUp'
<1>a. Typed /\ LockHeld /\ NumbersUp /\ Typed'
  BY DEF IInv
<1>b. /\ store \in [Stores -> StoreT(made)]
      /\ made \in Nat /\ file \in Seq(Chunks(made)) /\ Len(file) \in Nat
  BY <1>a DEF Typed
<1>c. \A p \in Stores : Upwards(p)
  BY <1>a DEF NumbersUp
<1>d. file' = file => Within(file', file)
  BY FileSame
<1>1. ASSUME NEW p \in Stores, OpenReads(p) PROVE NumbersUp'
  <2>1. /\ store[p].up = "down" /\ store[p].pc = "idle" /\ OthersSame(p)
        /\ store'[p].pending = store[p].pending
        /\ store'[p].seq = TopSeq(Readable(file), 0) /\ store'[p].read = Readable(file)
        /\ file' = file
    BY <1>1, <1>a, OpenReadsDoes
  <2>2. store[p].pending = <<>>
    BY <1>a, <2>1 DEF LockHeld, NoStore
  <2>3. \A e \in Readable(file) : TopSeq(Readable(file), 0) >= e.seq
    <3>1. \A e \in ReadAfter(file, 0) : e.seq \in 0 .. made
      BY <1>b, LinesAre
    <3>2. \A e \in ReadAfter(file, 0) : TopSeq(ReadAfter(file, 0), 0) >= e.seq
      BY <1>b, <3>1, TopSeqIs
    <3> QED BY <3>2 DEF Readable
  <2>4. TopSeq(Readable(file), 0) \in Nat
    BY <1>a, <1>b, TopOfFile
  <2>5. \A e \in Readable(file) : e.seq \in Nat
    <3>1. \A e \in ReadAfter(file, 0) : e.seq \in 1 .. made
      BY <1>b, LinesAre
    <3> QED BY <3>1 DEF Readable
  <2>6. \A e \in Readable(file) : e.seq <= TopSeq(Readable(file), 0)
    BY <2>3, <2>4, <2>5
  <2>7. \A i \in Lines(file, 0) : file[i].seq <= TopSeq(Readable(file), 0)
    BY <2>6 DEF Readable, ReadAfter
  <2>8. 1 .. Len(store'[p].pending) = {}
    BY <2>1, <2>2
  <2>9. Upwards(p)'
    BY <2>1, <2>6, <2>7, <2>8 DEF Upwards
  <2> QED BY <1>a, <1>d, <2>1, <2>9, UpSteps
<1>2. ASSUME NEW p \in Stores, OpenLooks(p) \/ OpenCuts(p) PROVE NumbersUp'
  <2>1. /\ OthersSame(p) /\ store[p].pc \in {"opening", "opencut"}
        /\ store'[p].pending = store[p].pending /\ store'[p].seq = store[p].seq
        /\ store'[p].read = store[p].read \/ store'[p].read = {}
    BY <1>2, <1>a, OpenLooksDoes, OpenCutsDoes
  <2>2. Within(file', file)
    <3>1. CASE OpenLooks(p)
      BY <1>a, <1>d, <3>1, OpenLooksDoes
    <3>2. CASE OpenCuts(p)
      BY <1>a, <1>b, <3>2, OpenCutsDoes, LinesTruncated
    <3> QED BY <1>2, <3>1, <3>2
  <2>3. store[p] # NoStore /\ store'[p].seq >= store[p].seq
    BY <1>a, <2>1, Numbers DEF NoStore
  <2>4. Upwards(p)'
    BY <1>a, <1>c, <2>1, <2>2, <2>3, OwnOfWithin, UpwardsSame
  <2> QED BY <1>a, <2>1, <2>2, <2>4, UpSteps
<1>3. ASSUME NEW p \in Stores, AppendLine(p) \/ MailMarks(p) PROVE NumbersUp'
  BY <1>3, <1>a, NumberingIs, NumberedUp
<1>4. ASSUME NEW p \in Stores, Flush(p) PROVE NumbersUp'
  <2>1. /\ OthersSame(p) /\ store[p].up = "open"
        /\ store'[p].pending = store[p].pending /\ store'[p].seq = CaughtUp(p).seq
        /\ store'[p].read = store[p].read /\ file' = file
    BY <1>4, <1>a, FlushDoes
  <2>2. store[p] # NoStore /\ store'[p].seq >= store[p].seq
    <3>1. store[p] # NoStore
      BY <2>1 DEF NoStore
    <3> QED BY <1>a, <2>1, <3>1, CaughtUpSeq
  <2>3. Upwards(p)'
    BY <1>a, <1>c, <1>d, <2>1, <2>2, OwnOfWithin, UpwardsSame
  <2> QED BY <1>a, <1>d, <2>1, <2>3, UpSteps
<1>5. ASSUME NEW p \in Stores, Close(p) \/ LookAtTail(p) PROVE NumbersUp'
  <2>1. /\ OthersSame(p) /\ (store[p].up = "open" \/ store[p].pc = "tail")
        /\ store'[p].pending = store[p].pending /\ store'[p].seq = store[p].seq
        /\ store'[p].read = store[p].read /\ file' = file
    BY <1>5, <1>a, CloseDoes, LookAtTailDoes
  <2>2. store[p] # NoStore /\ store'[p].seq >= store[p].seq
    BY <1>a, <2>1, Numbers DEF NoStore
  <2>3. Upwards(p)'
    BY <1>a, <1>c, <1>d, <2>1, <2>2, OwnOfWithin, UpwardsSame
  <2> QED BY <1>a, <1>d, <2>1, <2>3, UpSteps
<1>6. ASSUME NEW p \in Stores, CutTail(p) PROVE NumbersUp'
  <2>1. /\ store[p].pc = "cut" /\ store[p].end \in Nat
        /\ file' = Truncate(file, store[p].end)
        /\ \A q \in Stores \ {p} : store[q] = NoStore => store'[q] = NoStore
        /\ \A q \in Stores :
             /\ store'[q].read = store[q].read
             /\ store'[q].seq = store[q].seq /\ store'[q].pending = store[q].pending
    BY <1>6, <1>a, CutTailDoes
  <2>2. Within(file', file)
    BY <1>b, <2>1, LinesTruncated
  <2>3. ASSUME NEW q \in Stores PROVE Upwards(q)'
    <3>1. store'[q] # NoStore => store[q] # NoStore
      BY <2>1 DEF NoStore
    <3>2. store'[q].seq >= store[q].seq
      BY <1>a, <2>1, Numbers
    <3> QED BY <1>a, <1>c, <2>1, <2>2, <3>1, <3>2, OwnOfWithin, UpwardsSame
  <2> QED BY <1>a, <2>2, <2>3, OrderSame DEF NumbersUp
<1>7. ASSUME NEW p \in Stores, Write(p) PROVE NumbersUp'
  BY <1>7, <1>a, WrittenUp
<1>8. ASSUME NEW p \in Stores, WriteFails(p) PROVE NumbersUp'
  <2>1. /\ OthersSame(p) /\ store[p].pc = "write"
        /\ store'[p].pending = store[p].pending /\ store'[p].seq = store[p].seq
        /\ store'[p].read = store[p].read /\ file' \in {file, Append(file, Torn)}
    BY <1>8, <1>a, WriteFailsDoes
  <2>2. store[p] # NoStore /\ store'[p].seq >= store[p].seq
    BY <1>a, <2>1, Numbers DEF NoStore
  <2>3. Within(file', file)
    BY <1>b, <2>1, LinesTorn
  <2>4. Upwards(p)'
    BY <1>a, <1>c, <2>1, <2>2, <2>3, OwnOfWithin, UpwardsSame
  <2> QED BY <1>a, <2>1, <2>3, <2>4, UpSteps
<1>9. ASSUME NEW p \in Stores, Exit(p) \/ Crash(p) PROVE NumbersUp'
  <2>1. /\ OthersSame(p) /\ store'[p] = NoStore /\ file' \in {file, Append(file, Torn)}
    BY <1>9, <1>a, GoneDoes
  <2>2. Within(file', file)
    BY <1>b, <2>1, LinesTorn
  <2> QED BY <1>a, <2>1, <2>2, UpSteps, UpwardsGone
<1>10. ASSUME NEW p \in Stores, MailLooks(p) \/ MailTells(p) PROVE NumbersUp'
  BY <1>10, <1>a, <1>d, MailDoes, UpStill
<1>11. CASE ServeStarts
  BY <1>11, <1>a, <1>d, ServeStartsDoes, UpStill
<1>12. CASE ServeWrites \/ ServeFails
  <2>1. /\ UNCHANGED store /\ serve \in Ents(made) /\ serve.by = Serve
        /\ file' = Append(file, serve) \/ file' \in {file, Append(file, Torn)}
    BY <1>12, <1>a, ServeEndsDoes
  <2>2. CASE file' \in {file, Append(file, Torn)}
    BY <1>a, <1>b, <2>1, <2>2, LinesTorn, UpStill
  <2>3. CASE file' = Append(file, serve)
    <3>1. PICK c \in Ents(made) : c = serve /\ c.by = Serve
      BY <2>1
    <3>2. c \in Chunks(made)
      BY DEF Chunks
    <3>3. \A i \in Lines(file', 0) :
            \/ i \in Lines(file, 0) /\ file'[i] = file[i] /\ i <= Len(file)
            \/ i = Len(file) + 1 /\ file'[i] = c
      <4>1. \A i \in Lines(Append(file, c), 0) :
              \/ i \in Lines(file, 0) /\ Append(file, c)[i] = file[i] /\ i <= Len(file)
              \/ i = Len(file) + 1 /\ Append(file, c)[i] = c /\ IsEntry(c)
        BY <1>b, <3>2, LinesAppended
      <4> QED BY <2>3, <3>1, <4>1, Zenon
    <3>4. ASSUME NEW q \in Stores PROVE Upwards(q)'
      <4>1. OwnWithin(q)
        BY <3>1, <3>3, Actors DEF OwnWithin
      <4>2. store'[q].seq >= store[q].seq
        BY <1>a, <2>1, Numbers
      <4> QED BY <1>a, <1>c, <2>1, <4>1, <4>2, UpwardsSame
    <3>5. OrderKept'
      <4> SUFFICES ASSUME NEW i \in Lines(file', 0), NEW j \in Lines(file', 0), i < j,
                          file'[i].by = file'[j].by, file'[i].by # Serve
                   PROVE  file'[i].seq < file'[j].seq /\ file'[i].n < file'[j].n
        BY DEF OrderKept
      <4>1. i \in Lines(file, 0) /\ file'[i] = file[i] /\ j \in Lines(file, 0) /\ file'[j] = file[j]
        BY <3>1, <3>3
      <4> QED BY <1>a, <4>1 DEF NumbersUp, OrderKept
    <3> QED BY <3>4, <3>5 DEF NumbersUp
  <2> QED BY <2>1, <2>2, <2>3
<1>13. CASE UNCHANGED vars
  BY <1>13, <1>a, <1>d, UpStill DEF vars
<1> QED
  BY <1>1, <1>2, <1>3, <1>4, <1>5, <1>6, <1>7, <1>8, <1>9, <1>10, <1>11, <1>12, <1>13
  DEF Next, Proceed, Deliver

----------------------------------------------------------------------------
(* Numbers given under the lock are apart.                                 *)

\* The firm lines are lines that were there, and were firm.
FirmWithin ==
  \A i \in Lines(file', 0) :
    file'[i] \notin loose' => i \in Lines(file, 0) /\ file'[i] = file[i] /\ Firm(file[i])

LEMMA FirmOfWithin ==
  ASSUME Within(file', file), loose \subseteq loose'
  PROVE  FirmWithin
  BY DEF Within, FirmWithin, Firm

LEMMA FirmApartSame ==
  ASSUME FirmApart, FirmWithin
  PROVE  FirmApart'
  BY DEF FirmApart, FirmWithin, Firm

LEMMA AboveSame ==
  ASSUME FirmWithin, NEW e, Above(e)
  PROVE  Above(e)'
  BY DEF Above, FirmWithin, Firm

LEMMA ServeAboveSame ==
  ASSUME ServeAbove, FirmWithin, loose \subseteq loose', serve' = serve,
         lock = Serve => lock' = Serve
  PROVE  ServeAbove'
<1> SUFFICES ASSUME serve' # Torn, serve' \notin loose' PROVE lock' = Serve /\ Above(serve)'
  BY DEF ServeAbove, Firm
<1>1. PICK e : e = serve
  OBVIOUS
<1>2. lock = Serve /\ Above(e)
  BY <1>1 DEF ServeAbove, Firm
<1>3. Above(e)'
  BY <1>2, AboveSame
<1> QED BY <1>1, <1>2, <1>3 DEF Above

LEMMA PendingAboveSame ==
  ASSUME NEW p \in Stores, PendingAbove(p), FirmWithin, loose \subseteq loose',
         store'[p].pending = store[p].pending, Holds(p) => Holds(p)'
  PROVE  PendingAbove(p)'
<1>1. ASSUME NEW k \in 1 .. Len(store[p].pending), store[p].pending[k] \notin loose'
      PROVE  /\ Holds(p)' /\ k = Len(store[p].pending)
             /\ \A i \in Lines(file', 0) :
                  file'[i] \notin loose' => file'[i].seq < store[p].pending[k].seq
  <2>1. Holds(p) /\ k = Len(store[p].pending) /\ Above(store[p].pending[k])
    BY <1>1 DEF PendingAbove, Firm
  <2> QED BY <2>1 DEF Above, FirmWithin, Firm
<1> QED BY <1>1 DEF PendingAbove, Above, Firm

LEMMA PendingEmpty ==
  ASSUME NEW p \in Stores, store'[p].pending = <<>>
  PROVE  PendingAbove(p)'
<1>1. 1 .. Len(store'[p].pending) = {}
  OBVIOUS
<1> QED BY <1>1 DEF PendingAbove

LEMMA CoversSame ==
  ASSUME Typed, Typed', NEW p \in Stores, Covers(p), FirmWithin,
         store'[p].off <= Len(file') \/ (store'[p].off <= store[p].off /\ Len(file) <= Len(file')),
         ~store'[p].blind => ~store[p].blind,
         store'[p].off <= store[p].off, store'[p].seq >= store[p].seq
  PROVE  Covers(p)'
<1>1. /\ store[p].off \in Nat /\ store'[p].off \in Nat /\ store[p].seq \in Nat
      /\ store'[p].seq \in Nat /\ Len(file) \in Nat /\ Len(file') \in Nat
      /\ file \in Seq(Chunks(made)) /\ made \in Nat
  BY DEF Typed, StoreT
<1> SUFFICES ASSUME ~store'[p].blind
             PROVE  /\ store'[p].off <= Len(file')
                    /\ \A i \in Lines(file', 0) :
                         i <= store'[p].off /\ file'[i] \notin loose' => file'[i].seq <= store'[p].seq
  BY DEF Covers, Firm
<1>2. /\ store[p].off <= Len(file)
      /\ \A i \in Lines(file, 0) :
           i <= store[p].off /\ Firm(file[i]) => file[i].seq <= store[p].seq
  BY DEF Covers
<1>3. store'[p].off <= Len(file')
  BY <1>1, <1>2
<1>4. ASSUME NEW i \in Lines(file', 0), i <= store'[p].off, file'[i] \notin loose'
      PROVE  file'[i].seq <= store'[p].seq
  <2>1. i \in Lines(file, 0) /\ file'[i] = file[i] /\ Firm(file[i])
    BY <1>4 DEF FirmWithin
  <2>2. i \in Nat /\ file[i].seq \in Nat
    <3>1. i \in 1 .. Len(file) /\ file[i] \in Ents(made)
      BY <1>1, <2>1, LinesAre
    <3> QED BY <1>1, <3>1 DEF Ents
  <2>3. i <= store[p].off
    BY <1>1, <1>4, <2>2
  <2> QED BY <1>1, <1>2, <2>1, <2>2, <2>3
<1> QED BY <1>3, <1>4

LEMMA CoversStill ==
  ASSUME Typed, Typed', NEW p \in Stores, Covers(p), FirmWithin, Len(file) <= Len(file'),
         store'[p] = store[p]
  PROVE  Covers(p)'
<1>1. store[p].off \in Nat /\ store[p].seq \in Nat
  BY Numbers
<1>2. store'[p].off <= store[p].off /\ store'[p].seq >= store[p].seq
  BY <1>1
<1>3. ~store'[p].blind => ~store[p].blind
  OBVIOUS
<1> QED BY <1>2, <1>3, CoversSame

LEMMA ApartParts ==
  ASSUME "cut" \notin bare' =>
           FirmApart' /\ ServeAbove' /\ \A p \in Stores : PendingAbove(p)' /\ Covers(p)'
  PROVE  NumbersApart'
  BY DEF NumbersApart

\* A step that adds no firm line and changes p's store alone.
LEMMA ApartSteps ==
  ASSUME Typed, Typed', NumbersApart, bare \subseteq bare', loose \subseteq loose', FirmWithin,
         Len(file) <= Len(file'), NEW p \in Stores, OthersSame(p), serve' = serve,
         lock = Serve => lock' = Serve, \A q \in Stores \ {p} : Holds(q) => Holds(q)',
         "cut" \notin bare' => PendingAbove(p)' /\ Covers(p)'
  PROVE  NumbersApart'
<1> SUFFICES ASSUME "cut" \notin bare'
             PROVE  FirmApart' /\ ServeAbove' /\ \A q \in Stores : PendingAbove(q)' /\ Covers(q)'
  BY ApartParts
<1>1. FirmApart /\ ServeAbove /\ \A q \in Stores : PendingAbove(q) /\ Covers(q)
  BY DEF NumbersApart
<1>2. FirmApart' /\ ServeAbove'
  BY <1>1, FirmApartSame, ServeAboveSame
<1>3. ASSUME NEW q \in Stores, q # p PROVE PendingAbove(q)' /\ Covers(q)'
  <2>1. store'[q] = store[q] /\ (Holds(q) => Holds(q)')
    BY <1>3 DEF OthersSame
  <2> QED BY <1>1, <2>1, PendingAboveSame, CoversStill
<1> QED BY <1>2, <1>3

\* A step that adds no firm line and leaves the stores alone.
LEMMA ApartStill ==
  ASSUME Typed, Typed', NumbersApart, bare \subseteq bare', loose \subseteq loose', FirmWithin,
         Len(file) <= Len(file'), UNCHANGED store, "cut" \notin bare' => ServeAbove',
         \A q \in Stores : Holds(q) => Holds(q)'
  PROVE  NumbersApart'
<1> SUFFICES ASSUME "cut" \notin bare'
             PROVE  FirmApart' /\ ServeAbove' /\ \A q \in Stores : PendingAbove(q)' /\ Covers(q)'
  BY ApartParts
<1>1. FirmApart /\ ServeAbove /\ \A q \in Stores : PendingAbove(q) /\ Covers(q)
  BY DEF NumbersApart
<1>2. FirmApart' /\ ServeAbove'
  BY <1>1, FirmApartSame
<1>3. ASSUME NEW q \in Stores PROVE PendingAbove(q)' /\ Covers(q)'
  BY <1>1, <1>3, PendingAboveSame, CoversStill
<1> QED BY <1>2, <1>3

(* catchUp leaves a store that was not blind above every firm line.        *)
LEMMA CaughtUpCovers ==
  ASSUME Typed, NEW p \in Stores, Covers(p), ~store[p].blind
  PROVE  /\ CaughtUp(p).off = Len(file)
         /\ \A i \in Lines(file, 0) : Firm(file[i]) => file[i].seq <= CaughtUp(p).seq
<1>1. /\ CaughtUp(p).seq \in Nat /\ CaughtUp(p).seq >= store[p].seq
      /\ store[p].seq \in Nat /\ store[p].off \in Nat
      /\ \A i \in Lines(file, 0) : file[i] \in Ents(made)
      /\ \A e \in Ents(made) : e.seq \in Nat
  BY CaughtUpSeq, Numbers
<1>2. file \in Seq(Chunks(made)) /\ Len(file) \in Nat
  BY DEF Typed
<1>3. /\ store[p].off <= Len(file)
      /\ \A i \in Lines(file, 0) :
           i <= store[p].off /\ Firm(file[i]) => file[i].seq <= store[p].seq
  BY DEF Covers
<1>4. /\ CaughtUp(p).off = IF Len(file) > store[p].off THEN Len(file) ELSE store[p].off
      /\ \A e \in ReadAfter(file, store[p].off) : CaughtUp(p).seq >= e.seq
  BY CaughtUpIs
<1>5. CaughtUp(p).off = Len(file)
  BY <1>1, <1>2, <1>3, <1>4
<1>6. ASSUME NEW i \in Lines(file, 0), Firm(file[i])
      PROVE  file[i].seq <= CaughtUp(p).seq
  <2>1. i \in 1 .. Len(file) /\ IsEntry(file[i]) /\ (i = 0 + 1 \/ IsEntry(file[i - 1]))
    BY DEF Lines
  <2>2. CASE i <= store[p].off
    BY <1>1, <1>3, <1>6, <2>2
  <2>3. CASE ~(i <= store[p].off)
    <3>1. i \in store[p].off + 1 .. Len(file) /\ (i = 1 => i = store[p].off + 1)
      BY <1>1, <1>2, <2>1, <2>3
    <3>2. i \in Lines(file, store[p].off)
      BY <2>1, <3>1 DEF Lines
    <3>3. file[i] \in ReadAfter(file, store[p].off)
      BY <3>2 DEF ReadAfter
    <3> QED BY <1>1, <1>4, <3>3
  <2> QED BY <2>2, <2>3
<1> QED BY <1>5, <1>6

LEMMA CoversNone ==
  ASSUME Typed', NEW p \in Stores, store'[p].off = 0
  PROVE  Covers(p)'
<1>1. file' \in Seq(Chunks(made')) /\ made' \in Nat /\ Len(file') \in Nat
  BY DEF Typed
<1>2. \A i \in Lines(file', 0) : i > 0 /\ i \in Nat
  BY DEF Lines
<1> QED BY <1>1, <1>2 DEF Covers

\* Opening: what the store read is what stands in the file.
LEMMA OpenApart ==
  ASSUME IInv, Typed', NEW p \in Stores, OpenReads(p) \/ OpenLooks(p)
  PROVE  NumbersApart'
<1>a. Typed /\ LockHeld /\ NumbersUp /\ NumbersApart
  BY DEF IInv
<1>b. file \in Seq(Chunks(made)) /\ made \in Nat /\ Len(file) \in Nat
  BY <1>a DEF Typed
<1>1. /\ OthersSame(p) /\ store[p].pending = <<>> /\ store'[p].pending = store[p].pending
      /\ UNCHANGED <<file, lock, serve, loose, bare>>
  <2>1. CASE OpenReads(p)
    <3>1. /\ OthersSame(p) /\ store[p].up = "down" /\ store[p].pc = "idle"
          /\ store'[p].pending = store[p].pending
          /\ UNCHANGED <<file, lock, serve, loose, bare>>
      BY <1>a, <2>1, OpenReadsDoes
    <3> QED BY <1>a, <3>1 DEF LockHeld, NoStore
  <2>2. CASE OpenLooks(p)
    <3>1. /\ OthersSame(p) /\ store[p].pc = "opening"
          /\ store'[p].pending = store[p].pending
          /\ UNCHANGED <<file, lock, serve, loose, bare>>
      BY <1>a, <2>2, OpenLooksDoes
    <3>2. store[p].up = "down" /\ store[p].pc # "idle"
      BY <1>a, <3>1 DEF LockHeld
    <3> QED BY <1>a, <3>1, <3>2 DEF LockHeld, NoStore
  <2> QED BY <2>1, <2>2
<1>2. FirmWithin
  BY <1>1, FileSame, FirmOfWithin
<1>3. ASSUME "cut" \notin bare' PROVE Covers(p)'
  <2>1. Covers(p)
    BY <1>a, <1>1, <1>3 DEF NumbersApart
  <2>2. CASE OpenReads(p)
    <3>1. store[p].up = "down" /\ store[p].pc = "idle" /\ store'[p].off = store[p].off
      BY <1>a, <2>2, OpenReadsDoes
    <3>2. store'[p].off = 0
      BY <1>a, <3>1 DEF LockHeld, NoStore
    <3> QED BY <3>2, CoversNone
  <2>3. CASE OpenLooks(p)
    <3>1. store'[p].seq = store[p].seq
      BY <1>a, <2>3, OpenLooksDoes
    <3>2. store[p].seq \in Nat /\ store[p].off \in Nat
      BY <1>a, Numbers
    <3>3. CASE store'[p].off = store[p].off /\ store'[p].blind = store[p].blind
      <4>1. store'[p].off <= store[p].off /\ store'[p].seq >= store[p].seq
            /\ Len(file) <= Len(file')
        BY <1>1, <1>b, <3>1, <3>2, <3>3
      <4> QED BY <1>a, <1>2, <2>1, <3>3, <4>1, CoversSame
    <3>4. CASE store'[p].off = Len(file) /\ (~store'[p].blind => Readable(file) = store[p].read)
      <4> SUFFICES ASSUME ~store'[p].blind
                   PROVE  /\ store'[p].off <= Len(file)
                          /\ \A i \in Lines(file, 0) : file[i].seq <= store'[p].seq
        BY <1>1 DEF Covers, Firm
      <4>1. \A i \in Lines(file, 0) : file[i] \in store[p].read
        BY <3>4 DEF Readable, ReadAfter
      <4>2. \A e \in store[p].read : e.seq <= store[p].seq
        BY <1>a DEF NumbersUp, Upwards
      <4> QED BY <1>b, <3>1, <3>4, <4>1, <4>2
    <3> QED BY <1>a, <2>3, <3>3, <3>4, OpenLooksDoes
  <2> QED BY <2>2, <2>3
<1>4. Len(file) <= Len(file') /\ bare \subseteq bare' /\ loose \subseteq loose'
      /\ (lock = Serve => lock' = Serve) /\ \A q \in Stores \ {p} : Holds(q) => Holds(q)'
  BY <1>1, <1>b DEF Holds
<1> QED BY <1>a, <1>1, <1>2, <1>3, <1>4, PendingEmpty, ApartSteps

\* Numbering: under the lock, past every firm line the file holds.
LEMMA NumberedApart ==
  ASSUME IInv, Typed', NEW p \in Stores, Numbering(p)
  PROVE  NumbersApart'
<1>a. Typed /\ LockHeld /\ NumbersUp /\ NumbersApart
  BY DEF IInv
<1>b. file \in Seq(Chunks(made)) /\ made \in Nat /\ Len(file) \in Nat
  BY <1>a DEF Typed
<1>1. /\ store[p].pc = "idle" /\ OthersSame(p)
      /\ store'[p].off = CaughtUp(p).off /\ store'[p].blind = store[p].blind
      /\ UNCHANGED <<file, serve, bare>>
      /\ (lock = Nobody /\ lock' = p) \/ lock' = lock
  BY <1>a, NumberingDoes
<1>2. PICK e \in Ents(made + 1) :
        /\ e.seq = CaughtUp(p).seq + 1
        /\ store'[p].seq = e.seq /\ store'[p].pending = Append(store[p].pending, e)
        /\ loose' = IF lock' = p /\ ~store[p].blind THEN loose ELSE loose \cup {e}
  BY <1>a, NumberingDoes
<1>3. FirmWithin /\ loose \subseteq loose'
  <2>1. loose \subseteq loose'
    BY <1>2
  <2> QED BY <1>1, <2>1, FileSame, FirmOfWithin
<1>4. ~Holds(p)
  BY <1>a, <1>1 DEF LockHeld, Writing
<1>5. ASSUME "cut" \notin bare' PROVE PendingAbove(p)' /\ Covers(p)'
  <2>1. Covers(p) /\ PendingAbove(p)
    BY <1>a, <1>1, <1>5 DEF NumbersApart
  <2>2. CaughtUp(p).seq \in Nat /\ \A i \in Lines(file, 0) : file[i].seq \in Nat
    <3>1. \A i \in Lines(file, 0) : file[i] \in Ents(made)
      BY <1>b, LinesAre
    <3> QED BY <1>a, <3>1, CaughtUpSeq DEF Ents
  <2>3. ~store[p].blind =>
          /\ store'[p].off = Len(file)
          /\ \A i \in Lines(file, 0) : Firm(file[i]) => file[i].seq < e.seq
    <3> HAVE ~store[p].blind
    <3>1. /\ CaughtUp(p).off = Len(file)
          /\ \A i \in Lines(file, 0) : Firm(file[i]) => file[i].seq <= CaughtUp(p).seq
      BY <1>a, <2>1, CaughtUpCovers
    <3> QED BY <1>1, <1>2, <2>2, <3>1
  <2>4. Covers(p)'
    <3>1. store'[p].seq = e.seq /\ e.seq \in Nat
      BY <1>2, <2>2
    <3>2. \A i \in Lines(file', 0) : file'[i] \notin loose' =>
            i \in Lines(file, 0) /\ file'[i] = file[i] /\ Firm(file[i])
      BY <1>3 DEF FirmWithin
    <3> QED BY <1>1, <1>b, <2>2, <2>3, <3>1, <3>2 DEF Covers, Firm
  <2>5. ASSUME NEW k \in 1 .. Len(store'[p].pending), store'[p].pending[k] \notin loose'
        PROVE  /\ lock' = p /\ k = Len(store'[p].pending)
               /\ \A i \in Lines(file', 0) :
                    file'[i] \notin loose' => file'[i].seq < store'[p].pending[k].seq
    <3>1. store[p].pending \in Seq(Ents(made + 1))
      <4>1. store[p].pending \in Seq(Ents(made)) /\ Ents(made) \subseteq Ents(made + 1)
        BY <1>a, <1>b, Numbers, TypesGrow
      <4> QED BY <4>1
    <3>2. /\ Len(store'[p].pending) = Len(store[p].pending) + 1
          /\ Len(store[p].pending) \in Nat
          /\ store'[p].pending[Len(store[p].pending) + 1] = e
          /\ \A j \in 1 .. Len(store[p].pending) : store'[p].pending[j] = store[p].pending[j]
      BY <1>2, <3>1, Appended
    <3>3. k \notin 1 .. Len(store[p].pending)
      BY <1>3, <1>4, <2>1, <2>5, <3>2 DEF PendingAbove, Firm
    <3>4. k = Len(store[p].pending) + 1 /\ k = Len(store'[p].pending)
      BY <3>2, <3>3
    <3>5. e \notin loose' /\ store'[p].pending[k] = e
      BY <2>5, <3>2, <3>4
    <3>6. lock' = p /\ ~store[p].blind
      BY <1>2, <3>5
    <3>7. Above(e)
      BY <2>3, <3>6 DEF Above
    <3>8. \A i \in Lines(file', 0) : file'[i] \notin loose' => file'[i].seq < e.seq
      BY <1>3, <3>7 DEF Above, FirmWithin
    <3> QED BY <3>4, <3>5, <3>6, <3>8
  <2> QED BY <2>4, <2>5 DEF PendingAbove, Above, Firm, Holds
<1>6. /\ Len(file) <= Len(file') /\ bare \subseteq bare'
      /\ (lock = Serve => lock' = Serve) /\ \A q \in Stores \ {p} : Holds(q) => Holds(q)'
  BY <1>1, <1>b, Actors DEF Holds
<1> QED BY <1>a, <1>1, <1>3, <1>5, <1>6, ApartSteps

\* A firm line of a store that does not hold the lock does not wait.
LEMMA OnlyHolderPends ==
  ASSUME NEW p \in Stores, PendingAbove(p), ~Holds(p), loose \subseteq loose',
         store'[p].pending = store[p].pending
  PROVE  PendingAbove(p)'
  BY DEF PendingAbove, Firm

\* A line beyond its offset does not concern a store.
LEMMA CoversBeyond ==
  ASSUME Typed, Typed', NEW p \in Stores, Covers(p), store'[p] = store[p], loose' = loose,
         Len(file) <= Len(file'),
         \A i \in Lines(file', 0) :
           (i \in Lines(file, 0) /\ file'[i] = file[i]) \/ i = Len(file) + 1
  PROVE  Covers(p)'
<1>1. /\ store[p].off \in Nat /\ Len(file) \in Nat /\ Len(file') \in Nat
  BY Numbers DEF Typed
<1> SUFFICES ASSUME ~store[p].blind
             PROVE  /\ store[p].off <= Len(file')
                    /\ \A i \in Lines(file', 0) :
                         i <= store[p].off /\ file'[i] \notin loose => file'[i].seq <= store[p].seq
  BY DEF Covers, Firm
<1>2. /\ store[p].off <= Len(file)
      /\ \A i \in Lines(file, 0) :
           i <= store[p].off /\ Firm(file[i]) => file[i].seq <= store[p].seq
  BY DEF Covers
<1>3. \A i \in Lines(file', 0) :
        i <= store[p].off => i \in Lines(file, 0) /\ file'[i] = file[i]
  BY <1>1, <1>2
<1> QED BY <1>1, <1>2, <1>3 DEF Firm

\* A line goes down: it is not firm, or above every firm line.
LEMMA LinePutApart ==
  ASSUME NEW c \in Ents(made), Typed, FirmApart, Firm(c) => Above(c), loose' = loose,
         file' = Append(file, c)
  PROVE  /\ FirmApart' /\ (~Firm(c) => FirmWithin) /\ Len(file) <= Len(file')
         /\ \A i \in Lines(file', 0) :
              \/ i \in Lines(file, 0) /\ file'[i] = file[i]
              \/ i = Len(file) + 1 /\ file'[i] = c
<1>1. file \in Seq(Chunks(made)) /\ made \in Nat /\ c \in Chunks(made) /\ Len(file) \in Nat
  BY DEF Typed, Chunks
<1>2. \A i \in Lines(file', 0) :
        \/ i \in Lines(file, 0) /\ file'[i] = file[i]
        \/ i = Len(file) + 1 /\ file'[i] = c
  <2>1. \A i \in Lines(Append(file, c), 0) :
          \/ i \in Lines(file, 0) /\ Append(file, c)[i] = file[i] /\ i <= Len(file)
          \/ i = Len(file) + 1 /\ Append(file, c)[i] = c /\ IsEntry(c)
    BY <1>1, LinesAppended
  <2> QED BY <2>1, Zenon
<1>3. Len(file') = Len(file) + 1 /\ Len(file) <= Len(file')
  BY <1>1, Appended
<1>4. FirmApart'
  <2> SUFFICES ASSUME NEW i \in Lines(file', 0), NEW j \in Lines(file', 0), i # j,
                      file'[i] \notin loose, file'[j] \notin loose
               PROVE  file'[i].seq # file'[j].seq
    BY DEF FirmApart, Firm
  <2>1. \A k \in Lines(file, 0) : file[k].seq \in Nat
    <3>1. \A k \in Lines(file, 0) : file[k] \in Ents(made)
      BY <1>1, LinesAre
    <3> QED BY <1>1, <3>1 DEF Ents
  <2>2. c.seq \in Nat
    BY <1>1 DEF Ents
  <2>3. CASE i \in Lines(file, 0) /\ file'[i] = file[i]
    <3>1. CASE j \in Lines(file, 0) /\ file'[j] = file[j]
      BY <2>3, <3>1 DEF FirmApart, Firm
    <3>2. CASE file'[j] = c
      BY <2>1, <2>2, <2>3, <3>2 DEF Above, Firm
    <3> QED BY <1>2, <3>1, <3>2
  <2>4. CASE i = Len(file) + 1 /\ file'[i] = c
    <3>1. j \in Lines(file, 0) /\ file'[j] = file[j]
      BY <1>2, <2>4
    <3> QED BY <2>1, <2>2, <2>4, <3>1 DEF Above, Firm
  <2> QED BY <1>2, <2>3, <2>4
<1>5. ~Firm(c) => FirmWithin
  BY <1>2 DEF FirmWithin, Firm
<1> QED BY <1>2, <1>3, <1>4, <1>5

\* A store puts down the first of its lines.
LEMMA WrittenApart ==
  ASSUME IInv, Typed', NEW p \in Stores, Write(p)
  PROVE  NumbersApart'
<1>a. Typed /\ LockHeld /\ NumbersUp /\ NumbersApart
  BY DEF IInv
<1>b. file \in Seq(Chunks(made)) /\ made \in Nat /\ Len(file) \in Nat
  BY <1>a DEF Typed
<1> DEFINE s == store[p].pending
<1>1. /\ OthersSame(p) /\ s \in Seq(Ents(made)) /\ s # <<>>
      /\ file' = Append(file, Head(s))
      /\ store'[p].off = store[p].off + 1
      /\ ~store'[p].blind => ~store[p].blind /\ store[p].off = Len(file)
      /\ store'[p].seq = store[p].seq /\ store'[p].pending = Tail(s)
      /\ \/ Tail(s) = <<>> /\ lock' = IF Holds(p) THEN Nobody ELSE lock
         \/ Tail(s) # <<>> /\ UNCHANGED lock
      /\ bare \subseteq bare' /\ UNCHANGED <<serve, loose>>
  BY <1>a, WriteDoes
<1> HIDE DEF s
<1> SUFFICES ASSUME "cut" \notin bare'
             PROVE  FirmApart' /\ ServeAbove' /\ \A q \in Stores : PendingAbove(q)' /\ Covers(q)'
  BY ApartParts
<1>2. FirmApart /\ ServeAbove /\ \A q \in Stores : PendingAbove(q) /\ Covers(q)
  BY <1>a, <1>1 DEF NumbersApart
<1>3. PICK c \in Ents(made) : c = Head(s)
  BY <1>1, HeadTail
<1>4. /\ c = s[1] /\ 1 \in 1 .. Len(s) /\ Len(s) \in Nat /\ Len(Tail(s)) = Len(s) - 1
      /\ \A k \in 1 .. Len(Tail(s)) : Tail(s)[k] = s[k + 1] /\ k + 1 \in 1 .. Len(s)
  BY <1>1, <1>3, TailIs
<1>5. Firm(c) => Holds(p) /\ Len(s) = 1 /\ Above(c)
  BY <1>2, <1>4 DEF PendingAbove, s
<1>6. file' = Append(file, c)
  BY <1>1, <1>3
<1>7. /\ FirmApart' /\ (~Firm(c) => FirmWithin) /\ Len(file) <= Len(file')
      /\ \A i \in Lines(file', 0) :
           \/ i \in Lines(file, 0) /\ file'[i] = file[i]
           \/ i = Len(file) + 1 /\ file'[i] = c
  BY <1>a, <1>1, <1>2, <1>5, <1>6, LinePutApart
<1>8. ASSUME NEW q \in Stores, q # p PROVE store'[q] = store[q] /\ Covers(q)'
  <2>1. store'[q] = store[q]
    BY <1>1, <1>8 DEF OthersSame
  <2> QED BY <1>a, <1>1, <1>2, <1>7, <2>1, CoversBeyond
<1>9. Covers(p)'
  <2>1. /\ store[p].seq \in Nat /\ store[p].off \in Nat /\ c.seq \in Nat
        /\ \A i \in Lines(file, 0) : i \in 1 .. Len(file)
    <3>1. \A i \in Lines(file, 0) : i \in 1 .. Len(file)
      BY DEF Lines
    <3> QED BY <1>a, <1>b, <3>1, Numbers DEF Ents
  <2>2. c.seq <= store[p].seq
    BY <1>a, <1>4 DEF NumbersUp, Upwards, s
  <2>3. Len(file') = Len(file) + 1
    <3>1. c \in Chunks(made)
      BY DEF Chunks
    <3> QED BY <1>b, <1>6, <3>1, Appended
  <2> SUFFICES ASSUME ~store'[p].blind
               PROVE  /\ store'[p].off <= Len(file')
                      /\ \A i \in Lines(file', 0) :
                           file'[i] \notin loose => file'[i].seq <= store'[p].seq
    BY <1>1 DEF Covers, Firm
  <2>4. \A i \in Lines(file, 0) : Firm(file[i]) => file[i].seq <= store[p].seq
    BY <1>b, <1>1, <1>2, <2>1 DEF Covers
  <2> QED BY <1>b, <1>1, <1>7, <2>1, <2>2, <2>3, <2>4 DEF Firm
<1>10. CASE Firm(c)
  <2>1. lock = p /\ p # Serve /\ Tail(s) = <<>>
    BY <1>1, <1>4, <1>5, <1>10, Actors DEF Holds
  <2>2. ServeAbove'
    BY <1>1, <1>2, <2>1 DEF ServeAbove, Firm
  <2>3. ASSUME NEW q \in Stores PROVE PendingAbove(q)'
    <3>1. CASE q = p
      BY <1>1, <2>1, <3>1, PendingEmpty
    <3>2. CASE q # p
      BY <1>1, <1>2, <1>8, <2>1, <3>2, OnlyHolderPends DEF Holds
    <3> QED BY <3>1, <3>2
  <2> QED BY <1>7, <1>8, <1>9, <2>2, <2>3
<1>11. CASE ~Firm(c)
  <2>1. ServeAbove'
    <3>1. lock = Serve => lock' = Serve
      BY <1>1, Actors DEF Holds
    <3> QED BY <1>1, <1>2, <1>7, <1>11, <3>1, ServeAboveSame
  <2>2. ASSUME NEW q \in Stores, q # p PROVE PendingAbove(q)'
    <3>1. Holds(q) => Holds(q)'
      BY <1>1, <2>2 DEF Holds
    <3> QED BY <1>1, <1>2, <1>7, <1>8, <1>11, <2>2, <3>1, PendingAboveSame
  <2>3. PendingAbove(p)'
    <3>1. ASSUME NEW k \in 1 .. Len(Tail(s)), Tail(s)[k] \notin loose
          PROVE  /\ lock' = p /\ k = Len(Tail(s))
                 /\ \A i \in Lines(file', 0) : file'[i] \notin loose => file'[i].seq < Tail(s)[k].seq
      <4>1. /\ Holds(p) /\ k + 1 = Len(s) /\ Above(s[k + 1])
        BY <1>2, <1>4, <3>1 DEF PendingAbove, Firm, s
      <4>2. k = Len(Tail(s))
        BY <1>4, <4>1
      <4>3. Tail(s) # <<>>
        BY <3>1
      <4>4. lock' = p
        BY <1>1, <4>1, <4>3 DEF Holds
      <4> QED BY <1>1, <1>4, <1>7, <1>11, <4>1, <4>2, <4>4 DEF Above, FirmWithin, Firm
    <3> QED BY <1>1, <3>1 DEF PendingAbove, Above, Firm, Holds
  <2> QED BY <1>7, <1>8, <1>9, <2>1, <2>2, <2>3
<1> QED BY <1>10, <1>11

\* serve numbers past the whole file, and puts its line down.
LEMMA ServeApart ==
  ASSUME IInv, Typed', ServeStarts \/ ServeWrites \/ ServeFails
  PROVE  NumbersApart'
<1>a. Typed /\ NumbersApart
  BY DEF IInv
<1>b. file \in Seq(Chunks(made)) /\ made \in Nat /\ Len(file) \in Nat
  BY <1>a DEF Typed
<1>1. CASE ServeStarts
  <2>1. /\ UNCHANGED <<file, store, bare>>
        /\ serve' \in Ents(made + 1) /\ serve'.seq = TopSeq(Readable(file), 0) + 1
        /\ loose' = IF lock' = Serve THEN loose ELSE loose \cup {serve'}
        /\ (lock = Nobody /\ lock' = Serve) \/ (lock # Nobody /\ lock' = lock)
    BY <1>1, <1>a, ServeStartsDoes
  <2>2. FirmWithin /\ loose \subseteq loose' /\ bare \subseteq bare' /\ Len(file) <= Len(file')
    <3>1. loose \subseteq loose'
      BY <2>1
    <3> QED BY <1>b, <2>1, <3>1, FileSame, FirmOfWithin
  <2>3. \A i \in Lines(file, 0) : file[i].seq < serve'.seq
    <3>1. \A e \in ReadAfter(file, 0) : e.seq \in 0 .. made
      BY <1>b, LinesAre
    <3>2. /\ TopSeq(ReadAfter(file, 0), 0) \in 0 .. made
          /\ \A e \in ReadAfter(file, 0) : TopSeq(ReadAfter(file, 0), 0) >= e.seq
      BY <1>b, <3>1, TopSeqIs
    <3>3. \A i \in Lines(file, 0) : file[i] \in ReadAfter(file, 0)
      BY DEF ReadAfter
    <3> QED BY <1>b, <2>1, <3>1, <3>2, <3>3 DEF Readable
  <2>4. ServeAbove'
    BY <2>1, <2>3 DEF ServeAbove, Above, Firm
  <2>5. \A q \in Stores : Holds(q) => Holds(q)'
    BY <2>1, Actors DEF Holds
  <2> QED BY <1>a, <2>1, <2>2, <2>4, <2>5, ApartStill
<1>2. CASE ServeWrites \/ ServeFails
  <2>1. /\ serve # Torn /\ serve \in Ents(made) /\ serve' = Torn
        /\ UNCHANGED <<store, loose>>
        /\ file' = Append(file, serve) \/ file' \in {file, Append(file, Torn)}
        /\ lock' = IF lock = Serve THEN Nobody ELSE lock
        /\ bare \subseteq bare'
    BY <1>2, <1>a, ServeEndsDoes
  <2>2. ServeAbove' /\ \A q \in Stores : Holds(q) => Holds(q)'
    BY <2>1, Actors DEF ServeAbove, Holds
  <2>3. CASE file' \in {file, Append(file, Torn)}
    <3>1. Within(file', file) /\ Len(file) <= Len(file')
      BY <1>b, <2>3, LinesTorn
    <3>2. FirmWithin
      BY <2>1, <3>1, FirmOfWithin
    <3> QED BY <1>a, <2>1, <2>2, <3>1, <3>2, ApartStill
  <2>4. CASE file' = Append(file, serve)
    <3> SUFFICES ASSUME "cut" \notin bare'
                 PROVE  FirmApart' /\ ServeAbove' /\ \A q \in Stores : PendingAbove(q)' /\ Covers(q)'
      BY ApartParts
    <3>1. FirmApart /\ ServeAbove /\ \A q \in Stores : PendingAbove(q) /\ Covers(q)
      BY <1>a, <2>1 DEF NumbersApart
    <3>2. PICK c \in Ents(made) : c = serve
      BY <2>1
    <3>3. file' = Append(file, c)
      BY <2>4, <3>2
    <3>4. Firm(c) => lock = Serve /\ Above(c)
      BY <2>1, <3>1, <3>2 DEF ServeAbove
    <3>5. /\ FirmApart' /\ (~Firm(c) => FirmWithin) /\ Len(file) <= Len(file')
          /\ \A i \in Lines(file', 0) :
               \/ i \in Lines(file, 0) /\ file'[i] = file[i]
               \/ i = Len(file) + 1 /\ file'[i] = c
      BY <1>a, <2>1, <3>1, <3>3, <3>4, LinePutApart
    <3>6. ASSUME NEW q \in Stores PROVE Covers(q)'
      BY <1>a, <2>1, <3>1, <3>5, CoversBeyond
    <3>7. ASSUME NEW q \in Stores PROVE PendingAbove(q)'
      <4>1. CASE Firm(c)
        <5>1. ~Holds(q)
          BY <3>4, <4>1, Actors DEF Holds
        <5> QED BY <2>1, <3>1, <5>1, OnlyHolderPends
      <4>2. CASE ~Firm(c)
        BY <2>1, <2>2, <3>1, <3>5, <4>2, PendingAboveSame
      <4> QED BY <4>1, <4>2
    <3> QED BY <2>2, <3>5, <3>6, <3>7
  <2> QED BY <2>1, <2>3, <2>4
<1> QED BY <1>1, <1>2

LEMMA NumbersApartStep ==
  ASSUME IInv, [Next]_vars, Typed'
  PROVE  NumbersApart'
<1>a. Typed /\ LockHeld /\ NumbersApart
  BY DEF IInv
<1>b. file \in Seq(Chunks(made)) /\ made \in Nat /\ Len(file) \in Nat
  BY <1>a DEF Typed
<1>c. ASSUME "cut" \notin bare
      PROVE  FirmApart /\ ServeAbove /\ \A q \in Stores : PendingAbove(q) /\ Covers(q)
  BY <1>a, <1>c DEF NumbersApart
<1>1. ASSUME NEW p \in Stores, OpenReads(p) \/ OpenLooks(p) PROVE NumbersApart'
  BY <1>1, OpenApart
<1>2. ASSUME NEW p \in Stores, OpenCuts(p) PROVE NumbersApart'
  BY <1>2, <1>a, OpenCutsDoes, ApartParts
<1>3. ASSUME NEW p \in Stores, AppendLine(p) \/ MailMarks(p) PROVE NumbersApart'
  BY <1>3, <1>a, NumberingIs, NumberedApart
<1>4. ASSUME NEW p \in Stores, Flush(p) PROVE NumbersApart'
  <2>1. /\ OthersSame(p) /\ store'[p].off = CaughtUp(p).off
        /\ store'[p].blind = store[p].blind /\ store'[p].seq = CaughtUp(p).seq
        /\ store'[p].pending = store[p].pending
        /\ UNCHANGED <<file, serve, loose, bare>>
        /\ (lock = Nobody /\ lock' = p) \/ (lock # Nobody /\ lock' = lock)
    BY <1>4, <1>a, FlushDoes
  <2>2. FirmWithin /\ bare \subseteq bare' /\ loose \subseteq loose' /\ Len(file) <= Len(file')
    BY <1>b, <2>1, FileSame, FirmOfWithin
  <2>3. \A q \in Stores : Holds(q) => Holds(q)'
    BY <2>1, Actors DEF Holds
  <2>4. lock = Serve => lock' = Serve
    BY <2>1, Actors
  <2>5. ASSUME "cut" \notin bare' PROVE PendingAbove(p)' /\ Covers(p)'
    <3>1. PendingAbove(p) /\ Covers(p)
      BY <1>c, <2>1, <2>5
    <3>2. ~store[p].blind => /\ CaughtUp(p).off = Len(file)
                             /\ \A i \in Lines(file, 0) :
                                  Firm(file[i]) => file[i].seq <= CaughtUp(p).seq
      BY <1>a, <3>1, CaughtUpCovers
    <3>3. Covers(p)'
      BY <1>b, <2>1, <3>2 DEF Covers, Firm
    <3> QED BY <2>1, <2>2, <2>3, <3>1, <3>3, PendingAboveSame
  <2> QED BY <1>a, <2>1, <2>2, <2>3, <2>4, <2>5, ApartSteps
<1>5. ASSUME NEW p \in Stores, Close(p) \/ LookAtTail(p) PROVE NumbersApart'
  <2>1. /\ OthersSame(p) /\ store'[p].blind = store[p].blind /\ store'[p].seq = store[p].seq
        /\ store'[p].pending = store[p].pending
        /\ \/ store'[p].off = store[p].off
           \/ store'[p].off = Len(file) /\ Len(file) < store[p].off
        /\ UNCHANGED <<file, lock, serve, loose, bare>>
    BY <1>5, <1>a, CloseDoes, LookAtTailDoes
  <2>2. FirmWithin /\ bare \subseteq bare' /\ loose \subseteq loose' /\ Len(file) <= Len(file')
    BY <1>b, <2>1, FileSame, FirmOfWithin
  <2>3. \A q \in Stores : Holds(q) => Holds(q)'
    BY <2>1 DEF Holds
  <2>4. store'[p].off <= store[p].off /\ store'[p].seq >= store[p].seq
    <3>1. store[p].off \in Nat /\ store[p].seq \in Nat
      BY <1>a, Numbers
    <3> QED BY <1>b, <2>1, <3>1
  <2>5. ASSUME "cut" \notin bare' PROVE PendingAbove(p)' /\ Covers(p)'
    <3>1. PendingAbove(p) /\ Covers(p)
      BY <1>c, <2>1, <2>5
    <3> QED BY <1>a, <2>1, <2>2, <2>3, <2>4, <3>1, PendingAboveSame, CoversSame
  <2> QED BY <1>a, <2>1, <2>2, <2>3, <2>5, ApartSteps
<1>6. ASSUME NEW p \in Stores, CutTail(p) PROVE NumbersApart'
  <2>1. /\ store[p].end \in Nat /\ file' = Truncate(file, store[p].end)
        /\ store'[p].blind = store[p].blind
        /\ \/ store'[p].off = store[p].off /\ store[p].off <= store[p].end
           \/ store'[p].off = store[p].end /\ store[p].end < store[p].off
        /\ \A q \in Stores \ {p} :
             /\ store'[q].off = store[q].off
             /\ ~store'[q].blind => ~store[q].blind /\ store[q].off <= store[p].end
        /\ \A q \in Stores :
             store'[q].seq = store[q].seq /\ store'[q].pending = store[q].pending
        /\ bare' = IF Holds(p) THEN bare ELSE bare \cup {"cut"}
        /\ UNCHANGED <<lock, serve, loose>>
    BY <1>6, <1>a, CutTailDoes
  <2> SUFFICES ASSUME "cut" \notin bare'
               PROVE  FirmApart' /\ ServeAbove' /\ \A q \in Stores : PendingAbove(q)' /\ Covers(q)'
    BY ApartParts
  <2>2. FirmApart /\ ServeAbove /\ \A q \in Stores : PendingAbove(q) /\ Covers(q)
    BY <1>c, <2>1
  <2>3. FirmWithin /\ Len(file') = store[p].end
    BY <1>b, <2>1, LinesTruncated, Truncated, FirmOfWithin
  <2>4. FirmApart' /\ ServeAbove'
    BY <2>1, <2>2, <2>3, FirmApartSame, ServeAboveSame
  <2>5. ASSUME NEW q \in Stores PROVE PendingAbove(q)'
    BY <2>1, <2>2, <2>3, PendingAboveSame DEF Holds
  <2>6. ASSUME NEW q \in Stores PROVE Covers(q)'
    <3> SUFFICES ASSUME ~store'[q].blind PROVE Covers(q)'
      BY DEF Covers
    <3>1. store[q].off \in Nat /\ store[q].seq \in Nat
      BY <1>a, Numbers
    <3>2. ~store[q].blind /\ store'[q].off <= store[q].off /\ store'[q].off <= Len(file')
      BY <2>1, <2>3, <3>1
    <3>3. store'[q].seq >= store[q].seq
      BY <2>1, <3>1
    <3> QED BY <1>a, <2>2, <2>3, <3>2, <3>3, CoversSame
  <2> QED BY <2>4, <2>5, <2>6
<1>7. ASSUME NEW p \in Stores, Write(p) PROVE NumbersApart'
  BY <1>7, WrittenApart
<1>8. ASSUME NEW p \in Stores, WriteFails(p) PROVE NumbersApart'
  <2>1. /\ OthersSame(p) /\ file' \in {file, Append(file, Torn)}
        /\ loose' = loose \cup Waiting(p)
        /\ store'[p].off = store[p].off /\ store'[p].blind = store[p].blind
        /\ store'[p].seq = store[p].seq /\ store'[p].pending = store[p].pending
        /\ lock' = IF Holds(p) THEN Nobody ELSE lock
        /\ bare \subseteq bare' /\ serve' = serve
    BY <1>8, <1>a, WriteFailsDoes
  <2>2. FirmWithin /\ loose \subseteq loose' /\ Len(file) <= Len(file')
    BY <1>b, <2>1, LinesTorn, FirmOfWithin
  <2>3. /\ \A q \in Stores \ {p} : Holds(q) => Holds(q)'
        /\ lock = Serve => lock' = Serve
    BY <2>1, Actors DEF Holds
  <2>4. PendingAbove(p)'
    BY <2>1 DEF PendingAbove, Waiting, Firm
  <2>5. ASSUME "cut" \notin bare' PROVE Covers(p)'
    <3>1. Covers(p)
      BY <1>c, <2>1, <2>5
    <3>2. store[p].off \in Nat /\ store[p].seq \in Nat
      BY <1>a, Numbers
    <3>3. store'[p].off <= store[p].off /\ store'[p].seq >= store[p].seq
      BY <2>1, <3>2
    <3> QED BY <1>a, <2>1, <2>2, <3>1, <3>3, CoversSame
  <2> QED BY <1>a, <2>1, <2>2, <2>3, <2>4, <2>5, ApartSteps
<1>9. ASSUME NEW p \in Stores, Exit(p) \/ Crash(p) PROVE NumbersApart'
  <2>1. /\ OthersSame(p) /\ store'[p] = NoStore /\ file' \in {file, Append(file, Torn)}
        /\ lock' = IF Holds(p) THEN Nobody ELSE lock
        /\ bare \subseteq bare' /\ UNCHANGED <<serve, loose>>
    BY <1>9, <1>a, GoneDoes
  <2>2. FirmWithin /\ loose \subseteq loose' /\ Len(file) <= Len(file')
    BY <1>b, <2>1, LinesTorn, FirmOfWithin
  <2>3. /\ \A q \in Stores \ {p} : Holds(q) => Holds(q)'
        /\ lock = Serve => lock' = Serve
    BY <2>1, Actors DEF Holds
  <2>4. store'[p].off = 0 /\ store'[p].pending = <<>>
    BY <2>1 DEF NoStore
  <2> QED BY <1>a, <2>1, <2>2, <2>3, <2>4, PendingEmpty, CoversNone, ApartSteps
<1>10. ASSUME UNCHANGED <<file, lock, store, serve, made, landed, loose, bare>>
       PROVE  NumbersApart'
  <2>1. FirmWithin /\ Len(file) <= Len(file')
    BY <1>b, <1>10, FileSame, FirmOfWithin
  <2>2. "cut" \notin bare' => ServeAbove'
    BY <1>10, <1>c, <2>1, ServeAboveSame
  <2> QED BY <1>10, <1>a, <2>1, <2>2, ApartStill DEF Holds
<1>11. ASSUME NEW p \in Stores, MailLooks(p) \/ MailTells(p) PROVE NumbersApart'
  BY <1>10, <1>11, <1>a, MailDoes
<1>12. CASE ServeStarts \/ ServeWrites \/ ServeFails
  BY <1>12, ServeApart
<1>13. CASE UNCHANGED vars
  BY <1>10, <1>13 DEF vars
<1> QED
  BY <1>1, <1>2, <1>3, <1>4, <1>5, <1>6, <1>7, <1>8, <1>9, <1>11, <1>12, <1>13
  DEF Next, Proceed, Deliver

----------------------------------------------------------------------------
(* The theorems.                                                           *)

LEMMA Starts ==
  ASSUME Init PROVE IInv
<1> DEFINE e == Entry(1, 1, Serve, "line", 0)
<1>1. e \in Ents(1) /\ Ents(1) \subseteq Chunks(1) /\ e \in Chunks(1)
  BY DEF Entry, Ents, Chunks, Writers
<1>2. /\ file = <<e>> /\ landed = {e} /\ made = 1 /\ lock = Nobody /\ serve = Torn
      /\ loose = {} /\ bare = {}
      /\ store = [p \in Stores |-> NoStore] /\ mail = [p \in Stores |-> NoMail]
  BY DEF Init, NoServe
<1>3. e.by = Serve /\ e.seq = 1 /\ e.n = 1 /\ IsEntry(e)
  BY DEF Entry, IsEntry
<1> HIDE DEF e
<1>4. \A p \in Stores : store[p] = NoStore /\ mail[p] = NoMail
  BY <1>2
<1>5. \A p \in Stores : 1 .. Len(store[p].pending) = {} /\ ~Holds(p)
  BY <1>2, <1>4, Actors DEF NoStore, Holds
<1>6. file \in Seq(Chunks(1)) /\ Len(file) = 1 /\ file[1] = e
  BY <1>1, <1>2
<1>7. \A i \in Lines(file, 0) : i = 1 /\ file[i] = e
  <2>1. \A i \in Lines(file, 0) : i \in 0 + 1 .. Len(file)
    BY DEF Lines
  <2> QED BY <1>6, <2>1
<1>8. Typed
  <2>1. NoStore \in StoreT(1) /\ NoMail \in MailT(1)
    BY EmptyTyped
  <2>2. landed \subseteq Ents(1) /\ loose \subseteq Ents(1)
    BY <1>1, <1>2
  <2>3. Torn \in Chunks(1)
    BY DEF Chunks
  <2> QED BY <1>2, <1>6, <2>1, <2>2, <2>3 DEF Typed
<1>9. LockHeld
  BY <1>2, <1>4, <1>5, Actors DEF LockHeld, NoStore, NoMail, Writing
<1>10. TailSeen
  <2>1. Stands(e)
    BY <1>6 DEF Stands
  <2> QED BY <1>2, <1>5, <2>1 DEF TailSeen
<1>11. NumbersUp
  <2>1. OrderKept
    BY <1>7 DEF OrderKept
  <2>2. \A p \in Stores : Upwards(p)
    BY <1>4, <1>5 DEF Upwards, NoStore
  <2> QED BY <2>1, <2>2 DEF NumbersUp
<1>12. NumbersApart
  <2>1. FirmApart
    BY <1>7 DEF FirmApart
  <2>2. ServeAbove
    BY <1>2 DEF ServeAbove
  <2>3. \A p \in Stores : PendingAbove(p)
    BY <1>5 DEF PendingAbove
  <2>4. \A p \in Stores : Covers(p)
    <3>1. \A p \in Stores : store[p].off = 0
      BY <1>4 DEF NoStore
    <3> QED BY <1>6, <1>7, <3>1 DEF Covers
  <2> QED BY <2>1, <2>2, <2>3, <2>4 DEF NumbersApart
<1> QED BY <1>8, <1>9, <1>10, <1>11, <1>12 DEF IInv

LEMMA IInvStep ==
  ASSUME IInv, [Next]_vars PROVE IInv'
<1>1. Typed'
  BY TypedStep
<1> QED
  BY <1>1, LockHeldStep, TailSeenStep, NumbersUpStep, NumbersApartStep DEF IInv

LEMMA TypedIsTypeOK ==
  ASSUME IInv PROVE TypeOK
<1>a. Typed /\ LockHeld
  BY DEF IInv
<1>b. made \in Nat \ {0} /\ file \in Seq(Chunks(made)) /\ serve \in Chunks(made)
  BY <1>a DEF Typed
<1>1. \A c \in Chunks(made) : Chunk(c)
  BY DEF Chunks, Ents, Chunk, Writers
<1>2. \A i \in 1 .. Len(file) : Chunk(file[i])
  BY <1>b, <1>1
<1>3. \A e \in Entries : Chunk(e)
  <2>1. landed \subseteq Chunks(made) /\ loose \subseteq Chunks(made)
    BY <1>a DEF Typed, Chunks
  <2>2. ASSUME NEW p \in Stores, NEW e \in Waiting(p) PROVE e \in Chunks(made)
    <3>1. store[p].pending \in Seq(Ents(made))
      BY <1>a, Numbers
    <3> QED BY <2>2, <3>1 DEF Waiting, Chunks
  <2> QED BY <1>b, <1>1, <2>1, <2>2 DEF Entries
<1>4. ASSUME NEW p \in Stores
      PROVE  /\ store[p].up \in {"down", "open", "closed"}
             /\ store[p].up = "down" /\ store[p].pc = "idle" => store[p] = NoStore
             /\ store[p].seq \in 0 .. made
             /\ store[p].pc \in {"tail", "cut", "write"} \/ ~Holds(p)
             /\ store[p].pc = "write" => store[p].pending # <<>>
  BY <1>a DEF Typed, StoreT, LockHeld, Writing
<1> QED BY <1>a, <1>b, <1>2, <1>3, <1>4 DEF TypeOK, LockHeld, NoServe

LEMMA ApartIsUnique ==
  ASSUME IInv PROVE SeqsRight
<1>1. OrderKept
  BY DEF IInv, NumbersUp
<1>2. UniqueSeqs
  <2> SUFFICES ASSUME "cut" \notin bare, NEW e \in Readable(file), NEW f \in Readable(file),
                      e # f, e.seq = f.seq
               PROVE  e \in loose \/ f \in loose
    BY DEF UniqueSeqs
  <2>1. PICK i \in Lines(file, 0) : file[i] = e
    BY DEF Readable, ReadAfter
  <2>2. PICK j \in Lines(file, 0) : file[j] = f
    BY DEF Readable, ReadAfter
  <2>3. FirmApart
    BY DEF IInv, NumbersApart
  <2> QED BY <2>1, <2>2, <2>3 DEF FirmApart, Firm
<1> QED BY <1>1, <1>2 DEF SeqsRight

LEMMA StandsIsDurable ==
  ASSUME IInv PROVE Durable
<1> SUFFICES ASSUME bare = {}, NEW e \in landed
             PROVE  \/ e \in Readable(file)
                    \/ \E i \in 2 .. Len(file) : /\ file[i] = e /\ e.by = Serve
                                                 /\ file[i - 1] = Torn
  BY DEF Durable
<1>1. /\ made \in Nat /\ file \in Seq(Chunks(made)) /\ Len(file) \in Nat
      /\ e \in Ents(made)
  BY DEF IInv, Typed
<1>2. PICK i \in 1 .. Len(file) :
        file[i] = e /\ (i = 1 \/ IsEntry(file[i - 1]) \/ e.by = Serve)
  BY DEF IInv, TailSeen, Stands
<1>3. IsEntry(file[i])
  BY <1>1, <1>2, EntryOrTorn
<1>4. CASE i = 1 \/ IsEntry(file[i - 1])
  <2>1. i \in Lines(file, 0)
    BY <1>1, <1>3, <1>4 DEF Lines
  <2> QED BY <1>2, <2>1 DEF Readable, ReadAfter
<1>5. CASE i # 1 /\ ~IsEntry(file[i - 1])
  <2>1. i \in 2 .. Len(file) /\ i - 1 \in 1 .. Len(file)
    BY <1>1, <1>5
  <2>2. file[i - 1] = Torn
    BY <1>1, <1>5, <2>1, EntryOrTorn
  <2> QED BY <1>2, <1>5, <2>1, <2>2
<1> QED BY <1>4, <1>5

(* Chunks, stores and entries keep their types; a store that is down is    *)
(* fresh, and whoever holds the lock is in the middle of an operation.     *)
THEOREM TypeCorrect == Spec => []TypeOK
<1>1. Init => IInv
  BY Starts
<1>2. IInv /\ [Next]_vars => IInv'
  BY IInvStep
<1>3. IInv => TypeOK
  BY TypedIsTypeOK
<1> QED BY <1>1, <1>2, <1>3, PTL DEF Spec

(* Two readable lines numbered under the lock never share a number, while  *)
(* every cut was made under it, and the lines of one process stand in the  *)
(* order it numbered them: over retries, crashes and late appends.         *)
THEOREM NumbersRight == Spec => []SeqsRight
<1>1. Init => IInv
  BY Starts
<1>2. IInv /\ [Next]_vars => IInv'
  BY IInvStep
<1>3. IInv => SeqsRight
  BY ApartIsUnique
<1> QED BY <1>1, <1>2, <1>3, PTL DEF Spec

(* While every writer holds the lock, a line whose write returned is       *)
(* readable for ever; only AppendFile's may stand behind a fragment.       *)
THEOREM LinesStay == Spec => []Durable
<1>1. Init => IInv
  BY Starts
<1>2. IInv /\ [Next]_vars => IInv'
  BY IInvStep
<1>3. IInv => Durable
  BY StandsIsDurable
<1> QED BY <1>1, <1>2, <1>3, PTL DEF Spec

\* What one step does to the lines that wait in one store.
KeepsLines(p) ==
  \A e \in Waiting(p) :
    \/ \E i \in 1 .. Len(store'[p].pending) : store'[p].pending[i] = e
    \/ e \in landed' \/ store'[p].up = "down"

LEMMA KeptSame ==
  ASSUME NEW p \in Stores, store'[p].pending = store[p].pending
  PROVE  KeepsLines(p)
  BY DEF KeepsLines, Waiting

LEMMA KeptStep ==
  ASSUME IInv, Next, NEW p \in Stores
  PROVE  KeepsLines(p)
<1>a. Typed /\ LockHeld
  BY DEF IInv
<1>b. store[p].pending \in Seq(Ents(made)) /\ made \in Nat
  BY <1>a, Numbers
<1>1. ASSUME NEW q \in Stores, \/ OpenReads(q) \/ OpenLooks(q) \/ OpenCuts(q) \/ Flush(q)
                               \/ Close(q) \/ LookAtTail(q) \/ WriteFails(q)
      PROVE  KeepsLines(p)
  <2>1. OthersSame(q) /\ store'[q].pending = store[q].pending
    BY <1>1, <1>a, OpenReadsDoes, OpenLooksDoes, OpenCutsDoes, FlushDoes, CloseDoes,
       LookAtTailDoes, WriteFailsDoes
  <2> QED BY <2>1, KeptSame DEF OthersSame
<1>2. ASSUME NEW q \in Stores, CutTail(q) PROVE KeepsLines(p)
  BY <1>2, <1>a, CutTailDoes, KeptSame
<1>3. ASSUME NEW q \in Stores, AppendLine(q) \/ MailMarks(q) PROVE KeepsLines(p)
  <2>1. Numbering(q)
    BY <1>3, <1>a, NumberingIs
  <2>2. OthersSame(q) /\ \E e \in Ents(made + 1) : store'[q].pending = Append(store[q].pending, e)
    BY <1>a, <2>1, NumberingDoes
  <2>3. CASE q # p
    BY <2>2, <2>3, KeptSame DEF OthersSame
  <2>4. CASE q = p
    <3>1. PICK e \in Ents(made + 1) : store'[p].pending = Append(store[p].pending, e)
      BY <2>2, <2>4
    <3>2. store[p].pending \in Seq(Ents(made + 1))
      <4>1. Ents(made) \subseteq Ents(made + 1)
        BY <1>b, TypesGrow
      <4> QED BY <1>b, <4>1
    <3>3. /\ Len(store'[p].pending) = Len(store[p].pending) + 1
          /\ \A i \in 1 .. Len(store[p].pending) : store'[p].pending[i] = store[p].pending[i]
      BY <3>1, <3>2, Appended
    <3>4. 1 .. Len(store[p].pending) \subseteq 1 .. Len(store'[p].pending)
      BY <1>b, <3>3
    <3> QED BY <3>3, <3>4 DEF KeepsLines, Waiting
  <2> QED BY <2>3, <2>4
<1>4. ASSUME NEW q \in Stores, Write(q) PROVE KeepsLines(p)
  <2>1. /\ OthersSame(q) /\ store[q].pending # <<>>
        /\ landed' = landed \cup {Head(store[q].pending)}
        /\ store'[q].pending = Tail(store[q].pending)
    BY <1>4, <1>a, WriteDoes
  <2>2. CASE q # p
    BY <2>1, <2>2, KeptSame DEF OthersSame
  <2>3. CASE q = p
    <3> DEFINE s == store[p].pending
    <3>1. /\ Head(s) = s[1] /\ Len(s) \in Nat /\ Len(Tail(s)) = Len(s) - 1
          /\ \A k \in 1 .. Len(Tail(s)) : Tail(s)[k] = s[k + 1] /\ k + 1 \in 1 .. Len(s)
      BY <1>b, <2>1, <2>3, TailIs
    <3>2. ASSUME NEW i \in 1 .. Len(s), i # 1
          PROVE  \E k \in 1 .. Len(Tail(s)) : Tail(s)[k] = s[i]
      <4>1. i - 1 \in 1 .. Len(Tail(s)) /\ i - 1 + 1 = i
        BY <3>1, <3>2
      <4> QED BY <3>1, <4>1
    <3>3. \A i \in 1 .. Len(s) : i = 1 => s[i] \in landed'
      BY <2>1, <2>3, <3>1
    <3>4. store'[p].pending = Tail(s)
      BY <2>1, <2>3
    <3> HIDE DEF s
    <3>5. \A i \in 1 .. Len(s) :
            \/ \E k \in 1 .. Len(store'[p].pending) : store'[p].pending[k] = s[i]
            \/ s[i] \in landed'
      BY <3>2, <3>3, <3>4
    <3> QED BY <3>5 DEF KeepsLines, Waiting, s
  <2> QED BY <2>2, <2>3
<1>5. ASSUME NEW q \in Stores, Exit(q) \/ Crash(q) PROVE KeepsLines(p)
  <2>1. OthersSame(q) /\ store'[q] = NoStore
    BY <1>5, <1>a, GoneDoes
  <2>2. CASE q = p
    BY <2>1, <2>2 DEF KeepsLines, NoStore
  <2>3. CASE q # p
    BY <2>1, <2>3, KeptSame DEF OthersSame
  <2> QED BY <2>2, <2>3
<1>6. ASSUME NEW q \in Stores, MailLooks(q) \/ MailTells(q) PROVE KeepsLines(p)
  BY <1>6, <1>a, MailDoes, KeptSame
<1>7. CASE ServeStarts \/ ServeWrites \/ ServeFails
  BY <1>7, <1>a, ServeStartsDoes, ServeEndsDoes, KeptSame
<1> QED
  BY <1>1, <1>2, <1>3, <1>4, <1>5, <1>6, <1>7 DEF Next, Proceed, Deliver

(* A line that was numbered waits until it is on disk, however often its   *)
(* write fails; only a process that ends drops what its Close could not    *)
(* write.                                                                  *)
THEOREM LinesWait == Spec => LinesKept
<1>1. Init => IInv
  BY Starts
<1>2. IInv /\ [Next]_vars => IInv'
  BY IInvStep
<1>3. IInv /\ [Next]_vars =>
        [\A p \in Stores : \A e \in Waiting(p) :
           e \in Waiting(p)' \cup landed' \/ store'[p].up = "down"]_vars
  <2> SUFFICES ASSUME IInv, Next
               PROVE  \A p \in Stores : \A e \in Waiting(p) :
                        e \in Waiting(p)' \cup landed' \/ store'[p].up = "down"
    OBVIOUS
  <2>1. \A p \in Stores : KeepsLines(p)
    BY KeptStep
  <2> QED BY <2>1 DEF KeepsLines, Waiting
<1> QED BY <1>1, <1>2, <1>3, PTL DEF Spec, LinesKept

----------------------------------------------------------------------------
(* Notices.  A mark of a notice is numbered, written and read like a line; *)
(* what follows says where the marks of the notices are that a mailbox     *)
(* still has to queue, is queueing and has queued.                         *)

MarkOf(e, n) == e.kind = "mark" /\ e.of = n

\* An entry is told from the others by its n, and the file holds no entry
\* whose write did not return.
Known == landed \cup ({serve} \ {Torn}) \cup UNION {Waiting(p) : p \in Stores}
FileLanded == \A i \in 1 .. Len(file) : IsEntry(file[i]) => file[i] \in landed
Named ==
  /\ \A e, f \in Known : e.n = f.n => e = f
  /\ \A e \in Known : e.by = Serve => e.kind # "mark"
  /\ FileLanded

\* The notices a mailbox has still to mark, by their place in its list.
Left(p) == {k \in 1 .. Len(mail[p].todo) : mail[p].pc = "marking" => k > 1}

MailRuns(p) ==
  /\ store[p].up = "down" => mail[p] = NoMail
  /\ mail[p].pc \in {"off", "idle"} => mail[p].todo = <<>>
  /\ store[p].op = "mark" => store[p].pc \in Writing /\ mail[p].pc = "marking"
  /\ \A i, j \in 1 .. Len(mail[p].todo) : i # j => mail[p].todo[i] # mail[p].todo[j]

\* A mark that waits without its write having failed is the one the mailbox
\* is waiting for; once the mailbox goes on, its mark is on disk or loose.
MarksWait(p) ==
  /\ \A f \in Waiting(p) : f.kind = "mark" /\ Firm(f) =>
       store[p].op = "mark" /\ MarkOf(f, Head(mail[p].todo))
  /\ mail[p].pc = "marking" =>
       \/ \E f \in loose \cup landed : MarkOf(f, Head(mail[p].todo))
       \/ store[p].op = "mark" /\ \E f \in Waiting(p) : MarkOf(f, Head(mail[p].todo))

\* A notice that was not marked in the file a mailbox looked at is still to
\* be marked, or its mark is younger than that look.
Covered(p) ==
  \A e \in Undelivered(mail[p].seen) :
    \/ \E k \in Left(p) : mail[p].todo[k] = e.n
    \/ \E f \in Waiting(p) \cup landed :
         MarkOf(f, e.n) /\ f \notin Readable(mail[p].seen)

MailInv == \A p \in Stores : MailRuns(p) /\ MarksWait(p) /\ Covered(p)

\* One process at a time.
Alone ==
  ~crowd => \A p, q \in Stores : p # q => store[p] = NoStore \/ store[q] = NoStore

\* A notice that was queued has a mark; its mark is loose when it was queued
\* twice, or is about to be.
Queued ==
  ~crowd /\ bare = {} =>
    /\ \A i \in 1 .. Len(told) : \E f \in loose \cup landed : MarkOf(f, told[i])
    /\ \A i, j \in 1 .. Len(told) :
         i < j /\ told[i] = told[j] => \E f \in loose : MarkOf(f, told[i])
    /\ \A p \in Stores :
         /\ \A k \in Left(p) : \A f \in landed :
              MarkOf(f, mail[p].todo[k]) => f \in loose
         /\ mail[p].pc = "marking" =>
              \A i \in 1 .. Len(told) : told[i] = Head(mail[p].todo) =>
                \E f \in loose : MarkOf(f, told[i])

NInv == IInv /\ Named /\ MailInv /\ told \in Seq(Nat) /\ Alone /\ Queued

----------------------------------------------------------------------------
(* The operation a store is in.                                            *)

LEMMA OpSame ==
  ASSUME Typed, NEW p \in Stores,
         \/ OpenReads(p) \/ OpenLooks(p) \/ OpenCuts(p) \/ LookAtTail(p) \/ CutTail(p)
  PROVE  \A q \in Stores : store'[q].op = store[q].op
<1>1. store \in [Stores -> StoreT(made)]
  BY DEF Typed
<1>2. ASSUME NEW s, store' = [store EXCEPT ![p] = s], s.op = store[p].op
      PROVE  \A q \in Stores : store'[q].op = store[q].op
  BY <1>1, <1>2
<1>3. CASE OpenReads(p)
  <2> DEFINE s == [store[p] EXCEPT !.pc = "opening", !.read = Readable(file),
                                   !.seq = TopSeq(Readable(file), 0)]
  <2>1. store' = [store EXCEPT ![p] = s]
    BY <1>3 DEF OpenReads
  <2>2. s.op = store[p].op
    BY <1>1 DEF StoreT
  <2> HIDE DEF s
  <2> QED BY <1>2, <2>1, <2>2
<1>4. ASSUME NEW end, Opened(p, end)
      PROVE  \A q \in Stores : store'[q].op = store[q].op
  <2>1. PICK b \in BOOLEAN : b = (Readable(Truncate(file, end)) # store[p].read)
    BY Zenon
  <2> DEFINE s == [store[p] EXCEPT !.up = "open", !.pc = "idle", !.off = end,
                                   !.read = {}, !.blind = b]
  <2>2. store' = [store EXCEPT ![p] = s]
    BY <1>4, <2>1, Zenon DEF Opened
  <2>3. s.op = store[p].op
    BY <1>1 DEF StoreT
  <2> HIDE DEF s
  <2> QED BY <1>2, <2>2, <2>3
<1>5. CASE OpenLooks(p)
  <2>1. CASE TailEnd(file) = Len(file)
    <3>1. Opened(p, TailEnd(file))
      BY <1>5, <2>1 DEF OpenLooks
    <3> QED BY <1>4, <3>1
  <2>2. CASE TailEnd(file) # Len(file)
    <3> DEFINE s == [store[p] EXCEPT !.pc = "opencut", !.end = TailEnd(file)]
    <3>1. store' = [store EXCEPT ![p] = s]
      BY <1>5, <2>2 DEF OpenLooks
    <3>2. s.op = store[p].op
      BY <1>1 DEF StoreT
    <3> HIDE DEF s
    <3> QED BY <1>2, <3>1, <3>2
  <2> QED BY <2>1, <2>2
<1>6. CASE OpenCuts(p)
  BY <1>4, <1>6 DEF OpenCuts
<1>7. CASE LookAtTail(p)
  <2> DEFINE pc == IF TailEnd(file) = Len(file) THEN "write" ELSE "cut"
             off == IF TailEnd(file) = Len(file) /\ TailEnd(file) < store[p].off
                    THEN TailEnd(file) ELSE store[p].off
  <2>1. store' = [store EXCEPT ![p] = [store[p] EXCEPT !.pc = pc, !.end = TailEnd(file),
                                                       !.off = off]]
    BY <1>7, Zenon DEF LookAtTail
  <2> HIDE DEF pc, off
  <2> DEFINE s == [store[p] EXCEPT !.pc = pc, !.end = TailEnd(file), !.off = off]
  <2>2. s.op = store[p].op
    BY <1>1 DEF StoreT
  <2>3. store' = [store EXCEPT ![p] = s]
    BY <2>1
  <2> HIDE DEF s
  <2> QED BY <1>2, <2>2, <2>3
<1>8. CASE CutTail(p)
  <2> DEFINE off == IF store[p].end < store[p].off THEN store[p].end ELSE store[p].off
             mine == [store[p] EXCEPT !.pc = "write", !.off = off]
             other(q) == IF store[p].end < store[q].off
                         THEN [store[q] EXCEPT !.blind = TRUE] ELSE store[q]
  <2>1. store' = [q \in Stores |-> IF q = p THEN mine ELSE other(q)]
    BY <1>8 DEF CutTail
  <2>2. mine.op = store[p].op
    <3> HIDE DEF off
    <3> QED BY <1>1 DEF StoreT
  <2>3. ASSUME NEW q \in Stores PROVE other(q).op = store[q].op
    BY <1>1 DEF StoreT
  <2> HIDE DEF mine, other
  <2>4. ASSUME NEW q \in Stores PROVE store'[q].op = store[q].op
    BY <2>1, <2>2, <2>3
  <2> QED BY <2>4
<1> QED BY <1>3, <1>5, <1>6, <1>7, <1>8

LEMMA OpEnds ==
  ASSUME Typed, NEW p \in Stores, Flush(p) \/ WriteFails(p)
  PROVE  store'[p].op \in {"flush", "none"}
<1>1. store \in [Stores -> StoreT(made)] /\ store[p] \in StoreT(made)
  BY DEF Typed
<1>2. CASE Flush(p)
  <2> DEFINE c == CaughtUp(p)
  <2>1. c \in StoreT(made)
    BY CaughtUpIs
  <2>2. store' = [store EXCEPT ![p] = [c EXCEPT !.op = "flush"]]
    BY <1>2 DEF Flush
  <2> HIDE DEF c
  <2> QED BY <1>1, <2>1, <2>2 DEF StoreT
<1>3. CASE WriteFails(p)
  <2> DEFINE u == IF store[p].op = "close" THEN "closed" ELSE store[p].up
  <2>1. store' = [store EXCEPT ![p] = [store[p] EXCEPT
          !.pc = "idle", !.op = "none", !.end = 0, !.up = u]]
    BY <1>3, Zenon DEF WriteFails, Returned
  <2> HIDE DEF u
  <2> QED BY <1>1, <2>1 DEF StoreT
<1> QED BY <1>2, <1>3

LEMMA OpCloses ==
  ASSUME Typed, NEW p \in Stores, Close(p)
  PROVE  /\ store'[p].op \in {store[p].op, "close"}
         /\ IF mail[p].pc = "idle" THEN mail' = [mail EXCEPT ![p] = NoMail] ELSE mail' = mail
<1>1. store \in [Stores -> StoreT(made)]
  BY DEF Typed
<1>2. \/ store' = [store EXCEPT ![p].up = "closed"]
      \/ store' = [store EXCEPT ![p] = [store[p] EXCEPT !.pc = "tail", !.op = "close"]]
  BY DEF Close
<1>3. store'[p].op \in {store[p].op, "close"}
  BY <1>1, <1>2 DEF StoreT
<1> QED BY <1>3 DEF Close

LEMMA OpWrites ==
  ASSUME Typed, LockHeld, NEW p \in Stores, Write(p)
  PROVE  store'[p].op = IF Tail(store[p].pending) = <<>> THEN "none" ELSE store[p].op
<1>1. store \in [Stores -> StoreT(made)] /\ store[p] \in StoreT(made)
  BY DEF Typed
<1>2. PICK b \in BOOLEAN : b = (store[p].blind \/ store[p].off # Len(file))
  BY Zenon
<1> DEFINE rest == Tail(store[p].pending)
           s == [store[p] EXCEPT !.pending = rest, !.off = @ + 1, !.blind = b]
           u == IF s.op = "close" THEN "closed" ELSE s.up
           t == [s EXCEPT !.pc = "idle", !.op = "none", !.end = 0, !.up = u]
<1>3. s = [store[p] EXCEPT !.pending = Tail(@), !.off = @ + 1,
                        !.blind = @ \/ store[p].off # Len(file)]
  BY <1>2, Zenon
<1>4. IF s.pending = <<>> THEN store' = [store EXCEPT ![p] = Returned(s)]
      ELSE store' = [store EXCEPT ![p] = s]
  BY <1>3, Zenon DEF Write
<1>5. Returned(s) = t
  BY Zenon DEF Returned
<1> HIDE DEF rest, u
<1>6. s.pending = rest /\ s.op = store[p].op /\ t.op = "none"
  BY <1>1 DEF StoreT
<1> HIDE DEF s, t
<1>7. store' = [store EXCEPT ![p] = IF rest = <<>> THEN t ELSE s]
  BY <1>4, <1>5, <1>6
<1>8. store'[p] = IF rest = <<>> THEN t ELSE s
  BY <1>1, <1>7
<1> QED BY <1>6, <1>8 DEF rest

\* The entry an Append numbers, with its kind and the notice it is about.
LEMMA OpNumbers ==
  ASSUME Typed, NEW p \in Stores, NEW op \in {"line", "mark"}, NEW of \in 0 .. made,
         NumberEntry(p, op, of)
  PROVE  /\ store[p].pc = "idle" /\ store[p].up # "down" /\ OthersSame(p)
         /\ store'[p].op = op /\ store'[p].pc \in Writing /\ store'[p].up = store[p].up
         /\ made' = made + 1
         /\ \E e \in Ents(made + 1) :
              /\ e.n = made + 1 /\ e.by = p /\ e.kind = op /\ e.of = of
              /\ store'[p].pending = Append(store[p].pending, e)
              /\ loose \subseteq loose' /\ loose' \subseteq loose \cup {e}
<1>1. store \in [Stores -> StoreT(made)] /\ made \in Nat
  BY DEF Typed
<1> DEFINE c == CaughtUp(p)
           e == Entry(made + 1, c.seq + 1, p, op, of)
<1>2. /\ c \in StoreT(made) /\ c.pc \in {"write", "tail"}
      /\ c = [store[p] EXCEPT !.seq = c.seq, !.off = c.off, !.pc = c.pc]
  BY CaughtUpIs
<1>3. c.seq \in 0 .. made
  BY <1>2 DEF StoreT
<1>4. e \in Ents(made + 1) /\ e.n = made + 1 /\ e.by = p /\ e.kind = op /\ e.of = of
  BY <1>1, <1>3 DEF Entry, Ents, Writers
<1>5. /\ store' = [store EXCEPT ![p] =
                [c EXCEPT !.seq = e.seq, !.op = op, !.pending = Append(@, e)]]
      /\ made' = made + 1 /\ store[p].pc = "idle" /\ store[p].up # "down"
      /\ loose' = loose \/ loose' = loose \cup {e}
  BY DEF NumberEntry, Idle
<1> HIDE DEF c, e
<1>6. c.up = store[p].up /\ c.pending = store[p].pending
  BY <1>1, <1>2 DEF StoreT
<1> DEFINE t == [c EXCEPT !.seq = e.seq, !.op = op, !.pending = Append(@, e)]
<1>7. /\ t.op = op /\ t.pc = c.pc /\ t.up = store[p].up
      /\ t.pending = Append(store[p].pending, e)
  BY <1>2, <1>6 DEF StoreT
<1>8. store' = [store EXCEPT ![p] = t]
  BY <1>5
<1> HIDE DEF t
<1>9. store'[p] = t /\ OthersSame(p)
  BY <1>1, <1>8 DEF OthersSame
<1>10. /\ store'[p].op = op /\ store'[p].pc \in Writing /\ store'[p].up = store[p].up
       /\ store'[p].pending = Append(store[p].pending, e)
  BY <1>2, <1>7, <1>9 DEF Writing
<1> QED BY <1>4, <1>5, <1>9, <1>10

----------------------------------------------------------------------------
(* The lines that wait after a step.                                       *)

LEMMA WaitingSame ==
  ASSUME NEW p \in Stores, store'[p].pending = store[p].pending
  PROVE  Waiting(p)' = Waiting(p)
  BY DEF Waiting

LEMMA WaitingNone ==
  ASSUME NEW p \in Stores, store'[p].pending = <<>>
  PROVE  Waiting(p)' = {}
<1>1. 1 .. Len(store'[p].pending) = {}
  OBVIOUS
<1> QED BY <1>1 DEF Waiting

LEMMA WaitingAppended ==
  ASSUME NEW p \in Stores, NEW C, store[p].pending \in Seq(C), NEW e \in C,
         store'[p].pending = Append(store[p].pending, e)
  PROVE  Waiting(p)' = Waiting(p) \cup {e}
<1>1. ASSUME NEW s \in Seq(C), NEW t, t = Append(s, e)
      PROVE  {t[i] : i \in 1 .. Len(t)} = {s[i] : i \in 1 .. Len(s)} \cup {e}
  <2>1. /\ Len(s) \in Nat /\ Len(t) = Len(s) + 1 /\ t[Len(s) + 1] = e
        /\ \A i \in 1 .. Len(s) : t[i] = s[i]
    BY <1>1, Appended
  <2>2. 1 .. Len(t) = 1 .. Len(s) \cup {Len(s) + 1}
    BY <2>1
  <2> QED BY <2>1, <2>2
<1> QED BY <1>1 DEF Waiting

LEMMA WaitingWritten ==
  ASSUME NEW p \in Stores, NEW C, store[p].pending \in Seq(C), store[p].pending # <<>>,
         store'[p].pending = Tail(store[p].pending)
  PROVE  /\ Waiting(p)' \subseteq Waiting(p)
         /\ Waiting(p) \subseteq Waiting(p)' \cup {Head(store[p].pending)}
         /\ Head(store[p].pending) \in Waiting(p)
         /\ Tail(store[p].pending) = <<>> => Waiting(p)' = {}
<1> DEFINE In(s) == {s[i] : i \in 1 .. Len(s)}
<1>1. ASSUME NEW s \in Seq(C), s # <<>>, NEW t, t = Tail(s)
      PROVE  /\ In(t) \subseteq In(s) /\ In(s) \subseteq In(t) \cup {Head(s)}
             /\ Head(s) \in In(s)
  <2>1. /\ Head(s) = s[1] /\ 1 \in 1 .. Len(s) /\ Len(s) \in Nat /\ Len(t) = Len(s) - 1
        /\ \A k \in 1 .. Len(t) : t[k] = s[k + 1] /\ k + 1 \in 1 .. Len(s)
    BY <1>1, TailIs
  <2>2. \A i \in 1 .. Len(s) : i # 1 => i - 1 \in 1 .. Len(t) /\ t[i - 1] = s[i]
    BY <2>1
  <2> QED BY <2>1, <2>2
<1>2. In(<<>>) = {}
  OBVIOUS
<1>3. Waiting(p) = In(store[p].pending) /\ Waiting(p)' = In(store'[p].pending)
  BY DEF Waiting
<1> HIDE DEF In
<1>4. /\ In(store'[p].pending) \subseteq In(store[p].pending)
      /\ In(store[p].pending) \subseteq In(store'[p].pending) \cup {Head(store[p].pending)}
      /\ Head(store[p].pending) \in In(store[p].pending)
  BY <1>1
<1>5. Tail(store[p].pending) = <<>> => In(store'[p].pending) = {}
  BY <1>2
<1> QED BY <1>3, <1>4, <1>5, Zenon

LEMMA KnownIs ==
  ASSUME Typed
  PROVE  \A e \in Known : e \in Ents(made) /\ e.n \in 1 .. made
<1>1. Known \subseteq Ents(made)
  <2>1. \A p \in Stores : Waiting(p) \subseteq Ents(made)
    BY Numbers DEF Waiting
  <2>2. landed \subseteq Ents(made) /\ {serve} \ {Torn} \subseteq Ents(made)
    BY DEF Typed, Chunks
  <2> QED BY <2>1, <2>2 DEF Known
<1>2. \A e \in Ents(made) : e.n \in 1 .. made
  BY DEF Ents
<1> QED BY <1>1, <1>2

----------------------------------------------------------------------------
(* An entry is told from the others by its n.                              *)

LEMMA NamedSame ==
  ASSUME Named, Known' \subseteq Known, FileLanded'
  PROVE  Named'
  BY DEF Named, FileLanded

LEMMA NamedGrows ==
  ASSUME Typed, Named, NEW e, e.n = made + 1, e.by = Serve => e.kind # "mark",
         Known' \subseteq Known \cup {e}, FileLanded'
  PROVE  Named'
<1>1. \A f \in Known : f.n # e.n
  <2>1. made \in Nat /\ \A f \in Known : f.n \in 1 .. made
    BY KnownIs DEF Typed
  <2> QED BY <2>1
<1>2. \A f, g \in Known \cup {e} : f.n = g.n => f = g
  BY <1>1 DEF Named
<1>3. \A f \in Known \cup {e} : f.by = Serve => f.kind # "mark"
  BY DEF Named
<1> QED BY <1>2, <1>3 DEF Named, FileLanded

LEMMA FileKept ==
  ASSUME Typed, Named, landed \subseteq landed',
         \/ file' = file
         \/ file' = Append(file, Torn)
         \/ \E end \in Nat : file' = Truncate(file, end)
         \/ \E e \in landed' : file' = Append(file, e) /\ e \in Chunks(made)
  PROVE  FileLanded'
<1>1. file \in Seq(Chunks(made)) /\ made \in Nat /\ Len(file) \in Nat
  BY DEF Typed
<1>2. FileLanded
  BY DEF Named, FileLanded
<1>3. ~IsEntry(Torn)
  BY DEF IsEntry, Torn
<1>4. CASE file' = file
  BY <1>2, <1>4 DEF FileLanded
<1>5. ASSUME NEW c \in Chunks(made), file' = Append(file, c), IsEntry(c) => c \in landed'
      PROVE  FileLanded'
  <2>1. /\ Len(file') = Len(file) + 1 /\ file'[Len(file) + 1] = c
        /\ \A i \in 1 .. Len(file) : file'[i] = file[i]
    BY <1>1, <1>5, Appended
  <2>2. \A i \in 1 .. Len(file') : i \in 1 .. Len(file) \/ i = Len(file) + 1
    BY <1>1, <2>1
  <2> QED BY <1>2, <1>5, <2>1, <2>2 DEF FileLanded
<1>6. CASE file' = Append(file, Torn)
  BY <1>3, <1>5, <1>6 DEF Chunks
<1>7. CASE \E end \in Nat : file' = Truncate(file, end)
  <2>1. PICK end \in Nat : file' = Truncate(file, end)
    BY <1>7
  <2>2. /\ Len(file') = end
        /\ \A i \in 1 .. end : file'[i] = IF i <= Len(file) THEN file[i] ELSE Torn
    BY <1>1, <2>1, Truncated
  <2>3. \A i \in 1 .. end : i <= Len(file) => i \in 1 .. Len(file)
    BY <1>1
  <2> QED BY <1>2, <1>3, <2>2, <2>3 DEF FileLanded
<1>8. CASE \E e \in landed' : file' = Append(file, e) /\ e \in Chunks(made)
  BY <1>5, <1>8
<1> QED BY <1>4, <1>6, <1>7, <1>8

LEMMA KnownSame ==
  ASSUME landed' = landed, serve' = serve \/ serve' = Torn,
         \A p \in Stores : Waiting(p)' \subseteq Waiting(p)
  PROVE  Known' \subseteq Known
  BY DEF Known

LEMMA NamedStep ==
  ASSUME IInv, Named, Next
  PROVE  Named'
<1>a. Typed /\ LockHeld
  BY DEF IInv
<1>b. made \in Nat /\ Ents(made) \subseteq Chunks(made)
  BY <1>a DEF Typed, Chunks
<1>1. ASSUME NEW p \in Stores, \/ OpenReads(p) \/ OpenLooks(p) \/ Flush(p) \/ Close(p)
                               \/ LookAtTail(p) \/ WriteFails(p)
      PROVE  Named'
  <2>1. /\ OthersSame(p) /\ store'[p].pending = store[p].pending
        /\ file' = file \/ file' = Append(file, Torn)
        /\ landed' = landed /\ serve' = serve
    BY <1>1, <1>a, OpenReadsDoes, OpenLooksDoes, FlushDoes, CloseDoes,
       LookAtTailDoes, WriteFailsDoes
  <2>2. \A q \in Stores : Waiting(q)' = Waiting(q)
    BY <2>1, WaitingSame DEF OthersSame
  <2> QED BY <1>a, <2>1, <2>2, KnownSame, FileKept, NamedSame
<1>2. ASSUME NEW p \in Stores, OpenCuts(p) \/ CutTail(p) PROVE Named'
  <2>1. /\ \A q \in Stores : store'[q].pending = store[q].pending
        /\ file' = Truncate(file, store[p].end) /\ store[p].end \in Nat
        /\ landed' = landed /\ serve' = serve
    BY <1>2, <1>a, OpenCutsDoes, CutTailDoes DEF OthersSame
  <2>2. \A q \in Stores : Waiting(q)' = Waiting(q)
    BY <2>1, WaitingSame
  <2> QED BY <1>a, <2>1, <2>2, KnownSame, FileKept, NamedSame
<1>3. ASSUME NEW p \in Stores, AppendLine(p) \/ MailMarks(p) PROVE Named'
  <2>1. Numbering(p)
    BY <1>3, <1>a, NumberingIs
  <2>2. PICK e \in Ents(made + 1) :
          /\ e.n = made + 1 /\ e.by = p
          /\ store'[p].pending = Append(store[p].pending, e)
    BY <1>a, <2>1, NumberingDoes
  <2>3. OthersSame(p) /\ UNCHANGED <<file, serve, landed>>
    BY <1>a, <1>3, <2>1, NumberingDoes DEF Numbering, AppendLine, MailMarks, NumberEntry
  <2>4. store[p].pending \in Seq(Ents(made + 1))
    <3>1. store[p].pending \in Seq(Ents(made)) /\ Ents(made) \subseteq Ents(made + 1)
      BY <1>a, <1>b, Numbers, TypesGrow
    <3> QED BY <3>1
  <2>5. Waiting(p)' = Waiting(p) \cup {e} /\ \A q \in Stores \ {p} : Waiting(q)' = Waiting(q)
    BY <2>2, <2>3, <2>4, WaitingAppended, WaitingSame DEF OthersSame
  <2>6. Known' \subseteq Known \cup {e}
    BY <2>3, <2>5 DEF Known
  <2>7. e.by # Serve
    BY <2>2, Actors
  <2>8. FileLanded'
    BY <1>a, <2>3, FileKept
  <2> QED BY <1>a, <2>2, <2>6, <2>7, <2>8, NamedGrows
<1>4. ASSUME NEW p \in Stores, Write(p) PROVE Named'
  <2> DEFINE e == Head(store[p].pending)
  <2>1. /\ OthersSame(p) /\ store[p].pending \in Seq(Ents(made)) /\ store[p].pending # <<>>
        /\ landed' = landed \cup {e} /\ serve' = serve
        /\ file' = Append(file, e) /\ store'[p].pending = Tail(store[p].pending)
    BY <1>4, <1>a, WriteDoes
  <2>2. e \in Ents(made) /\ e \in Waiting(p) /\ Waiting(p)' \subseteq Waiting(p)
    BY <2>1, HeadTail, WaitingWritten
  <2>3. \A q \in Stores : Waiting(q)' \subseteq Waiting(q)
    BY <2>1, <2>2, WaitingSame DEF OthersSame
  <2> HIDE DEF e
  <2>4. Known' \subseteq Known
    BY <2>1, <2>2, <2>3 DEF Known
  <2>5. FileLanded'
    BY <1>a, <1>b, <2>1, <2>2, FileKept
  <2> QED BY <2>4, <2>5, NamedSame
<1>5. ASSUME NEW p \in Stores, Exit(p) \/ Crash(p) PROVE Named'
  <2>1. /\ OthersSame(p) /\ store'[p] = NoStore /\ landed' = landed /\ serve' = serve
        /\ file' = file \/ file' = Append(file, Torn)
    BY <1>5, <1>a, GoneDoes
  <2>2. Waiting(p)' = {} /\ \A q \in Stores \ {p} : Waiting(q)' = Waiting(q)
    BY <2>1, WaitingNone, WaitingSame DEF OthersSame, NoStore
  <2>3. \A q \in Stores : Waiting(q)' \subseteq Waiting(q)
    BY <2>2
  <2> QED BY <1>a, <2>1, <2>3, KnownSame, FileKept, NamedSame
<1>6. ASSUME NEW p \in Stores, MailLooks(p) \/ MailTells(p) PROVE Named'
  <2>1. UNCHANGED <<file, store, serve, landed>>
    BY <1>6, <1>a, MailDoes
  <2>2. \A q \in Stores : Waiting(q)' = Waiting(q)
    BY <2>1, WaitingSame
  <2> QED BY <1>a, <2>1, <2>2, KnownSame, FileKept, NamedSame
<1>7. CASE ServeStarts
  <2>1. /\ UNCHANGED <<file, store, landed>> /\ serve'.n = made + 1 /\ serve'.kind = "notice"
    BY <1>7 DEF ServeStarts, Entry
  <2>2. \A q \in Stores : Waiting(q)' = Waiting(q)
    BY <2>1, WaitingSame
  <2>3. Known' \subseteq Known \cup {serve'}
    BY <2>1, <2>2 DEF Known
  <2>4. FileLanded'
    BY <1>a, <2>1, FileKept
  <2> QED BY <1>a, <2>1, <2>3, <2>4, NamedGrows
<1>8. CASE ServeWrites \/ ServeFails
  <2>1. /\ serve # Torn /\ serve \in Ents(made) /\ serve' = Torn
        /\ store' = store
        /\ \/ file' = Append(file, serve) /\ landed' = landed \cup {serve}
           \/ file' \in {file, Append(file, Torn)} /\ UNCHANGED landed
    BY <1>8, <1>a, ServeEndsDoes
  <2>2. \A q \in Stores : Waiting(q)' = Waiting(q)
    BY <2>1, WaitingSame
  <2>3. Known' \subseteq Known
    BY <2>1, <2>2 DEF Known
  <2>4. FileLanded'
    BY <1>a, <1>b, <2>1, FileKept
  <2> QED BY <2>3, <2>4, NamedSame
<1> QED
  BY <1>1, <1>2, <1>3, <1>4, <1>5, <1>6, <1>7, <1>8 DEF Next, Proceed, Deliver

----------------------------------------------------------------------------
(* The marks that wait and the notices a mailbox has left.                 *)

\* A step that numbers no mark: what waits stays or lands, a mark's operation
\* goes on or leaves no firm mark behind, and the mailbox does nothing.
Carries(q) ==
  /\ \A f \in Waiting(q)' : f.kind = "mark" => f \in Waiting(q)
  /\ \A f \in Waiting(q) : f \in Waiting(q)' \cup landed'
  /\ store'[q].op = "mark" => store[q].op = "mark" /\ store'[q].pc \in Writing
  /\ store[q].op = "mark" /\ store'[q].op # "mark" =>
       /\ \A f \in Waiting(q) : f \in loose' \cup landed'
       /\ \A f \in Waiting(q)' : f \in loose'
  /\ store'[q].up = "down" => store[q].up = "down"
  /\ mail'[q] = mail[q]

MailOk(q) == MailRuns(q) /\ MarksWait(q) /\ Covered(q)

LEMMA CarriesKeeps ==
  ASSUME NEW q \in Stores, MailOk(q), Carries(q), landed \subseteq landed', loose \subseteq loose'
  PROVE  MailOk(q)'
<1>1. MailRuns(q)'
  BY DEF MailOk, Carries, MailRuns
<1>2. MarksWait(q)'
  <2>1. ASSUME NEW f \in Waiting(q)', f.kind = "mark", f \notin loose'
        PROVE  store'[q].op = "mark" /\ MarkOf(f, Head(mail'[q].todo))
    <3>1. f \in Waiting(q) /\ f \notin loose
      BY <2>1 DEF Carries
    <3>2. store[q].op = "mark" /\ MarkOf(f, Head(mail[q].todo))
      BY <2>1, <3>1 DEF MailOk, MarksWait, Firm
    <3> QED BY <2>1, <3>2 DEF Carries
  <2>2. ASSUME mail'[q].pc = "marking"
        PROVE  \/ \E f \in loose' \cup landed' : MarkOf(f, Head(mail'[q].todo))
               \/ store'[q].op = "mark" /\ \E f \in Waiting(q)' : MarkOf(f, Head(mail'[q].todo))
    <3>1. mail'[q] = mail[q]
      BY DEF Carries
    <3>2. CASE \E f \in loose \cup landed : MarkOf(f, Head(mail[q].todo))
      BY <3>1, <3>2
    <3>3. CASE store[q].op = "mark" /\ \E f \in Waiting(q) : MarkOf(f, Head(mail[q].todo))
      BY <3>1, <3>3 DEF Carries
    <3> QED BY <2>2, <3>1, <3>2, <3>3 DEF MailOk, MarksWait
  <2> QED BY <2>1, <2>2 DEF MarksWait, Firm, MarkOf
<1>3. Covered(q)'
  <2>1. mail'[q] = mail[q] /\ Left(q)' = Left(q)
    BY DEF Carries, Left
  <2>2. ASSUME NEW e \in Undelivered(mail[q].seen)
        PROVE  \/ \E k \in Left(q) : mail[q].todo[k] = e.n
               \/ \E f \in Waiting(q)' \cup landed' :
                    MarkOf(f, e.n) /\ f \notin Readable(mail[q].seen)
    BY DEF MailOk, Covered, Carries
  <2> QED BY <2>1, <2>2 DEF Covered, MarkOf
<1> QED BY <1>1, <1>2, <1>3 DEF MailOk

LEMMA CarriesSame ==
  ASSUME NEW q \in Stores, MailOk(q), store'[q].pending = store[q].pending,
         store'[q].up \in {store[q].up, "open", "closed"},
         store'[q].op = store[q].op, store[q].op = "mark" => store'[q].pc \in Writing,
         mail'[q] = mail[q]
  PROVE  Carries(q)
<1>1. Waiting(q)' = Waiting(q)
  BY WaitingSame
<1> QED BY <1>1 DEF Carries

LEMMA CarriesIdle ==
  ASSUME NEW q \in Stores, store'[q].pending = store[q].pending,
         store'[q].up \in {store[q].up, "open", "closed"},
         store[q].op # "mark", store'[q].op # "mark",
         mail'[q] = mail[q]
  PROVE  Carries(q)
<1>1. Waiting(q)' = Waiting(q)
  BY WaitingSame
<1> QED BY <1>1 DEF Carries

\* A mailbox that has looked at nothing.
LEMMA MailFresh ==
  ASSUME NEW q \in Stores,
         mail'[q].pc \in {"off", "idle"}, mail'[q].todo = <<>>, mail'[q].seen = <<>>,
         store'[q].up = "down" => mail'[q] = NoMail,
         store'[q].op # "mark", \A f \in Waiting(q)' : f.kind = "mark" => f \in loose'
  PROVE  MailOk(q)'
<1>1. MailRuns(q)'
  BY DEF MailRuns
<1>2. MarksWait(q)'
  BY DEF MarksWait, Firm
<1>3. Undelivered(mail'[q].seen) = {}
  BY DEF Undelivered, Readable, ReadAfter, Lines
<1>4. Covered(q)'
  BY <1>3 DEF Covered
<1> QED BY <1>1, <1>2, <1>4 DEF MailOk

\* What MailFresh needs of a step.
Fresh(q) ==
  /\ mail'[q].pc \in {"off", "idle"} /\ mail'[q].todo = <<>> /\ mail'[q].seen = <<>>
  /\ store'[q].up = "down" => mail'[q] = NoMail
  /\ store'[q].op # "mark"
  /\ \A f \in Waiting(q)' : f.kind = "mark" => f \in loose'

\* A step of p that leaves the other stores and mailboxes alone.
LEMMA OthersCarry ==
  ASSUME MailInv, NEW p \in Stores, OthersSame(p), \A q \in Stores \ {p} : mail'[q] = mail[q]
  PROVE  \A q \in Stores \ {p} : Carries(q)
<1> SUFFICES ASSUME NEW q \in Stores \ {p} PROVE Carries(q)
  OBVIOUS
<1>1. MailOk(q) /\ store'[q] = store[q] /\ mail'[q] = mail[q]
  BY DEF MailInv, MailOk, OthersSame
<1>2. /\ store'[q].pending = store[q].pending /\ store'[q].op = store[q].op
      /\ store'[q].up = store[q].up /\ store'[q].pc = store[q].pc
  BY <1>1
<1>3. store[q].op = "mark" => store'[q].pc \in Writing
  BY <1>1, <1>2 DEF MailOk, MailRuns
<1> QED BY <1>1, <1>2, <1>3, CarriesSame

\* A store that is idle is in no operation of a mark's, so its marks are loose.
LEMMA IdleMarks ==
  ASSUME MailInv, NEW p \in Stores, store[p].pc \notin Writing
  PROVE  store[p].op # "mark" /\ \A f \in Waiting(p) : f.kind = "mark" => f \in loose
  BY DEF MailInv, MailRuns, MarksWait, Firm

LEMMA OpenCarries ==
  ASSUME IInv, MailInv, NEW p \in Stores, OpenReads(p) \/ OpenLooks(p) \/ OpenCuts(p)
  PROVE  \A q \in Stores : Carries(q) \/ Fresh(q)
<1>a. Typed /\ LockHeld /\ MailOk(p)
  BY DEF IInv, MailInv, MailOk
<1>b. store \in [Stores -> StoreT(made)] /\ mail \in [Stores -> MailT(made)]
  BY <1>a DEF Typed
<1>1. store[p].pc \notin Writing /\ OthersSame(p) /\ store'[p].pending = store[p].pending
      /\ store'[p].op = store[p].op /\ store[p].up = "down" /\ store[p].pending = <<>>
  <2>1. store[p].pc \in {"idle", "opening", "opencut"} /\ OthersSame(p)
        /\ store'[p].pending = store[p].pending
    BY <1>a, OpenReadsDoes, OpenLooksDoes, OpenCutsDoes
  <2>2. store'[p].op = store[p].op
    BY <1>a, OpSame
  <2>3. store[p].up = "down"
    BY <1>a, OpenReadsDoes, OpenLooksDoes, OpenCutsDoes DEF LockHeld
  <2>4. store[p].pending = <<>>
    BY <1>a, <2>3 DEF LockHeld, NoStore
  <2> QED BY <2>1, <2>2, <2>3, <2>4 DEF Writing
<1>2. store[p].op # "mark"
  BY <1>1, IdleMarks
<1>3. mail[p] = NoMail
  BY <1>a, <1>1 DEF MailOk, MailRuns
<1>4. \/ mail' = mail
      \/ mail' = [mail EXCEPT ![p].pc = "idle"] /\ store'[p].up = "open"
  <2>1. CASE OpenReads(p)
    BY <1>a, <2>1, OpenReadsDoes
  <2>2. CASE OpenLooks(p)
    <3>1. mail' = mail \/ Opened(p, Len(file))
      BY <1>a, <2>2, OpenLooksDoes
    <3>2. mail' = mail \/ store'[p].up = "open"
      BY <1>a, <2>2, OpenLooksDoes
    <3>3. Opened(p, Len(file)) => mail' = [mail EXCEPT ![p].pc = "idle"]
      BY Zenon DEF Opened
    <3> QED BY <3>1, <3>2, <3>3, Zenon
  <2>3. CASE OpenCuts(p)
    <3>1. Opened(p, store[p].end) /\ store'[p].up = "open"
      BY <1>a, <2>3, OpenCutsDoes
    <3>2. mail' = [mail EXCEPT ![p].pc = "idle"]
      BY <3>1, Zenon DEF Opened
    <3> QED BY <3>1, <3>2, Zenon
  <2> QED BY <2>1, <2>2, <2>3
<1>5. \A q \in Stores \ {p} : mail'[q] = mail[q]
  BY <1>b, <1>4
<1>6. \A q \in Stores \ {p} : Carries(q)
  BY <1>1, <1>5, OthersCarry
<1>7. CASE mail' = mail
  <2>1. store'[p].up \in {"down", "open"}
    BY <1>a, OpenReadsDoes, OpenLooksDoes, OpenCutsDoes, <1>1
  <2>2. Carries(p)
    BY <1>1, <1>2, <1>7, <2>1, CarriesIdle
  <2> QED BY <1>6, <2>2
<1>8. CASE mail' = [mail EXCEPT ![p].pc = "idle"] /\ store'[p].up = "open"
  <2>1. mail'[p].pc = "idle" /\ mail'[p].todo = <<>> /\ mail'[p].seen = <<>>
    BY <1>3, <1>8, <1>b DEF NoMail
  <2>2. Waiting(p)' = {}
    BY <1>1, WaitingNone
  <2>3. Fresh(p)
    BY <1>1, <1>2, <1>8, <2>1, <2>2 DEF Fresh
  <2> QED BY <1>6, <2>3
<1> QED BY <1>4, <1>7, <1>8

LEMMA OperationCarries ==
  ASSUME IInv, MailInv, NEW p \in Stores,
         \/ AppendLine(p) \/ Flush(p) \/ LookAtTail(p) \/ CutTail(p) \/ Write(p) \/ WriteFails(p)
  PROVE  \A q \in Stores : Carries(q)
<1>a. Typed /\ LockHeld /\ \A q \in Stores : MailOk(q)
  BY DEF IInv, MailInv, MailOk
<1>m. mail' = mail
  BY DEF AppendLine, Flush, LookAtTail, CutTail, Write, WriteFails
<1>1. CASE AppendLine(p)
  <2>0. NumberEntry(p, "line", 0) /\ made \in Nat /\ 0 \in 0 .. made
    BY <1>a, <1>1 DEF AppendLine, Typed
  <2>1. /\ store[p].pc = "idle" /\ store[p].up # "down" /\ OthersSame(p)
        /\ store'[p].op = "line" /\ store'[p].up = store[p].up
        /\ \E e \in Ents(made + 1) :
              e.kind = "line" /\ store'[p].pending = Append(store[p].pending, e)
    BY <1>a, <2>0, OpNumbers
  <2>2. PICK e \in Ents(made + 1) :
              e.kind = "line" /\ store'[p].pending = Append(store[p].pending, e)
    BY <2>1
  <2>3. store[p].pending \in Seq(Ents(made + 1))
    <3>1. store[p].pending \in Seq(Ents(made)) /\ Ents(made) \subseteq Ents(made + 1)
      BY <1>a, <2>0, Numbers, TypesGrow
    <3> QED BY <3>1
  <2>4. Waiting(p)' = Waiting(p) \cup {e}
    BY <2>2, <2>3, WaitingAppended
  <2>5. store[p].op # "mark"
    BY <2>1, IdleMarks DEF Writing
  <2>6. Carries(p)
    BY <1>m, <2>1, <2>2, <2>4, <2>5 DEF Carries
  <2> QED BY <1>m, <2>1, <2>6, OthersCarry
<1>2. CASE Flush(p)
  <2>1. /\ store[p].pc = "idle" /\ OthersSame(p) /\ store'[p].up = store[p].up
        /\ store'[p].pending = store[p].pending /\ store'[p].op # "mark"
    BY <1>a, <1>2, FlushDoes, OpEnds
  <2>2. store[p].op # "mark" /\ store[p].pc \notin Writing
    BY <2>1, IdleMarks DEF Writing
  <2>3. Carries(p)
    BY <1>m, <2>1, <2>2, CarriesIdle
  <2> QED BY <1>m, <2>1, <2>3, OthersCarry
<1>3. CASE LookAtTail(p)
  <2>1. /\ OthersSame(p) /\ store'[p].up = store[p].up /\ store'[p].pc \in Writing
        /\ store'[p].pending = store[p].pending /\ store'[p].op = store[p].op
    BY <1>a, <1>3, LookAtTailDoes, OpSame DEF Writing
  <2>2. Carries(p)
    BY <1>a, <1>m, <2>1, CarriesSame
  <2> QED BY <1>m, <2>1, <2>2, OthersCarry
<1>4. CASE CutTail(p)
  <2>1. ASSUME NEW q \in Stores
        PROVE  /\ store'[q].up = store[q].up
               /\ store'[q].pending = store[q].pending /\ store'[q].op = store[q].op
               /\ store[q].pc \in Writing => store'[q].pc \in Writing
    BY <1>a, <1>4, CutTailDoes, OpSame DEF Writing
  <2>2. ASSUME NEW q \in Stores PROVE store[q].op = "mark" => store'[q].pc \in Writing
    BY <1>a, <2>1 DEF MailOk, MailRuns
  <2>3. \A q \in Stores : mail'[q] = mail[q]
    BY <1>m
  <2> QED BY <1>a, <2>1, <2>2, <2>3, CarriesSame
<1>5. CASE Write(p)
  <2>1. /\ store[p].pc = "write" /\ OthersSame(p)
        /\ store[p].pending \in Seq(Ents(made)) /\ store[p].pending # <<>>
        /\ landed' = landed \cup {Head(store[p].pending)}
        /\ store'[p].pending = Tail(store[p].pending)
        /\ Tail(store[p].pending) # <<>> => store'[p].pc = "write"
        /\ store'[p].up \in {store[p].up, "closed"}
    BY <1>a, <1>5, WriteDoes
  <2>2. /\ Waiting(p)' \subseteq Waiting(p)
        /\ Waiting(p) \subseteq Waiting(p)' \cup {Head(store[p].pending)}
        /\ Tail(store[p].pending) = <<>> => Waiting(p)' = {}
    BY <2>1, WaitingWritten
  <2>3. store'[p].op = IF Tail(store[p].pending) = <<>> THEN "none" ELSE store[p].op
    BY <1>a, <1>5, OpWrites
  <2>4. Carries(p)
    <3>1. CASE Tail(store[p].pending) = <<>>
      BY <1>m, <2>1, <2>2, <2>3, <3>1 DEF Carries
    <3>2. CASE Tail(store[p].pending) # <<>>
      BY <1>m, <2>1, <2>2, <2>3, <3>2 DEF Carries, Writing
    <3> QED BY <3>1, <3>2
  <2> QED BY <1>m, <2>1, <2>4, OthersCarry
<1>6. CASE WriteFails(p)
  <2>1. /\ OthersSame(p) /\ loose' = loose \cup Waiting(p)
        /\ store'[p].pending = store[p].pending /\ store'[p].op # "mark"
        /\ store'[p].up \in {store[p].up, "closed"}
    BY <1>a, <1>6, WriteFailsDoes, OpEnds
  <2>2. Waiting(p)' = Waiting(p)
    BY <2>1, WaitingSame
  <2>3. Carries(p)
    BY <1>m, <2>1, <2>2 DEF Carries
  <2> QED BY <1>m, <2>1, <2>3, OthersCarry
<1> QED BY <1>1, <1>2, <1>3, <1>4, <1>5, <1>6

LEMMA EndCarries ==
  ASSUME IInv, MailInv, NEW p \in Stores, Close(p) \/ Exit(p) \/ Crash(p)
  PROVE  \A q \in Stores : Carries(q) \/ Fresh(q)
<1>a. Typed /\ LockHeld /\ MailOk(p)
  BY DEF IInv, MailInv, MailOk
<1>b. mail \in [Stores -> MailT(made)]
  BY <1>a DEF Typed
<1>1. CASE Close(p)
  <2>1. /\ store[p].pc = "idle" /\ store[p].up = "open" /\ OthersSame(p)
        /\ store'[p].pending = store[p].pending
        /\ store'[p].up \in {"open", "closed"} /\ loose' = loose
        /\ store'[p].op \in {store[p].op, "close"}
        /\ IF mail[p].pc = "idle" THEN mail' = [mail EXCEPT ![p] = NoMail] ELSE mail' = mail
    BY <1>a, <1>1, CloseDoes, OpCloses
  <2>2. /\ store[p].op # "mark" /\ store[p].pc \notin Writing
        /\ \A f \in Waiting(p) : f.kind = "mark" => f \in loose
    BY <2>1, IdleMarks DEF Writing
  <2>3. \A q \in Stores \ {p} : mail'[q] = mail[q]
    BY <1>b, <2>1
  <2>4. \A q \in Stores \ {p} : Carries(q)
    BY <2>1, <2>3, OthersCarry
  <2>5. CASE mail[p].pc = "idle"
    <3>1. mail'[p] = NoMail
      BY <1>b, <2>1, <2>5
    <3>2. Waiting(p)' = Waiting(p)
      BY <2>1, WaitingSame
    <3>3. Fresh(p)
      BY <2>1, <2>2, <3>1, <3>2 DEF Fresh, NoMail
    <3> QED BY <2>4, <3>3
  <2>6. CASE mail[p].pc # "idle"
    <3>1. Carries(p)
      BY <2>1, <2>2, <2>6, CarriesIdle
    <3> QED BY <2>4, <3>1
  <2> QED BY <2>5, <2>6
<1>2. CASE Exit(p) \/ Crash(p)
  <2>1. OthersSame(p) /\ store'[p] = NoStore
    BY <1>a, <1>2, GoneDoes
  <2>2. mail' = [mail EXCEPT ![p] = NoMail]
    BY <1>2 DEF Exit, Crash, Gone
  <2>3. mail'[p] = NoMail /\ \A q \in Stores \ {p} : mail'[q] = mail[q]
    BY <1>b, <2>2
  <2>4. Waiting(p)' = {}
    BY <2>1, WaitingNone DEF NoStore
  <2>5. Fresh(p)
    BY <2>1, <2>3, <2>4 DEF Fresh, NoMail, NoStore
  <2> QED BY <2>1, <2>3, <2>5, OthersCarry
<1> QED BY <1>1, <1>2

LEMMA ServeCarries ==
  ASSUME IInv, MailInv, ServeStarts \/ ServeWrites \/ ServeFails
  PROVE  \A q \in Stores : Carries(q)
<1> SUFFICES ASSUME NEW q \in Stores PROVE Carries(q)
  OBVIOUS
<1>1. store' = store /\ mail' = mail
  BY DEF ServeStarts, ServeWrites, ServeFails
<1>2. MailOk(q) /\ (store[q].op = "mark" => store'[q].pc \in Writing)
  BY <1>1 DEF MailInv, MailOk, MailRuns
<1> QED BY <1>1, <1>2, CarriesSame

----------------------------------------------------------------------------
(* What a mailbox finds in the file, marks and queues.                     *)

LEMMA SortCovers ==
  ASSUME NEW S, IsFiniteSet(S), NEW q, Sorts(q, S)
  PROVE  /\ \A i, j \in 1 .. Cardinality(S) : i # j => q[i] # q[j]
         /\ \A e \in S : \E i \in 1 .. Cardinality(S) : q[i] = e
<1>1. Cardinality(S) \in Nat
  BY FS_CardinalityType
<1>2. PICK n \in Nat : n = Cardinality(S)
  BY <1>1
<1>3. /\ q \in [1 .. n -> S]
      /\ \A i, j \in 1 .. n : i < j => q[i] # q[j]
  BY <1>2 DEF Sorts
<1>4. \A i, j \in 1 .. n : i # j => q[i] # q[j]
  <2>1. \A i, j \in 1 .. n : i # j => i < j \/ j < i
    BY <1>2
  <2> QED BY <1>3, <2>1
<1>5. q \in Injection(1 .. n, S)
  BY <1>3, <1>4 DEF Injection, IsInjective
<1>6. Cardinality(1 .. n) = n
  BY <1>2, FS_Interval
<1>7. q \in Surjection(1 .. n, S)
  BY <1>2, <1>5, <1>6, FS_Injection
<1>8. \A e \in S : \E i \in 1 .. n : q[i] = e
  BY <1>7 DEF Surjection
<1> QED BY <1>2, <1>4, <1>8

LEMMA ReadableLanded ==
  ASSUME Typed, Named
  PROVE  Readable(file) \subseteq landed
<1>1. \A i \in Lines(file, 0) : i \in 1 .. Len(file) /\ IsEntry(file[i])
  BY DEF Lines
<1> QED BY <1>1 DEF Readable, ReadAfter, Named, FileLanded

LEMMA LooksFinds ==
  ASSUME Typed, Named, NEW p \in Stores, MailLooks(p)
  PROVE  /\ mail[p].pc = "idle" /\ store[p].up = "open"
         /\ mail'[p].seen = file
         /\ mail'[p].pc \in {"idle", "mark"} /\ mail'[p].todo \in Seq(1 .. made)
         /\ mail'[p].pc = "idle" => mail'[p].todo = <<>>
         /\ \A i, j \in 1 .. Len(mail'[p].todo) : i # j => mail'[p].todo[i] # mail'[p].todo[j]
         /\ \A e \in Undelivered(file) : \E k \in 1 .. Len(mail'[p].todo) : mail'[p].todo[k] = e.n
         /\ \A k \in 1 .. Len(mail'[p].todo) :
              \E e \in Undelivered(file) : mail'[p].todo[k] = e.n
<1>1. mail \in [Stores -> MailT(made)] /\ made \in Nat /\ file \in Seq(Chunks(made))
  BY DEF Typed
<1>2. PICK S : S = Undelivered(file)
  BY Zenon
<1>3. IsFiniteSet(S) /\ S \subseteq Readable(file) /\ S \subseteq Ents(made)
  <2>1. S \subseteq Readable(file) /\ IsFiniteSet(Readable(file))
    BY <1>1, <1>2, FileFinite DEF Undelivered
  <2> QED BY <1>2, <2>1, FS_Subset, UndeliveredSorts
<1>4. Sorts(BySeq(S), S)
  <2>1. \A e \in S : e.seq \in 0 .. made
    BY <1>1, <1>3, LinesAre DEF Readable
  <2> QED BY <1>1, <1>3, <2>1, BySeqSorts
<1>5. PICK q : q = BySeq(S)
  BY Zenon
<1>6. PICK m \in Nat : m = Cardinality(S)
  BY <1>3, FS_CardinalityType
<1>7. /\ q \in [1 .. m -> S] /\ \A i, j \in 1 .. m : i # j => q[i] # q[j]
      /\ \A e \in S : \E i \in 1 .. m : q[i] = e
  BY <1>3, <1>4, <1>5, <1>6, SortCovers DEF Sorts
<1>8. \A e, f \in S : e.n = f.n => e = f
  BY <1>3, ReadableLanded DEF Named, Known
<1>9. \A e \in S : e.n \in 1 .. made
  BY <1>3 DEF Ents
<1>10. PICK ns : ns = [i \in DOMAIN q |-> q[i].n]
  BY Zenon
<1>11. ns \in [1 .. m -> 1 .. made] /\ \A i \in 1 .. m : ns[i] = q[i].n
  BY <1>7, <1>9, <1>10
<1>12. ns \in Seq(1 .. made) /\ Len(ns) = m
  <2>1. PICK C : C = 1 .. made
    BY Zenon
  <2>2. ns \in [1 .. m -> C]
    BY <1>11, <2>1
  <2>3. ns \in Seq(C) /\ Len(ns) = m
    BY <2>2
  <2> QED BY <2>1, <2>3
<1>13. mail' = [mail EXCEPT ![p] = [pc |-> IF q = <<>> THEN "idle" ELSE "mark",
                                    seen |-> file, todo |-> ns]]
       /\ mail[p].pc = "idle" /\ store[p].up = "open"
  BY <1>2, <1>5, <1>10, Zenon DEF MailLooks
<1>14. mail'[p] = [pc |-> IF q = <<>> THEN "idle" ELSE "mark", seen |-> file, todo |-> ns]
  BY <1>1, <1>13
<1>15. /\ mail'[p].seen = file /\ mail'[p].todo = ns
       /\ mail'[p].pc = IF q = <<>> THEN "idle" ELSE "mark"
  BY <1>14
<1>16. q = <<>> => ns = <<>>
  <2>1. ASSUME q = <<>> PROVE 1 .. m = {}
    BY <1>7, <2>1
  <2>2. 1 .. m = {} => m = 0
    OBVIOUS
  <2> QED BY <1>12, <2>1, <2>2
<1>17. \A i, j \in 1 .. m : i # j => ns[i] # ns[j]
  BY <1>7, <1>8, <1>11
<1>18. \A e \in S : \E k \in 1 .. m : ns[k] = e.n
  BY <1>7, <1>11
<1>19. \A k \in 1 .. m : \E e \in S : ns[k] = e.n
  BY <1>7, <1>11
<1> QED BY <1>2, <1>12, <1>13, <1>15, <1>16, <1>17, <1>18, <1>19

LEMMA TellsDoes ==
  ASSUME Typed, LockHeld, NEW p \in Stores, MailTells(p)
  PROVE  /\ mail[p].pc = "marking" /\ store[p].op # "mark" /\ store' = store
         /\ landed' = landed /\ loose' = loose /\ bare' = bare /\ crowd' = crowd /\ file' = file
         /\ told' = Append(told, Head(mail[p].todo))
         /\ mail'[p].seen = mail[p].seen /\ mail'[p].pc \in {"idle", "mark"}
         /\ mail'[p].pc = "idle" => mail'[p].todo = <<>>
         /\ mail[p].todo \in Seq(1 .. made) /\ mail[p].todo # <<>>
         /\ mail'[p].todo = Tail(mail[p].todo)
         /\ \A q \in Stores \ {p} : mail'[q] = mail[q]
<1>1. mail \in [Stores -> MailT(made)] /\ mail[p] \in MailT(made)
  BY DEF Typed
<1>2. /\ mail[p].pc = "marking" /\ store[p].op # "mark"
      /\ UNCHANGED <<file, store, landed, loose, bare, crowd>>
      /\ told' = Append(told, Head(mail[p].todo))
  BY DEF MailTells
<1>3. mail[p].todo \in Seq(1 .. made) /\ mail[p].todo # <<>>
  BY <1>1, <1>2 DEF MailT, LockHeld
<1>4. PICK rest : rest = Tail(mail[p].todo)
  BY Zenon
<1>5. PICK pc : pc = IF rest = <<>> THEN "idle" ELSE "mark"
  BY Zenon
<1>6. mail' = [mail EXCEPT ![p] = [mail[p] EXCEPT !.todo = rest, !.pc = pc]]
  BY <1>4, <1>5, Zenon DEF MailTells
<1>7. mail'[p] = [mail[p] EXCEPT !.todo = rest, !.pc = pc]
  BY <1>1, <1>6
<1>8. mail'[p].seen = mail[p].seen /\ mail'[p].todo = rest /\ mail'[p].pc = pc
  BY <1>1, <1>7 DEF MailT
<1>9. \A q \in Stores \ {p} : mail'[q] = mail[q]
  BY <1>1, <1>6
<1> QED BY <1>2, <1>3, <1>4, <1>5, <1>8, <1>9

LEMMA MarksDoes ==
  ASSUME Typed, LockHeld, NEW p \in Stores, MailMarks(p)
  PROVE  /\ mail[p].pc = "mark" /\ mail'[p].pc = "marking"
         /\ mail'[p].seen = mail[p].seen /\ mail'[p].todo = mail[p].todo
         /\ mail[p].todo \in Seq(1 .. made) /\ mail[p].todo # <<>>
         /\ \A q \in Stores \ {p} : mail'[q] = mail[q]
         /\ store[p].pc = "idle" /\ store[p].up # "down" /\ OthersSame(p)
         /\ store'[p].op = "mark" /\ store'[p].pc \in Writing /\ store'[p].up = store[p].up
         /\ landed' = landed /\ told' = told /\ bare' = bare /\ crowd' = crowd
         /\ loose \subseteq loose'
         /\ \E e : /\ MarkOf(e, Head(mail[p].todo)) /\ e.n = made + 1
                   /\ Waiting(p)' = Waiting(p) \cup {e}
<1>1. mail \in [Stores -> MailT(made)] /\ mail[p] \in MailT(made) /\ made \in Nat
  BY DEF Typed
<1>2. /\ mail[p].pc = "mark" /\ NumberEntry(p, "mark", Head(mail[p].todo))
      /\ mail' = [mail EXCEPT ![p].pc = "marking"]
      /\ UNCHANGED <<told, landed, bare, crowd>>
  BY DEF MailMarks
<1>3. mail[p].todo \in Seq(1 .. made) /\ mail[p].todo # <<>>
  BY <1>1, <1>2 DEF MailT, LockHeld
<1>4. PICK h \in 0 .. made : h = Head(mail[p].todo)
  <2>1. Head(mail[p].todo) \in 1 .. made
    BY <1>3, HeadTail
  <2> QED BY <1>1, <2>1
<1>5. NumberEntry(p, "mark", h)
  BY <1>2, <1>4
<1>6. /\ store[p].pc = "idle" /\ store[p].up # "down" /\ OthersSame(p)
      /\ store'[p].op = "mark" /\ store'[p].pc \in Writing /\ store'[p].up = store[p].up
      /\ \E e \in Ents(made + 1) :
           /\ e.n = made + 1 /\ e.by = p /\ e.kind = "mark" /\ e.of = h
           /\ store'[p].pending = Append(store[p].pending, e)
           /\ loose \subseteq loose' /\ loose' \subseteq loose \cup {e}
  BY <1>5, OpNumbers
<1>7. PICK e \in Ents(made + 1) :
           /\ e.n = made + 1 /\ e.by = p /\ e.kind = "mark" /\ e.of = h
           /\ store'[p].pending = Append(store[p].pending, e)
           /\ loose \subseteq loose' /\ loose' \subseteq loose \cup {e}
  BY <1>6
<1>8. store[p].pending \in Seq(Ents(made + 1))
  <2>1. store[p].pending \in Seq(Ents(made)) /\ Ents(made) \subseteq Ents(made + 1)
    BY <1>1, Numbers, TypesGrow
  <2> QED BY <2>1
<1>9. Waiting(p)' = Waiting(p) \cup {e}
  BY <1>7, <1>8, WaitingAppended
<1>10. MarkOf(e, Head(mail[p].todo))
  BY <1>4, <1>7 DEF MarkOf
<1>11. /\ mail'[p].pc = "marking" /\ mail'[p].seen = mail[p].seen
       /\ mail'[p].todo = mail[p].todo
       /\ \A q \in Stores \ {p} : mail'[q] = mail[q]
  BY <1>1, <1>2 DEF MailT
<1> QED BY <1>2, <1>3, <1>6, <1>7, <1>9, <1>10, <1>11

LEMMA LooksKeeps ==
  ASSUME IInv, Named, MailInv, NEW p \in Stores, MailLooks(p)
  PROVE  MailOk(p)'
<1>a. Typed /\ MailOk(p)
  BY DEF IInv, MailInv, MailOk
<1>1. /\ mail[p].pc = "idle" /\ store[p].up = "open"
      /\ mail'[p].seen = file
      /\ mail'[p].pc \in {"idle", "mark"}
      /\ mail'[p].pc = "idle" => mail'[p].todo = <<>>
      /\ \A i, j \in 1 .. Len(mail'[p].todo) : i # j => mail'[p].todo[i] # mail'[p].todo[j]
      /\ \A e \in Undelivered(file) : \E k \in 1 .. Len(mail'[p].todo) : mail'[p].todo[k] = e.n
  BY <1>a, LooksFinds
<1>2. store' = store /\ landed' = landed /\ loose' = loose
  BY <1>a, MailDoes
<1>3. store[p].op # "mark" /\ \A f \in Waiting(p) : f.kind = "mark" => f \in loose
  BY <1>a, <1>1 DEF MailOk, MailRuns, MarksWait, Firm
<1>4. MailRuns(p)'
  BY <1>1, <1>2, <1>3 DEF MailRuns
<1>5. Waiting(p)' = Waiting(p)
  BY <1>2, WaitingSame
<1>6. MarksWait(p)'
  BY <1>1, <1>2, <1>3, <1>5 DEF MarksWait, Firm
<1>7. Left(p)' = 1 .. Len(mail'[p].todo)
  BY <1>1 DEF Left
<1>8. Covered(p)'
  BY <1>1, <1>7 DEF Covered
<1> QED BY <1>4, <1>6, <1>8 DEF MailOk

LEMMA TellsKeeps ==
  ASSUME IInv, MailInv, NEW p \in Stores, MailTells(p)
  PROVE  MailOk(p)' /\ \A k \in Left(p)' : k + 1 \in Left(p)
                                          /\ mail'[p].todo[k] = mail[p].todo[k + 1]
<1>a. Typed /\ LockHeld /\ MailOk(p)
  BY DEF IInv, MailInv, MailOk
<1>1. /\ mail[p].pc = "marking" /\ store[p].op # "mark" /\ store' = store
      /\ landed' = landed /\ loose' = loose
      /\ mail'[p].seen = mail[p].seen /\ mail'[p].pc \in {"idle", "mark"}
      /\ mail'[p].pc = "idle" => mail'[p].todo = <<>>
      /\ mail[p].todo \in Seq(1 .. made) /\ mail[p].todo # <<>>
      /\ mail'[p].todo = Tail(mail[p].todo)
  BY <1>a, TellsDoes
<1>2. PICK n \in Nat : n = Len(mail[p].todo)
  BY <1>1
<1>3. /\ Len(mail'[p].todo) = n - 1
      /\ \A k \in 1 .. n - 1 : mail'[p].todo[k] = mail[p].todo[k + 1] /\ k + 1 \in 1 .. n
  BY <1>1, <1>2, TailIs
<1>4. Left(p)' = 1 .. n - 1
  BY <1>1, <1>3 DEF Left
<1>5. Left(p) = 2 .. n
  BY <1>1, <1>2 DEF Left
<1>6. \A k \in Left(p)' : k + 1 \in Left(p) /\ mail'[p].todo[k] = mail[p].todo[k + 1]
  BY <1>2, <1>3, <1>4, <1>5
<1>7. \A k \in Left(p) : k - 1 \in Left(p)' /\ mail'[p].todo[k - 1] = mail[p].todo[k]
  <2>1. ASSUME NEW k \in 2 .. n PROVE k - 1 \in 1 .. n - 1 /\ k - 1 + 1 = k
    BY <1>2
  <2> QED BY <1>3, <1>4, <1>5, <2>1
<1>8. MailRuns(p)'
  <2>1. store[p].up # "down"
    BY <1>a, <1>1 DEF MailOk, MailRuns, NoMail
  <2>2. \A i, j \in 1 .. n : i # j => mail[p].todo[i] # mail[p].todo[j]
    BY <1>a, <1>2 DEF MailOk, MailRuns
  <2>3. \A i, j \in 1 .. n - 1 : i # j => mail'[p].todo[i] # mail'[p].todo[j]
    BY <1>2, <1>3, <2>2
  <2> QED BY <1>1, <1>3, <2>1, <2>3 DEF MailRuns
<1>9. Waiting(p)' = Waiting(p)
  BY <1>1, WaitingSame
<1>10. \A f \in Waiting(p) : f.kind = "mark" => f \in loose
  BY <1>a, <1>1 DEF MailOk, MarksWait, Firm
<1>11. MarksWait(p)'
  BY <1>1, <1>9, <1>10 DEF MarksWait, Firm
<1>12. Covered(p)'
  <2>1. ASSUME NEW e \in Undelivered(mail[p].seen)
        PROVE  \/ \E k \in Left(p)' : mail'[p].todo[k] = e.n
               \/ \E f \in Waiting(p) \cup landed :
                    MarkOf(f, e.n) /\ f \notin Readable(mail[p].seen)
    <3>1. CASE \E k \in Left(p) : mail[p].todo[k] = e.n
      BY <1>7, <3>1
    <3> QED BY <1>a, <3>1 DEF MailOk, Covered
  <2> QED BY <1>1, <1>9, <2>1 DEF Covered, MarkOf
<1> QED BY <1>6, <1>8, <1>11, <1>12 DEF MailOk

LEMMA MarksKeeps ==
  ASSUME IInv, MailInv, NEW p \in Stores, MailMarks(p)
  PROVE  MailOk(p)'
<1>a. Typed /\ LockHeld /\ MailOk(p)
  BY DEF IInv, MailInv, MailOk
<1>1. /\ mail[p].pc = "mark" /\ mail'[p].pc = "marking"
      /\ mail'[p].seen = mail[p].seen /\ mail'[p].todo = mail[p].todo
      /\ mail[p].todo \in Seq(1 .. made) /\ mail[p].todo # <<>>
      /\ store[p].pc = "idle" /\ store[p].up # "down"
      /\ store'[p].op = "mark" /\ store'[p].pc \in Writing /\ store'[p].up = store[p].up
      /\ landed' = landed /\ loose \subseteq loose'
  BY <1>a, MarksDoes
<1>2. PICK e : /\ MarkOf(e, Head(mail[p].todo)) /\ e.n = made + 1
               /\ Waiting(p)' = Waiting(p) \cup {e}
  BY <1>a, MarksDoes
<1>3. MailRuns(p)'
  BY <1>a, <1>1 DEF MailOk, MailRuns
<1>4. \A f \in Waiting(p) : f.kind = "mark" => f \in loose
  BY <1>1, IdleMarks DEF Writing
<1>5. MarksWait(p)'
  BY <1>1, <1>2, <1>4 DEF MarksWait, Firm, MarkOf
<1>6. Covered(p)'
  <2>1. e \notin Readable(mail[p].seen)
    <3>1. mail[p].seen \in Seq(Chunks(made)) /\ made \in Nat
      BY <1>a DEF Typed, MailT
    <3>2. Readable(mail[p].seen) \subseteq Ents(made)
      BY <3>1, LinesAre DEF Readable
    <3>3. \A f \in Ents(made) : f.n # made + 1
      BY <3>1 DEF Ents
    <3> QED BY <1>2, <3>2, <3>3
  <2>2. Head(mail[p].todo) = mail[p].todo[1]
    BY <1>1
  <2>3. \A k \in Left(p) : k = 1 \/ k \in Left(p)'
    <3>1. \A k \in 1 .. Len(mail[p].todo) : k = 1 \/ k > 1
      BY <1>1
    <3> QED BY <1>1, <3>1 DEF Left
  <2>4. ASSUME NEW g \in Undelivered(mail[p].seen)
        PROVE  \/ \E k \in Left(p)' : mail'[p].todo[k] = g.n
               \/ \E f \in Waiting(p)' \cup landed' :
                    MarkOf(f, g.n) /\ f \notin Readable(mail[p].seen)
    <3>1. CASE \E k \in Left(p) : mail[p].todo[k] = g.n
      <4>1. PICK k \in Left(p) : mail[p].todo[k] = g.n
        BY <3>1
      <4>2. CASE k = 1
        BY <1>2, <2>1, <2>2, <4>1, <4>2
      <4>3. CASE k \in Left(p)'
        BY <1>1, <4>1, <4>3
      <4> QED BY <2>3, <4>2, <4>3
    <3>2. CASE \E f \in Waiting(p) \cup landed :
                 MarkOf(f, g.n) /\ f \notin Readable(mail[p].seen)
      BY <1>1, <1>2, <3>2
    <3> QED BY <1>a, <3>1, <3>2 DEF MailOk, Covered
  <2> QED BY <1>1, <2>4 DEF Covered, MarkOf
<1> QED BY <1>3, <1>5, <1>6 DEF MailOk

\* The steps that are not a mailbox's.
Quiet ==
  \/ \E p \in Stores :
       \/ OpenReads(p) \/ AppendLine(p) \/ Flush(p) \/ Close(p)
       \/ WriteFails(p) \/ Exit(p) \/ Crash(p) \/ Proceed(p)
  \/ ServeStarts \/ ServeFails \/ ServeWrites

LEMMA QuietCarries ==
  ASSUME IInv, MailInv, Quiet
  PROVE  \A q \in Stores : Carries(q) \/ Fresh(q)
<1>1. ASSUME NEW p \in Stores, OpenReads(p) \/ OpenLooks(p) \/ OpenCuts(p)
      PROVE  \A q \in Stores : Carries(q) \/ Fresh(q)
  BY <1>1, OpenCarries
<1>2. ASSUME NEW p \in Stores,
         \/ AppendLine(p) \/ Flush(p) \/ LookAtTail(p) \/ CutTail(p) \/ Write(p) \/ WriteFails(p)
      PROVE  \A q \in Stores : Carries(q) \/ Fresh(q)
  BY <1>2, OperationCarries
<1>3. ASSUME NEW p \in Stores, Close(p) \/ Exit(p) \/ Crash(p)
      PROVE  \A q \in Stores : Carries(q) \/ Fresh(q)
  BY <1>3, EndCarries
<1>4. ASSUME ServeStarts \/ ServeWrites \/ ServeFails
      PROVE  \A q \in Stores : Carries(q) \/ Fresh(q)
  BY <1>4, ServeCarries
<1> QED BY <1>1, <1>2, <1>3, <1>4 DEF Quiet, Proceed

LEMMA SetsGrow ==
  ASSUME IInv, Next
  PROVE  landed \subseteq landed' /\ loose \subseteq loose' /\ bare \subseteq bare'
         /\ (crowd => crowd')
<1>a. Typed /\ LockHeld
  BY DEF IInv
<1>1. landed \subseteq landed'
  BY DEF Next, Proceed, Deliver, OpenReads, OpenLooks, OpenCuts, AppendLine, Flush, Close,
     LookAtTail, CutTail, Write, WriteFails, Exit, Crash, MailLooks, MailMarks, MailTells,
     ServeStarts, ServeFails, ServeWrites
<1>2. loose \subseteq loose'
  BY DEF Next, Proceed, Deliver, OpenReads, OpenLooks, OpenCuts, AppendLine, Flush, Close,
     LookAtTail, CutTail, Write, WriteFails, Exit, Crash, MailLooks, MailMarks, MailTells,
     ServeStarts, ServeFails, ServeWrites, NumberEntry
<1>3. bare \subseteq bare'
  BY DEF Next, Proceed, Deliver, OpenReads, OpenLooks, OpenCuts, AppendLine, Flush, Close,
     LookAtTail, CutTail, Write, WriteFails, Exit, Crash, MailLooks, MailMarks, MailTells,
     ServeStarts, ServeFails, ServeWrites, Bare
<1>4. crowd => crowd'
  BY DEF Next, Proceed, Deliver, OpenReads, OpenLooks, OpenCuts, AppendLine, Flush, Close,
     LookAtTail, CutTail, Write, WriteFails, Exit, Crash, MailLooks, MailMarks, MailTells,
     ServeStarts, ServeFails, ServeWrites
<1> QED BY <1>1, <1>2, <1>3, <1>4

LEMMA MailStep ==
  ASSUME IInv, Named, MailInv, Next
  PROVE  MailInv'
<1>a. Typed /\ LockHeld /\ \A q \in Stores : MailOk(q)
  BY DEF IInv, MailInv, MailOk
<1>1. landed \subseteq landed' /\ loose \subseteq loose'
  BY SetsGrow
<1>2. CASE Quiet
  <2> SUFFICES ASSUME NEW q \in Stores PROVE MailOk(q)'
    BY DEF MailInv, MailOk
  <2>1. CASE Carries(q)
    BY <1>a, <1>1, <2>1, CarriesKeeps
  <2>2. CASE Fresh(q)
    BY <2>2, MailFresh DEF Fresh
  <2> QED BY <1>2, <2>1, <2>2, QuietCarries
<1>3. ASSUME NEW p \in Stores, MailMarks(p) PROVE MailInv'
  <2>1. MailOk(p)'
    BY <1>3, MarksKeeps
  <2>2. OthersSame(p) /\ \A q \in Stores \ {p} : mail'[q] = mail[q]
    BY <1>a, <1>3, MarksDoes
  <2>3. \A q \in Stores \ {p} : Carries(q)
    BY <2>2, OthersCarry
  <2>4. \A q \in Stores \ {p} : MailOk(q)'
    BY <1>a, <1>1, <2>3, CarriesKeeps
  <2> QED BY <2>1, <2>4 DEF MailInv, MailOk
<1>4. ASSUME NEW p \in Stores, MailLooks(p) \/ MailTells(p) PROVE MailInv'
  <2>1. MailOk(p)'
    BY <1>4, LooksKeeps, TellsKeeps
  <2>2. store' = store /\ \A q \in Stores \ {p} : mail'[q] = mail[q]
    BY <1>a, <1>4, MailDoes
  <2>3. OthersSame(p)
    BY <2>2 DEF OthersSame
  <2>4. \A q \in Stores \ {p} : Carries(q)
    BY <2>2, <2>3, OthersCarry
  <2>5. \A q \in Stores \ {p} : MailOk(q)'
    BY <1>a, <1>1, <2>4, CarriesKeeps
  <2> QED BY <2>1, <2>5 DEF MailInv, MailOk
<1> QED BY <1>2, <1>3, <1>4 DEF Next, Quiet, Deliver

----------------------------------------------------------------------------
(* Notices that were queued.                                               *)

LEMMA AloneKeeps ==
  ASSUME Alone, crowd' = crowd, NEW p \in Stores, store[p] # NoStore,
         \A q \in Stores \ {p} : store[q] = NoStore => store'[q] = NoStore
  PROVE  Alone'
  BY DEF Alone

LEMMA AloneStep ==
  ASSUME IInv, Alone, Next
  PROVE  Alone'
<1>a. Typed /\ LockHeld
  BY DEF IInv
<1>1. ASSUME NEW p \in Stores, OpenReads(p) PROVE Alone'
  <2>1. OthersSame(p) /\ crowd' = (crowd \/ \E q \in Stores \ {p} : store[q] # NoStore)
    BY <1>a, <1>1, OpenReadsDoes DEF OpenReads
  <2> QED BY <2>1 DEF Alone, OthersSame
<1>2. ASSUME NEW p \in Stores,
         \/ OpenLooks(p) \/ OpenCuts(p) \/ AppendLine(p) \/ Flush(p) \/ Close(p) \/ LookAtTail(p)
         \/ CutTail(p) \/ Write(p) \/ WriteFails(p) \/ Exit(p) \/ Crash(p)
      PROVE Alone'
  <2>1. crowd' = crowd
    BY <1>2 DEF OpenLooks, OpenCuts, AppendLine, Flush, Close, LookAtTail, CutTail,
       Write, WriteFails, Exit, Crash
  <2>2. store[p] # NoStore
    <3>1. store[p].pc # "idle" \/ store[p].up # "down" \/ store[p] # NoStore
      BY <1>2 DEF OpenLooks, OpenCuts, AppendLine, NumberEntry, Flush, Close, Idle, LookAtTail,
         CutTail, Write, WriteFails, Exit, Crash
    <3> QED BY <3>1 DEF NoStore
  <2>3. \A q \in Stores \ {p} : store[q] = NoStore => store'[q] = NoStore
    <3>1. CASE CutTail(p)
      BY <1>a, <3>1, CutTailDoes
    <3>2. CASE AppendLine(p)
      BY <1>a, <3>2, NumberingIs, NumberingDoes DEF OthersSame
    <3>3. CASE OpenLooks(p) \/ OpenCuts(p) \/ Flush(p) \/ Close(p) \/ LookAtTail(p)
      BY <1>a, <3>3, OpenLooksDoes, OpenCutsDoes, FlushDoes, CloseDoes, LookAtTailDoes
         DEF OthersSame
    <3>4. CASE Write(p) \/ WriteFails(p) \/ Exit(p) \/ Crash(p)
      BY <1>a, <3>4, WriteDoes, WriteFailsDoes, GoneDoes DEF OthersSame
    <3> QED BY <1>2, <3>1, <3>2, <3>3, <3>4
  <2> QED BY <2>1, <2>2, <2>3, AloneKeeps
<1>3. ASSUME NEW p \in Stores, MailMarks(p) PROVE Alone'
  <2>1. store[p].up # "down" /\ OthersSame(p) /\ crowd' = crowd
    BY <1>a, <1>3, MarksDoes
  <2> QED BY <2>1, AloneKeeps DEF OthersSame, NoStore
<1>4. CASE store' = store /\ crowd' = crowd
  BY <1>4 DEF Alone
<1>5. ASSUME NEW p \in Stores, MailLooks(p) \/ MailTells(p) PROVE Alone'
  BY <1>4, <1>5 DEF MailLooks, MailTells
<1>6. CASE ServeStarts \/ ServeFails \/ ServeWrites
  BY <1>4, <1>6 DEF ServeStarts, ServeFails, ServeWrites
<1> QED BY <1>1, <1>2, <1>3, <1>5, <1>6 DEF Next, Proceed, Deliver

\* A mailbox with something to mark, or that marks, is of a running store.
LEMMA BusyRuns ==
  ASSUME MailInv, NEW p \in Stores, mail[p].todo # <<>> \/ mail[p].pc = "marking"
  PROVE  store[p] # NoStore
<1>1. mail[p] # NoMail
  BY DEF NoMail
<1>2. store[p].up # "down"
  BY <1>1 DEF MailInv, MailRuns
<1> QED BY <1>2 DEF NoStore

LEMMA LeftBusy ==
  ASSUME NEW p \in Stores, NEW k \in Left(p) PROVE mail[p].todo # <<>>
<1>1. k \in 1 .. Len(mail[p].todo)
  BY DEF Left
<1>2. Len(<<>>) = 0 /\ 1 .. 0 = {}
  OBVIOUS
<1> QED BY <1>1, <1>2

\* A mark that lands was loose, or is the one its mailbox waits for.
LEMMA MarksLand ==
  ASSUME IInv, Named, MailInv, Quiet, NEW f \in landed', f \notin landed, f.kind = "mark"
  PROVE  \/ f \in loose
         \/ \E p \in Stores : /\ store[p] # NoStore /\ mail[p].pc = "marking"
                              /\ MarkOf(f, Head(mail[p].todo))
<1>a. Typed /\ LockHeld
  BY DEF IInv
<1>1. ASSUME NEW p \in Stores, Write(p)
      PROVE  \/ f \in loose
             \/ \E q \in Stores : /\ store[q] # NoStore /\ mail[q].pc = "marking"
                                  /\ MarkOf(f, Head(mail[q].todo))
  <2>1. /\ store[p].pc = "write"
        /\ store[p].pending \in Seq(Ents(made)) /\ store[p].pending # <<>>
        /\ landed' = landed \cup {Head(store[p].pending)}
    BY <1>a, <1>1, WriteDoes
  <2>2. Head(store[p].pending) \in Waiting(p)
    <3>1. Head(store[p].pending) = store[p].pending[1] /\ 1 \in 1 .. Len(store[p].pending)
      BY <2>1, TailIs
    <3> QED BY <3>1 DEF Waiting
  <2>3. f \in Waiting(p)
    BY <2>1, <2>2
  <2>4. f \in loose \/ (store[p].op = "mark" /\ MarkOf(f, Head(mail[p].todo)))
    BY <2>3 DEF MailInv, MarksWait, Firm
  <2>5. store[p].op = "mark" => mail[p].pc = "marking"
    BY DEF MailInv, MailRuns
  <2>6. store[p] # NoStore
    BY <2>1 DEF NoStore
  <2> QED BY <2>4, <2>5, <2>6
<1>2. CASE ServeWrites
  <2>1. serve # Torn /\ serve.by = Serve /\ landed' = landed \cup {serve}
    BY <1>2, <1>a, ServeEndsDoes DEF ServeWrites
  <2>2. serve.kind # "mark"
    BY <2>1 DEF Named, Known
  <2> QED BY <2>1, <2>2
<1>3. ASSUME landed' = landed PROVE FALSE
  BY <1>3
<1>4. ASSUME NEW p \in Stores,
        \/ OpenReads(p) \/ AppendLine(p) \/ Flush(p) \/ Close(p) \/ WriteFails(p)
        \/ Exit(p) \/ Crash(p) \/ OpenLooks(p) \/ OpenCuts(p) \/ LookAtTail(p) \/ CutTail(p)
      PROVE FALSE
  BY <1>3, <1>4 DEF OpenReads, OpenLooks, OpenCuts, AppendLine, Flush, Close,
     LookAtTail, CutTail, WriteFails, Exit, Crash
<1>5. CASE ServeStarts \/ ServeFails
  BY <1>3, <1>5 DEF ServeStarts, ServeFails
<1> QED BY <1>1, <1>2, <1>4, <1>5 DEF Quiet, Proceed

LEMMA ToldQuiet ==
  ASSUME Quiet PROVE told' = told
  BY DEF Quiet, Proceed, OpenReads, OpenLooks, OpenCuts, AppendLine, Flush, Close,
     LookAtTail, CutTail, Write, WriteFails, Exit, Crash, ServeStarts, ServeFails, ServeWrites

LEMMA QueuedQuiet ==
  ASSUME IInv, Named, MailInv, Alone, Queued, Quiet
  PROVE  Queued'
<1> SUFFICES ASSUME ~crowd', bare' = {}
             PROVE  /\ \A i \in 1 .. Len(told) :
                         \E f \in loose' \cup landed' : MarkOf(f, told[i])
                    /\ \A i, j \in 1 .. Len(told) :
                         i < j /\ told[i] = told[j] => \E f \in loose' : MarkOf(f, told[i])
                    /\ \A p \in Stores :
                         /\ \A k \in Left(p)' : \A f \in landed' :
                              MarkOf(f, mail'[p].todo[k]) => f \in loose'
                         /\ mail'[p].pc = "marking" =>
                              \A i \in 1 .. Len(told) : told[i] = Head(mail'[p].todo) =>
                                \E f \in loose' : MarkOf(f, told[i])
  BY ToldQuiet DEF Queued, MarkOf
<1>a. Next
  BY DEF Quiet, Next
<1>b. /\ landed \subseteq landed' /\ loose \subseteq loose' /\ ~crowd /\ bare = {}
  BY <1>a, SetsGrow
<1>1. \A i \in 1 .. Len(told) : \E f \in loose' \cup landed' : MarkOf(f, told[i])
  BY <1>b DEF Queued
<1>2. \A i, j \in 1 .. Len(told) :
        i < j /\ told[i] = told[j] => \E f \in loose' : MarkOf(f, told[i])
  BY <1>b DEF Queued
<1>3. ASSUME NEW p \in Stores, NEW k \in Left(p)', NEW f \in landed',
             MarkOf(f, mail'[p].todo[k])
      PROVE  f \in loose'
  <2>1. ~Fresh(p)
    <3>1. mail'[p].todo # <<>>
      <4>1. k \in 1 .. Len(mail'[p].todo)
        BY DEF Left
      <4>2. Len(<<>>) = 0 /\ 1 .. 0 = {}
        OBVIOUS
      <4> QED BY <4>1, <4>2
    <3> QED BY <3>1 DEF Fresh
  <2>2. mail'[p] = mail[p]
    BY <2>1, QuietCarries DEF Carries
  <2>3. k \in Left(p) /\ MarkOf(f, mail[p].todo[k])
    BY <1>3, <2>2 DEF Left
  <2>4. CASE f \in landed
    BY <1>b, <2>3, <2>4 DEF Queued
  <2>5. CASE f \notin landed
    <3>1. f.kind = "mark"
      BY <1>3 DEF MarkOf
    <3>2. CASE f \in loose
      BY <1>b, <3>2
    <3>3. ASSUME NEW q \in Stores, store[q] # NoStore, mail[q].pc = "marking",
                 MarkOf(f, Head(mail[q].todo))
          PROVE FALSE
      <4>1. store[p] # NoStore
        BY <2>3, LeftBusy, BusyRuns
      <4>2. q = p
        BY <1>b, <3>3, <4>1 DEF Alone
      <4>3. k \in 1 .. Len(mail[p].todo) /\ k > 1
        BY <2>3, <3>3, <4>2 DEF Left
      <4>4. mail[p].todo \in Seq(1 .. made)
        BY DEF IInv, Typed, MailT
      <4>5. Head(mail[p].todo) = mail[p].todo[1] /\ 1 \in 1 .. Len(mail[p].todo)
        BY <4>3, <4>4
      <4>6. mail[p].todo[k] # mail[p].todo[1]
        BY <4>3, <4>5 DEF MailInv, MailRuns
      <4> QED BY <2>3, <3>3, <4>2, <4>5, <4>6 DEF MarkOf
    <3> QED BY <2>5, <3>1, <3>2, <3>3, MarksLand
  <2> QED BY <2>4, <2>5
<1>4. ASSUME NEW p \in Stores, mail'[p].pc = "marking",
             NEW i \in 1 .. Len(told), told[i] = Head(mail'[p].todo)
      PROVE  \E f \in loose' : MarkOf(f, told[i])
  <2>1. mail'[p] = mail[p]
    BY <1>4, QuietCarries DEF Carries, Fresh
  <2> QED BY <1>4, <1>b, <2>1 DEF Queued
<1> QED BY <1>1, <1>2, <1>3, <1>4

LEMMA QueuedLooks ==
  ASSUME IInv, Named, MailInv, Queued, NEW p \in Stores, MailLooks(p)
  PROVE  Queued'
<1>a. Typed
  BY DEF IInv
<1>1. /\ UNCHANGED <<store, landed, loose, bare>> /\ told' = told /\ crowd' = crowd
      /\ \A q \in Stores \ {p} : mail'[q] = mail[q]
  BY <1>a, MailDoes DEF MailLooks
<1>2. /\ mail'[p].pc \in {"idle", "mark"}
      /\ \A k \in 1 .. Len(mail'[p].todo) :
           \E e \in Undelivered(file) : mail'[p].todo[k] = e.n
  BY <1>a, LooksFinds
<1>3. ASSUME bare = {}, NEW k \in 1 .. Len(mail'[p].todo), NEW f \in landed,
             MarkOf(f, mail'[p].todo[k])
      PROVE  FALSE
  <2>1. PICK e \in Undelivered(file) : mail'[p].todo[k] = e.n
    BY <1>2
  <2>2. f \notin Readable(file)
    BY <1>3, <2>1 DEF Undelivered, Marked, MarkOf
  <2>3. f.by = Serve
    BY <1>3, <2>2, StandsIsDurable DEF Durable
  <2> QED BY <1>3, <2>3 DEF Named, Known, MarkOf
<1>4. ASSUME NEW q \in Stores, bare = {}, ~crowd
      PROVE  \A k \in Left(q)' : \A f \in landed : MarkOf(f, mail'[q].todo[k]) => f \in loose
  <2>1. CASE q = p
    BY <1>3, <1>4, <2>1 DEF Left
  <2>2. CASE q # p
    <3>1. mail'[q] = mail[q] /\ Left(q)' = Left(q)
      BY <1>1, <2>2 DEF Left
    <3> QED BY <1>4, <3>1 DEF Queued
  <2> QED BY <2>1, <2>2
<1>5. ASSUME NEW q \in Stores, bare = {}, ~crowd, mail'[q].pc = "marking",
             NEW i \in 1 .. Len(told), told[i] = Head(mail'[q].todo)
      PROVE  \E f \in loose : MarkOf(f, told[i])
  <2>1. mail'[q] = mail[q]
    BY <1>1, <1>2, <1>5
  <2> QED BY <1>5, <2>1 DEF Queued
<1>6. ASSUME bare = {}, ~crowd
      PROVE  /\ \A i \in 1 .. Len(told) : \E f \in loose \cup landed : MarkOf(f, told[i])
             /\ \A i, j \in 1 .. Len(told) :
                  i < j /\ told[i] = told[j] => \E f \in loose : MarkOf(f, told[i])
  BY <1>6 DEF Queued
<1> QED BY <1>1, <1>4, <1>5, <1>6 DEF Queued, MarkOf

LEMMA QueuedMarks ==
  ASSUME IInv, MailInv, Queued, NEW p \in Stores, MailMarks(p)
  PROVE  Queued'
<1>a. Typed /\ LockHeld
  BY DEF IInv
<1>1. /\ mail[p].pc = "mark" /\ mail'[p].pc = "marking" /\ mail'[p].todo = mail[p].todo
      /\ mail[p].todo \in Seq(1 .. made) /\ mail[p].todo # <<>>
      /\ \A q \in Stores \ {p} : mail'[q] = mail[q]
      /\ landed' = landed /\ told' = told /\ bare' = bare /\ crowd' = crowd
      /\ loose \subseteq loose'
  BY <1>a, MarksDoes
<1>2. ASSUME bare = {}, ~crowd
      PROVE  /\ \A i \in 1 .. Len(told) : \E f \in loose' \cup landed : MarkOf(f, told[i])
             /\ \A i, j \in 1 .. Len(told) :
                  i < j /\ told[i] = told[j] => \E f \in loose' : MarkOf(f, told[i])
  BY <1>1, <1>2 DEF Queued
<1>3. ASSUME NEW q \in Stores, bare = {}, ~crowd
      PROVE  \A k \in Left(q)' : \A f \in landed : MarkOf(f, mail'[q].todo[k]) => f \in loose'
  <2>1. mail'[q].todo = mail[q].todo /\ Left(q)' \subseteq Left(q)
    BY <1>1 DEF Left
  <2> QED BY <1>1, <1>3, <2>1 DEF Queued
<1>4. ASSUME NEW q \in Stores, bare = {}, ~crowd, mail'[q].pc = "marking",
             NEW i \in 1 .. Len(told), told[i] = Head(mail'[q].todo)
      PROVE  \E f \in loose' : MarkOf(f, told[i])
  <2>1. CASE q # p
    <3>1. mail'[q] = mail[q]
      BY <1>1, <2>1
    <3> QED BY <1>1, <1>4, <3>1 DEF Queued
  <2>2. CASE q = p
    <3>1. 1 \in Left(p) /\ told[i] = mail[p].todo[1]
      BY <1>1, <1>4, <2>2 DEF Left
    <3>2. PICK f \in loose \cup landed : MarkOf(f, told[i])
      BY <1>4 DEF Queued
    <3>3. f \in loose
      BY <1>4, <3>1, <3>2 DEF Queued
    <3> QED BY <1>1, <3>2, <3>3
  <2> QED BY <2>1, <2>2
<1> QED BY <1>1, <1>2, <1>3, <1>4 DEF Queued, MarkOf

LEMMA QueuedTells ==
  ASSUME IInv, MailInv, Alone, Queued, told \in Seq(Nat), NEW p \in Stores, MailTells(p)
  PROVE  Queued' /\ told' \in Seq(Nat)
<1>a. Typed /\ LockHeld
  BY DEF IInv
<1> DEFINE h == Head(mail[p].todo)
<1>1. /\ mail[p].pc = "marking" /\ store[p].op # "mark"
      /\ landed' = landed /\ loose' = loose /\ bare' = bare /\ crowd' = crowd
      /\ told' = Append(told, h) /\ mail'[p].pc \in {"idle", "mark"}
      /\ mail[p].todo \in Seq(1 .. made) /\ mail[p].todo # <<>>
      /\ \A q \in Stores \ {p} : mail'[q] = mail[q]
  BY <1>a, TellsDoes
<1>2. h \in Nat
  <2>1. h \in 1 .. made /\ made \in Nat
    BY <1>a, <1>1, HeadTail DEF Typed
  <2> QED BY <2>1
<1>3. PICK f \in loose \cup landed : MarkOf(f, h)
  BY <1>1 DEF MailInv, MarksWait
<1> HIDE DEF h
<1>4. /\ told' \in Seq(Nat) /\ Len(told') = Len(told) + 1 /\ told'[Len(told) + 1] = h
      /\ \A i \in 1 .. Len(told) : told'[i] = told[i]
  BY <1>1, <1>2, Appended
<1>5. PICK n \in Nat : n = Len(told)
  BY <1>4
<1>6. \A i \in 1 .. Len(told') : i \in 1 .. n \/ i = n + 1
  BY <1>4, <1>5
<1>7. ASSUME bare = {}, ~crowd, NEW i \in 1 .. Len(told')
      PROVE  \E g \in loose \cup landed : MarkOf(g, told'[i])
  <2>1. CASE i \in 1 .. n
    BY <1>4, <1>5, <1>7, <2>1 DEF Queued
  <2>2. CASE i = n + 1
    BY <1>3, <1>4, <1>5, <2>2
  <2> QED BY <1>6, <2>1, <2>2
<1>8. ASSUME bare = {}, ~crowd, NEW i \in 1 .. Len(told'), NEW j \in 1 .. Len(told'),
             i < j, told'[i] = told'[j]
      PROVE  \E g \in loose : MarkOf(g, told'[i])
  <2>1. i \in 1 .. n /\ told'[i] = told[i]
    BY <1>4, <1>5, <1>8
  <2>2. CASE j \in 1 .. n
    BY <1>4, <1>5, <1>8, <2>1, <2>2 DEF Queued
  <2>3. CASE j = n + 1
    <3>1. told[i] = h
      BY <1>4, <1>5, <1>8, <2>1, <2>3
    <3>2. mail[p].pc = "marking" =>
              \A k \in 1 .. Len(told) : told[k] = Head(mail[p].todo) =>
                \E g \in loose : MarkOf(g, told[k])
      BY <1>8 DEF Queued
    <3> QED BY <1>1, <1>5, <2>1, <3>1, <3>2 DEF h
  <2> QED BY <1>6, <2>2, <2>3
<1>9. ASSUME NEW q \in Stores, bare = {}, ~crowd
      PROVE  \A k \in Left(q)' : \A g \in landed : MarkOf(g, mail'[q].todo[k]) => g \in loose
  <2>1. CASE q # p
    <3>1. mail'[q] = mail[q] /\ Left(q)' = Left(q)
      BY <1>1, <2>1 DEF Left
    <3> QED BY <1>9, <3>1 DEF Queued
  <2>2. CASE q = p
    <3>1. \A k \in Left(p)' : k + 1 \in Left(p) /\ mail'[p].todo[k] = mail[p].todo[k + 1]
      BY TellsKeeps
    <3> QED BY <1>9, <2>2, <3>1 DEF Queued
  <2> QED BY <2>1, <2>2
<1>10. ASSUME NEW q \in Stores, ~crowd PROVE mail'[q].pc # "marking"
  <2>1. CASE q = p
    BY <1>1, <2>1
  <2>2. ASSUME q # p, mail[q].pc = "marking" PROVE FALSE
    <3>1. store[q] # NoStore /\ store[p] # NoStore
      BY <1>1, <2>2, BusyRuns
    <3> QED BY <1>10, <2>2, <3>1 DEF Alone
  <2> QED BY <1>1, <2>1, <2>2
<1>11. Queued'
  BY <1>1, <1>7, <1>8, <1>9, <1>10 DEF Queued, MarkOf
<1> QED BY <1>4, <1>11

LEMMA NInvStep ==
  ASSUME NInv, [Next]_vars
  PROVE  NInv'
<1>a. IInv /\ Named /\ MailInv /\ told \in Seq(Nat) /\ Alone /\ Queued
  BY DEF NInv
<1>1. IInv'
  BY <1>a, IInvStep
<1>2. CASE Next
  <2>1. Named' /\ MailInv' /\ Alone'
    BY <1>2, <1>a, NamedStep, MailStep, AloneStep
  <2>2. Queued' /\ told' \in Seq(Nat)
    <3>1. CASE Quiet
      BY <1>a, <3>1, QueuedQuiet, ToldQuiet
    <3>2. ASSUME NEW p \in Stores, MailLooks(p) PROVE Queued' /\ told' \in Seq(Nat)
      <4>1. told' = told
        BY <3>2 DEF MailLooks
      <4> QED BY <1>a, <3>2, <4>1, QueuedLooks
    <3>3. ASSUME NEW p \in Stores, MailMarks(p) PROVE Queued' /\ told' \in Seq(Nat)
      <4>1. told' = told
        BY <3>3 DEF MailMarks
      <4> QED BY <1>a, <3>3, <4>1, QueuedMarks
    <3>4. ASSUME NEW p \in Stores, MailTells(p) PROVE Queued' /\ told' \in Seq(Nat)
      BY <1>a, <3>4, QueuedTells
    <3> QED BY <1>2, <3>1, <3>2, <3>3, <3>4 DEF Next, Quiet, Deliver
  <2> QED BY <1>1, <2>1, <2>2 DEF NInv
<1>3. CASE UNCHANGED vars
  <2>1. /\ UNCHANGED <<file, store, mail, serve, told, landed, loose, bare, crowd>>
    BY <1>3 DEF vars
  <2>2. Named'
    <3>1. \A p \in Stores : Waiting(p)' = Waiting(p)
      BY <2>1, WaitingSame
    <3>2. Known' = Known
      BY <2>1, <3>1 DEF Known
    <3> QED BY <1>a, <2>1, <3>2 DEF Named, FileLanded
  <2>3. MailInv'
    <3>1. ASSUME NEW q \in Stores PROVE MailOk(q)'
      <4>1. MailOk(q) /\ store'[q] = store[q] /\ mail'[q] = mail[q]
        BY <1>a, <2>1 DEF MailInv, MailOk
      <4>2. store[q].op = "mark" => store'[q].pc \in Writing
        BY <4>1 DEF MailOk, MailRuns
      <4>3. Carries(q)
        BY <4>1, <4>2, CarriesSame
      <4> QED BY <2>1, <4>1, <4>3, CarriesKeeps
    <3> QED BY <3>1 DEF MailInv, MailOk
  <2>4. Alone'
    BY <1>a, <2>1 DEF Alone
  <2>5. Queued'
    BY <1>a, <2>1 DEF Queued, Left, MarkOf
  <2> QED BY <1>1, <1>a, <2>1, <2>2, <2>3, <2>4, <2>5 DEF NInv
<1> QED BY <1>2, <1>3

LEMMA NInvStarts ==
  ASSUME Init
  PROVE  NInv
<1>1. IInv
  BY Starts
<1> DEFINE e == Entry(1, 1, Serve, "line", 0)
<1>2. /\ file = <<e>> /\ landed = {e} /\ serve = Torn /\ told = <<>> /\ bare = {}
      /\ store = [p \in Stores |-> NoStore] /\ mail = [p \in Stores |-> NoMail]
  BY DEF Init, NoServe
<1>3. e.kind # "mark"
  BY DEF Entry
<1> HIDE DEF e
<1>4. \A p \in Stores : store[p] = NoStore /\ mail[p] = NoMail
  BY <1>2
<1>5. \A p \in Stores : Waiting(p) = {}
  <2>1. 1 .. Len(<<>>) = {}
    OBVIOUS
  <2> QED BY <1>4, <2>1 DEF Waiting, NoStore
<1>6. Known = {e}
  BY <1>2, <1>5 DEF Known
<1>7. Named
  <2>1. \A i \in 1 .. Len(file) : file[i] = e
    BY <1>2
  <2> QED BY <1>2, <1>3, <1>6, <2>1 DEF Named, FileLanded
<1>8. MailInv
  <2> SUFFICES ASSUME NEW p \in Stores PROVE MailRuns(p) /\ MarksWait(p) /\ Covered(p)
    BY DEF MailInv
  <2>1. MailRuns(p)
    BY <1>4 DEF MailRuns, NoStore, NoMail
  <2>2. MarksWait(p)
    BY <1>4, <1>5 DEF MarksWait, NoMail
  <2>3. Undelivered(mail[p].seen) = {}
    BY <1>4 DEF Undelivered, Readable, ReadAfter, Lines, NoMail
  <2> QED BY <2>1, <2>2, <2>3 DEF Covered
<1>9. Alone
  BY <1>4 DEF Alone
<1>10. Queued
  <2>1. 1 .. Len(told) = {}
    BY <1>2
  <2>2. \A p \in Stores : Left(p) = {}
    BY <1>4 DEF Left, NoMail
  <2> QED BY <2>1, <2>2 DEF Queued
<1>11. told \in Seq(Nat)
  BY <1>2
<1> QED BY <1>1, <1>7, <1>8, <1>9, <1>10, <1>11 DEF NInv

LEMMA QueuedIsOnce ==
  ASSUME NInv PROVE NoticesOnce
<1>a. IInv /\ Named /\ MailInv /\ told \in Seq(Nat) /\ Queued
  BY DEF NInv
<1>1. NoticeOnce
  <2> SUFFICES ASSUME ~crowd, bare = {}, NEW i \in 1 .. Len(told), Times(told[i]) > 1
               PROVE  \E e \in loose : e.kind = "mark" /\ e.of = told[i]
    BY DEF NoticeOnce
  <2> DEFINE S == {k \in 1 .. Len(told) : told[k] = told[i]}
  <2>1. S # {i}
    <3>1. Cardinality({i}) = 1
      BY FS_Singleton
    <3>2. Times(told[i]) = Cardinality(S)
      BY Zenon DEF Times
    <3> HIDE DEF S
    <3> QED BY <3>1, <3>2
  <2>2. PICK j \in 1 .. Len(told) : told[j] = told[i] /\ j # i
    BY <2>1
  <2>3. i < j \/ j < i
    BY <2>2
  <2>4. \A k, l \in 1 .. Len(told) :
          k < l /\ told[k] = told[l] => \E f \in loose : MarkOf(f, told[k])
    BY <1>a DEF Queued
  <2>5. \E f \in loose : MarkOf(f, told[i])
    BY <2>2, <2>3, <2>4
  <2> QED BY <2>5 DEF MarkOf
<1>2. MailUpToDate
  <2> SUFFICES ASSUME bare = {}, NEW p \in Stores,
                      mail[p].pc = "idle", store[p].up = "open", mail[p].seen = file,
                      NEW e \in Undelivered(file)
               PROVE  \E f \in Waiting(p) : f.kind = "mark" /\ f.of = e.n
    BY DEF MailUpToDate
  <2>1. mail[p].todo = <<>>
    BY <1>a DEF MailInv, MailRuns
  <2>2. Left(p) = {}
    BY <2>1, LeftBusy
  <2>3. PICK f \in Waiting(p) \cup landed : MarkOf(f, e.n) /\ f \notin Readable(file)
    BY <1>a, <2>2 DEF MailInv, Covered
  <2>4. f \notin landed
    <3>1. ASSUME f \in landed PROVE FALSE
      <4>1. f.by = Serve
        BY <1>a, <2>3, <3>1, StandsIsDurable DEF Durable
      <4> QED BY <1>a, <2>3, <3>1, <4>1 DEF Named, Known, MarkOf
    <3> QED BY <3>1
  <2> QED BY <2>3, <2>4 DEF MarkOf
<1> QED BY <1>1, <1>2 DEF NoticesOnce

(* While every writer holds the lock: a mailbox that sees nothing new has  *)
(* left no notice behind, and with one process at a time a notice is       *)
(* queued twice only when a mark of it had to wait for the disk.           *)
THEOREM NoticesTold == Spec => []NoticesOnce
<1>1. Init => NInv
  BY NInvStarts
<1>2. NInv /\ [Next]_vars => NInv'
  BY NInvStep
<1>3. NInv => NoticesOnce
  BY QueuedIsOnce
<1> QED BY <1>1, <1>2, <1>3, PTL DEF Spec

==============================================================================
