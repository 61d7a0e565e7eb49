------------------------------ MODULE History ------------------------------
(***************************************************************************)
(* One session file and the processes that write it: the stores of         *)
(* plugins/history/history.go (a terminal, a serve child, a title job),    *)
(* serve's AppendFile, and the mailbox of plugins/engine/notices.go that   *)
(* tells a running session the notices serve left in its file.             *)
(*                                                                         *)
(* The file is a sequence of chunks: an entry with its newline, or Torn, a *)
(* fragment without one.  A reader splits at newlines, so the chunk after  *)
(* a fragment is glued to it and unreadable.  Offsets count chunks.        *)
(*                                                                         *)
(* A store's operation takes its steps one by one: the flock (which gives  *)
(* up), the catch-up with the numbering, the look at the tail, the cut of  *)
(* the tail, the writes.  s.mu keeps the operations of one store apart.    *)
(***************************************************************************)
EXTENDS Integers, Sequences, FiniteSets

CONSTANTS Stores,       \* processes that may have the file open
          Serve,        \* the process that calls AppendFile
          Nobody,       \* no holder
          MaxLines,     \* bound: entries the sessions append, marks aside
          MaxNotices,   \* bound: entries serve appends
          MaxFaults,    \* bound: writes that fail, faults for the lock that
                        \* give up and processes that die, together
          MaxOpens      \* bound: opens of the file

ASSUME Actors == Serve \notin Stores /\ Nobody \notin Stores \cup {Serve}
ASSUME Bounds == {MaxLines, MaxNotices, MaxFaults, MaxOpens} \subseteq Nat

VARIABLES
  file,     \* the chunks on disk
  lock,     \* who holds the flock on the file
  store,    \* each process's Store
  mail,     \* each process's reader of stored notices
  serve,    \* the AppendFile in progress
  made,     \* entries numbered so far
  told,     \* the notices queued for a model, in order
  landed,   \* entries whose write returned without an error
  loose,    \* entries numbered blindly, or left pending by a failed write
  bare,     \* what was done to the file without holding its lock
  crowd,    \* two processes had the file open at once
  faults,   \* faults that may still happen
  budget    \* what is left of the other bounds

vars == <<file, lock, store, mail, serve, made, told, landed, loose, bare,
          crowd, faults, budget>>

Torn == [kind |-> "torn"]
IsEntry(c) == c.kind # "torn"

(* "n" tells an entry from every other, "seq" is the number the code gives *)
(* it, "of" the notice a mark is about.                                    *)
Entry(n, seq, by, kind, of) ==
  [n |-> n, seq |-> seq, by |-> by, kind |-> kind, of |-> of]

----------------------------------------------------------------------------
(* Reading the file.                                                       *)

(* The positions after offset o that a reader starting there parses.       *)
Lines(f, o) ==
  {i \in o + 1 .. Len(f) : IsEntry(f[i]) /\ (i = o + 1 \/ IsEntry(f[i - 1]))}

ReadAfter(f, o) == {f[i] : i \in Lines(f, o)}
Readable(f) == ReadAfter(f, 0)

Largest(S) == CHOOSE x \in S : \A y \in S : x >= y
TopSeq(S, least) == Largest({least} \cup {e.seq : e \in S})

(* The offset just after the last newline.                                 *)
TailEnd(f) == Largest({0} \cup {i \in 1 .. Len(f) : IsEntry(f[i])})

(* ftruncate; a longer size fills with bytes that hold no newline.         *)
Truncate(f, end) ==
  [i \in 1 .. end |-> IF i <= Len(f) THEN f[i] ELSE Torn]

----------------------------------------------------------------------------
NoStore == [up |-> "down", pc |-> "idle", seq |-> 0, off |-> 0, end |-> 0,
            pending |-> <<>>, op |-> "none", blind |-> FALSE, read |-> {}]
NoMail == [pc |-> "off", seen |-> <<>>, todo |-> <<>>]
NoServe == Torn

Init ==
  /\ file = <<Entry(1, 1, Serve, "line", 0)>>
  /\ lock = Nobody
  /\ store = [p \in Stores |-> NoStore]
  /\ mail = [p \in Stores |-> NoMail]
  /\ serve = NoServe
  /\ made = 1
  /\ told = <<>>
  /\ landed = {file[1]}
  /\ loose = {}
  /\ bare = {}
  /\ crowd = FALSE
  /\ budget = [lines |-> MaxLines, notices |-> MaxNotices,
               opens |-> MaxOpens]
  /\ faults = MaxFaults

Spend(what) == budget[what] > 0 /\ budget' = [budget EXCEPT ![what] = @ - 1]
Holds(p) == lock = p
Bare(p, what) == bare' = IF Holds(p) THEN bare ELSE bare \cup {what}
Fault == faults > 0 /\ faults' = faults - 1
UnlockNot(p) == UNCHANGED lock   \* slip: the lock is kept
Unlock(p) == lock' = IF Holds(p) THEN Nobody ELSE lock

(* lockFile: the lock when it is free, nothing after lockWait.             *)
Lock(p) ==
  \/ lock = Nobody /\ lock' = p /\ UNCHANGED faults
  \/ lock # Nobody /\ Fault /\ UNCHANGED lock

----------------------------------------------------------------------------
(* OpenExisting: read, look at the tail, cut it.  No lock is taken.        *)

OpenReads(p) ==
  /\ store[p].up = "down" /\ store[p].pc = "idle"
  /\ Spend("opens")
  /\ store' = [store EXCEPT ![p] = [@ EXCEPT
       !.pc = "opening", !.read = Readable(file), !.seq = TopSeq(Readable(file), 0)]]
  /\ crowd' = (crowd \/ \E q \in Stores \ {p} : store[q] # NoStore)
  /\ UNCHANGED <<file, lock, mail, serve, made, told, landed, loose, bare,
                 faults>>

(* The mailbox looks into the file as soon as the rows are mounted.        *)
Opened(p, end) ==
  /\ store' = [store EXCEPT ![p] = [@ EXCEPT
       !.up = "open", !.pc = "idle", !.off = end, !.read = {},
       !.blind = Readable(Truncate(file, end)) # store[p].read]]
  /\ mail' = [mail EXCEPT ![p].pc = "idle"]

OpenLooks(p) ==
  /\ store[p].pc = "opening"
  /\ LET end == TailEnd(file) IN
       IF end = Len(file)
       THEN Opened(p, end)
       ELSE /\ store' = [store EXCEPT ![p] = [@ EXCEPT !.pc = "opencut", !.end = end]]
            /\ UNCHANGED mail
  /\ UNCHANGED <<file, lock, serve, made, told, landed, loose, bare,
                 budget, crowd, faults>>

OpenCuts(p) ==
  /\ store[p].pc = "opencut"
  /\ file' = Truncate(file, store[p].end)
  /\ bare' = bare \cup {"cut"}
  /\ Opened(p, store[p].end)
  /\ UNCHANGED <<lock, serve, made, told, landed, loose, budget, crowd,
                 faults>>

----------------------------------------------------------------------------
(* Append, Flush and Close.                                                *)

Idle(p) == store[p].pc = "idle" /\ store[p].up # "down"

(* Slip: the offset moves and the numbers found on the way are ignored.    *)
CaughtUpOffset(p) ==
  [store[p] EXCEPT !.off = IF Len(file) > @ THEN Len(file) ELSE @,
                   !.pc = IF store[p].up = "closed" THEN "write" ELSE "tail"]

(* catchUp: raise seq past what others wrote beyond the offset.            *)
CaughtUp(p) ==
  [store[p] EXCEPT !.seq = TopSeq(ReadAfter(file, store[p].off), @),
                   !.off = IF Len(file) > @ THEN Len(file) ELSE @,
                   !.pc = IF store[p].up = "closed" THEN "write" ELSE "tail"]

(* Append: lock (which fails on a closed file), catch up, number the       *)
(* entry, put it behind the pending ones.                                  *)
NumberEntry(p, op, of) ==
  /\ Idle(p)
  /\ IF store[p].up = "closed" THEN UNCHANGED <<lock, faults>> ELSE Lock(p)
  /\ LET s == CaughtUp(p)
         e == Entry(made + 1, s.seq + 1, p, op, of)
     IN /\ store' = [store EXCEPT ![p] =
             [s EXCEPT !.seq = e.seq, !.op = op, !.pending = Append(@, e)]]
        /\ loose' = IF lock' = p /\ ~s.blind THEN loose ELSE loose \cup {e}
  /\ made' = made + 1

AppendLine(p) ==
  /\ Spend("lines")
  /\ NumberEntry(p, "line", 0)
  /\ UNCHANGED <<file, mail, serve, told, landed, bare, crowd>>

(* The retry tick of a store with pending lines.                           *)
Flush(p) ==
  /\ Idle(p) /\ store[p].up = "open" /\ store[p].pending # <<>>
  /\ Lock(p)
  /\ store' = [store EXCEPT ![p] = [CaughtUp(p) EXCEPT !.op = "flush"]]
  /\ UNCHANGED <<file, mail, serve, made, told, landed, loose, bare, crowd,
                 budget>>

(* Close tries the pending lines once more, without the lock.  The mailbox *)
(* has been told to stop; a delivery under way goes on.                    *)
Close(p) ==
  /\ Idle(p) /\ store[p].up = "open"
  /\ store' = IF store[p].pending = <<>>
              THEN [store EXCEPT ![p].up = "closed"]
              ELSE [store EXCEPT ![p] = [@ EXCEPT !.pc = "tail", !.op = "close"]]
  /\ mail' = IF mail[p].pc = "idle" THEN [mail EXCEPT ![p] = NoMail] ELSE mail
  /\ UNCHANGED <<file, lock, serve, made, told, landed, loose, bare,
                 crowd, budget, faults>>

(* Slip: a line goes down behind whatever is there.                        *)
LookAtNoTail(p) ==
  /\ store[p].pc = "tail"
  /\ store' = [store EXCEPT ![p].pc = "write"]
  /\ UNCHANGED <<file, lock, mail, serve, made, told, landed, loose, bare,
                 budget, crowd, faults>>

(* dropTornTail: look, then cut.                                           *)
LookAtTail(p) ==
  /\ store[p].pc = "tail"
  /\ LET end == TailEnd(file) IN
       store' = [store EXCEPT ![p] = [store[p] EXCEPT
         !.pc = IF end = Len(file) THEN "write" ELSE "cut",
         !.end = end,
         !.off = IF end = Len(file) /\ end < @ THEN end ELSE @]]
  /\ UNCHANGED <<file, lock, mail, serve, made, told, landed, loose, bare,
                 budget, crowd, faults>>

CutTail(p) ==
  /\ store[p].pc = "cut"
  /\ file' = Truncate(file, store[p].end)
  /\ Bare(p, "cut")
  /\ LET end == store[p].end IN
       store' = [q \in Stores |->
         IF q = p
         THEN [store[p] EXCEPT !.pc = "write", !.off = IF end < @ THEN end ELSE @]
         ELSE IF end < store[q].off THEN [store[q] EXCEPT !.blind = TRUE]
         ELSE store[q]]
  /\ UNCHANGED <<lock, mail, serve, made, told, landed, loose, budget,
                 crowd, faults>>

(* The end of an operation: the lock is released, a Close has closed.      *)
Returned(s) ==
  [s EXCEPT !.pc = "idle", !.op = "none", !.end = 0,
            !.up = IF s.op = "close" THEN "closed" ELSE @]

(* One pending line goes down; the last one ends the operation.            *)
Write(p) ==
  /\ store[p].pc = "write"
  /\ LET s == [store[p] EXCEPT !.pending = Tail(@), !.off = @ + 1,
                             !.blind = @ \/ store[p].off # Len(file)]
         e == Head(store[p].pending)
     IN /\ file' = Append(file, e)
        /\ landed' = landed \cup {e}
        /\ Bare(p, "write")
        /\ IF s.pending = <<>>
           THEN /\ store' = [store EXCEPT ![p] = Returned(s)]
                /\ Unlock(p)
           ELSE /\ store' = [store EXCEPT ![p] = s]
                /\ UNCHANGED lock
  /\ UNCHANGED <<mail, serve, made, told, loose, budget, crowd, faults>>

(* A write fails: nothing or a fragment is put down, the lines wait.       *)
Waiting(p) == {store[p].pending[i] : i \in 1 .. Len(store[p].pending)}

(* Slip: a line whose write failed is dropped.                             *)
WriteDrops(p) ==
  /\ store[p].pc = "write"
  /\ Fault
  /\ file' \in {file, Append(file, Torn)}
  /\ Bare(p, "write")
  /\ loose' = loose \cup Waiting(p)
  /\ store' = [store EXCEPT ![p] = [Returned(@) EXCEPT !.pending = <<>>]]
  /\ Unlock(p)
  /\ UNCHANGED <<mail, serve, made, told, landed, crowd, budget>>

WriteFails(p) ==
  /\ store[p].pc = "write"
  /\ Fault
  /\ file' \in {file, Append(file, Torn)}
  /\ Bare(p, "write")
  /\ loose' = loose \cup Waiting(p)
  /\ store' = [store EXCEPT ![p] = Returned(@)]
  /\ Unlock(p)
  /\ UNCHANGED <<mail, serve, made, told, landed, crowd, budget>>

----------------------------------------------------------------------------
(* AppendFile.                                                             *)

ServeStarts ==
  /\ serve = NoServe
  /\ Spend("notices")
  /\ Lock(Serve)
  /\ made' = made + 1
  /\ serve' = Entry(made + 1, TopSeq(Readable(file), 0) + 1, Serve, "notice", 0)
  /\ loose' = IF lock' = Serve THEN loose ELSE loose \cup {serve'}
  /\ UNCHANGED <<file, store, mail, told, landed, bare, crowd>>

(* The line goes down behind whatever is there, a fragment included.       *)
ServeWrites ==
  /\ serve # NoServe
  /\ file' = Append(file, serve)
  /\ landed' = landed \cup {serve}
  /\ Bare(Serve, "write")
  /\ serve' = NoServe
  /\ Unlock(Serve)
  /\ UNCHANGED <<store, mail, made, told, loose, budget, crowd, faults>>

ServeFails ==
  /\ serve # NoServe
  /\ Fault
  /\ file' \in {file, Append(file, Torn)}
  /\ Bare(Serve, "write")
  /\ serve' = NoServe
  /\ Unlock(Serve)
  /\ UNCHANGED <<store, mail, made, told, landed, loose, crowd, budget>>

----------------------------------------------------------------------------
(* The mailbox: pollStoredNotices and deliverStoredNotices.                *)

MarkedNever(f) == {}   \* slip: the marks in the file are not read
Marked(f) == {e.of : e \in {x \in Readable(f) : x.kind = "mark"}}
Undelivered(f) == {e \in Readable(f) : e.kind = "notice" /\ e.n \notin Marked(f)}

(* The notices in the order of their numbers.                              *)
BySeq(S) ==
  CHOOSE q \in [1 .. Cardinality(S) -> S] :
    \A i, j \in 1 .. Cardinality(S) : i < j => /\ q[i] # q[j]
                                               /\ q[i].seq <= q[j].seq

(* The tick compares sizes; the contents met here differ in theirs.        *)
MailLooks(p) ==
  /\ mail[p].pc = "idle" /\ store[p].up = "open"
  /\ mail[p].seen # file
  /\ LET todo == BySeq(Undelivered(file)) IN
       mail' = [mail EXCEPT ![p] =
         [pc |-> IF todo = <<>> THEN "idle" ELSE "mark",
          seen |-> file, todo |-> [i \in DOMAIN todo |-> todo[i].n]]]
  /\ UNCHANGED <<file, lock, store, serve, made, told, landed, loose, bare,
                 budget, crowd, faults>>

(* Marked delivered before it is queued.                                   *)
MailMarks(p) ==
  /\ mail[p].pc = "mark"
  /\ NumberEntry(p, "mark", Head(mail[p].todo))
  /\ mail' = [mail EXCEPT ![p].pc = "marking"]
  /\ UNCHANGED <<file, serve, told, landed, bare, crowd, budget>>

MailTells(p) ==
  /\ mail[p].pc = "marking"
  /\ store[p].op # "mark"
  /\ told' = Append(told, Head(mail[p].todo))
  /\ mail' = [mail EXCEPT ![p] = [mail[p] EXCEPT
       !.todo = Tail(@), !.pc = IF Tail(mail[p].todo) = <<>> THEN "idle" ELSE "mark"]]
  /\ UNCHANGED <<file, lock, store, serve, made, landed, loose, bare,
                 budget, crowd, faults>>

----------------------------------------------------------------------------
(* The process ends after its Close, or dies at any point, in the middle   *)
(* of a write too.  The kernel drops its lock.                             *)

Gone(p) ==
  /\ store' = [store EXCEPT ![p] = NoStore]
  /\ mail' = [mail EXCEPT ![p] = NoMail]
  /\ Unlock(p)

Exit(p) ==
  /\ store[p].up = "closed" /\ store[p].pc = "idle"
  /\ Gone(p)
  /\ UNCHANGED <<file, serve, made, told, landed, loose, bare, budget,
                 crowd, faults>>

Crash(p) ==
  /\ store[p] # NoStore
  /\ Fault
  /\ Gone(p)
  /\ file' \in IF store[p].pc = "write" THEN {file, Append(file, Torn)}
               ELSE {file}
  /\ IF file' = file THEN UNCHANGED bare ELSE Bare(p, "write")
  /\ UNCHANGED <<serve, made, told, landed, loose, crowd, budget>>

----------------------------------------------------------------------------
Proceed(p) ==
  \/ OpenLooks(p) \/ OpenCuts(p) \/ LookAtTail(p) \/ CutTail(p) \/ Write(p)

Deliver(p) == MailLooks(p) \/ MailMarks(p) \/ MailTells(p)

Next ==
  \/ \E p \in Stores :
       \/ OpenReads(p) \/ AppendLine(p) \/ Flush(p) \/ Close(p)
       \/ WriteFails(p) \/ Exit(p) \/ Crash(p)
       \/ Proceed(p) \/ Deliver(p)
  \/ ServeStarts \/ ServeFails \/ ServeWrites

Spec == Init /\ [][Next]_vars

----------------------------------------------------------------------------
(* Properties.                                                             *)

Entries == landed \cup loose \cup {serve}
           \cup UNION {Waiting(p) : p \in Stores}
Chunk(c) ==
  \/ c = Torn
  \/ /\ c.n \in 1 .. made /\ c.seq \in 1 .. made
     /\ c.by \in Stores \cup {Serve} /\ c.kind \in {"line", "notice", "mark"}
     /\ c.of \in 0 .. made

(* The variables keep their types; a store that is down is a fresh one and *)
(* whoever holds the lock is in the middle of an operation.                *)
TypeOK ==
  /\ made \in Nat \ {0}
  /\ \A i \in 1 .. Len(file) : Chunk(file[i])
  /\ \A e \in Entries : Chunk(e)
  /\ \A p \in Stores :
       /\ store[p].up \in {"down", "open", "closed"}
       /\ store[p].up = "down" /\ store[p].pc = "idle" => store[p] = NoStore
       /\ store[p].seq \in 0 .. made
       /\ store[p].pc \in {"tail", "cut", "write"} \/ ~Holds(p)
       /\ store[p].pc = "write" => store[p].pending # <<>>
  /\ lock = Serve => serve # NoServe

(* history.go:670 "so both writers never number two entries alike": two    *)
(* readable entries share a number only when one of them was numbered      *)
(* without the lock, by a store whose open missed lines, or had to wait    *)
(* for the disk with its number taken; or a tail was cut without the lock. *)
UniqueSeqs ==
  "cut" \notin bare => \A e, f \in Readable(file) :
      e # f /\ e.seq = f.seq => e \in loose \/ f \in loose

(* The readable lines of one process stand in the file in the order it     *)
(* numbered them, over write failures, retries, restarts and late appends. *)
OrderKept ==
  \A i, j \in Lines(file, 0) :
    i < j /\ file[i].by = file[j].by /\ file[i].by # Serve
      => file[i].seq < file[j].seq /\ file[i].n < file[j].n

(* A number names one line, and the numbers follow the file.               *)
SeqsRight == UniqueSeqs /\ OrderKept

(* What a write put down stays readable as long as every writer holds the  *)
(* lock: crashes and failed writes leave fragments, and the next store     *)
(* cuts them off before it writes.  Only AppendFile does not look.         *)
Durable ==
  bare = {} => \A e \in landed :
             \/ e \in Readable(file)
             \/ \E i \in 2 .. Len(file) : /\ file[i] = e /\ e.by = Serve
                                          /\ file[i - 1] = Torn

(* A line that was numbered is not dropped while its process runs, however *)
(* often its write fails: it is pending until it is on disk.  Only what a  *)
(* Close could not write is lost.                                          *)
LinesKept ==
  [][\A p \in Stores : \A e \in Waiting(p) :
       e \in Waiting(p)' \cup landed' \/ store'[p].up = "down"]_vars

(* notices.go:64 "queues each undelivered notice exactly once": with one   *)
(* process at a time, and every writer holding the lock, a notice is       *)
(* queued twice only when its mark had to wait for the disk.               *)
Times(n) == Cardinality({i \in 1 .. Len(told) : told[i] = n})
NoticeOnce ==
  ~crowd /\ bare = {} =>
    \A i \in 1 .. Len(told) :
      Times(told[i]) > 1 => \E e \in loose : e.kind = "mark" /\ e.of = told[i]

(* With every writer holding the lock, a mailbox that sees nothing new in  *)
(* the file has left no notice behind: each one readable there is marked,  *)
(* on disk or in a line that waits.                                        *)
MailUpToDate ==
  bare = {} => \A p \in Stores :
    mail[p].pc = "idle" /\ store[p].up = "open" /\ mail[p].seen = file
      => \A e \in Undelivered(file) :
           \E f \in Waiting(p) : f.kind = "mark" /\ f.of = e.n

(* Each notice left for the session is queued, and once.                   *)
NoticesOnce == NoticeOnce /\ MailUpToDate

============================================================================
