---------------------------- MODULE KernelProofs ----------------------------
(***************************************************************************)
(* Theorems about module Kernel, for every catalogue of plugins, every set *)
(* of config trees and every cap, proved by TLAPS.                         *)
(***************************************************************************)
EXTENDS Kernel, WellFoundedInduction, TLAPS

\* Where a goroutine has an Apply of its own to account for.
ApplyPCs == {"get", "provide", "undo", "fail"}

\* A goroutine has a rowState in hand exactly while it applies a row.
InHand == \A m \in Mounters : IF pc[m] \in ApplyPCs THEN st[m] \in RowState
                              ELSE st[m] = NoState

TypeInv == TypeOK /\ InHand

\* Every disposal leaves the wiring well typed and the clock alone.
LEMMA DisposeTypes ==
  ASSUME TypeOK, NEW r, DisposeRow(r)
  PROVE  /\ rows' \subseteq RowState
         /\ services' \in [Keys -> Nat]
         /\ providerOf' \in [Keys -> RowIds \cup {Ctx}]
         /\ touches' \in [Keys -> Nat] /\ seq' \in Nat
         /\ \A k \in Keys : touches'[k] <= seq'
         /\ \A q \in rows' : q.mountSeq <= seq'
  BY DEF DisposeRow, TypeOK, Absent

\* A fresh rowState is well typed, and names a value.
LEMMA FreshIs ==
  ASSUME TypeOK, NEW r \in Row
  PROVE  /\ Fresh(r, insts + 1) \in RowState /\ Fresh(r, insts + 1).row = r
         /\ Fresh(r, insts + 1).provides = {}
         /\ Fresh(r, insts + 1).inst = insts + 1 /\ insts + 1 # Absent
  BY DEF TypeOK, Fresh, RowState, Absent

\* Get, Provide and the mount change what they record and nothing else.
LEMMA MountedIs ==
  ASSUME NEW s \in RowState, NEW n \in Nat
  PROVE  /\ Mounted(s, n) \in RowState
         /\ Mounted(s, n).mountSeq = n /\ Mounted(s, n).row = s.row
         /\ Mounted(s, n).provides = s.provides /\ Mounted(s, n).inst = s.inst
  BY DEF Mounted, RowState

LEMMA GivingIs ==
  ASSUME NEW s \in RowState, NEW k \in Keys, NEW b \in BOOLEAN
  PROVE  /\ Giving(s, k, b) \in RowState
         /\ Giving(s, k, b).row = s.row /\ Giving(s, k, b).inst = s.inst
         /\ Giving(s, k, b).provides = IF b THEN s.provides \cup {k} ELSE s.provides
<1> DEFINE P == s.provides \cup IF b THEN {k} ELSE {}
<1>1. P \in SUBSET Keys
  BY DEF RowState
<1>2. Giving(s, k, b) = [s EXCEPT !.provides = P]
  BY DEF Giving
<1> HIDE DEF P
<1>3. /\ [s EXCEPT !.provides = P] \in RowState
      /\ [s EXCEPT !.provides = P].row = s.row
      /\ [s EXCEPT !.provides = P].inst = s.inst
      /\ [s EXCEPT !.provides = P].provides = P
  BY <1>1 DEF RowState
<1> QED
  BY <1>2, <1>3 DEF P

LEMMA ReadingIs ==
  ASSUME TypeOK, NEW s \in RowState, NEW b \in BOOLEAN
  PROVE  /\ Reading(s, b) \in RowState
         /\ Reading(s, b).row = s.row /\ Reading(s, b).inst = s.inst
         /\ Reading(s, b).provides = s.provides
<1> DEFINE read == Inject[s.row.plugin] \cup Optional[s.row.plugin]
           hits == {k \in read : services[k] # Absent}
           got == [k \in Keys |-> IF k \in hits THEN services[k] ELSE Absent]
           obs == IF b THEN hits ELSE {}
           wants == IF b THEN read \ hits ELSE {}
<1>1. read \subseteq Keys
  BY KernelAssumption DEF RowState, Row
<1>2. got \in [Keys -> Nat] /\ obs \in SUBSET Keys /\ wants \in SUBSET Keys
  BY <1>1 DEF TypeOK, Absent
<1>3. Reading(s, b) = [s EXCEPT !.got = got, !.observed = obs, !.wants = wants]
  BY DEF Reading
<1> HIDE DEF got, obs, wants
<1>4. /\ [s EXCEPT !.got = got, !.observed = obs, !.wants = wants] \in RowState
      /\ [s EXCEPT !.got = got, !.observed = obs, !.wants = wants].row = s.row
      /\ [s EXCEPT !.got = got, !.observed = obs, !.wants = wants].inst = s.inst
      /\ [s EXCEPT !.got = got, !.observed = obs, !.wants = wants].provides = s.provides
  BY <1>2 DEF RowState
<1> QED
  BY <1>3, <1>4

LEMMA TypeInit == Init => TypeInv
<1> SUFFICES ASSUME Init PROVE TypeInv
  OBVIOUS
<1> USE KernelAssumption DEF Init
<1>1. TypeOK
  <2>1. /\ desired \subseteq Row /\ failed \subseteq Row /\ rows \subseteq RowState
        /\ services \in [Keys -> Nat] /\ providerOf \in [Keys -> RowIds \cup {Ctx}]
        /\ touches \in [Keys -> Nat] /\ \A k \in Keys : touches[k] <= seq
        /\ \A r \in rows : r.mountSeq <= seq
    BY DEF CtxInst, Absent
  <2>2. /\ seq \in Nat /\ insts \in Nat /\ calls \in Nat /\ erred \in BOOLEAN
        /\ pc \in [Mounters -> PCs] /\ boot \in [Mounters -> BootPhases]
    BY DEF PCs, BootPhases, CtxInst
  <2> QED
    BY <2>1, <2>2 DEF TypeOK
<1>2. InHand
  BY DEF InHand, ApplyPCs
<1> QED
  BY <1>1, <1>2 DEF TypeInv

LEMMA TypeStep == TypeInv /\ [Next]_vars => TypeInv'
<1> SUFFICES ASSUME TypeInv, [Next]_vars PROVE TypeInv'
  OBVIOUS
<1> USE KernelAssumption DEF TypeInv
<1>1. ASSUME NEW m \in Mounters, NEW t \in Trees, Mount(m, t) PROVE TypeInv'
  BY <1>1 DEF Mount, Call, Alive, BeginSettle, Goto, TypeOK, InHand, ApplyPCs,
       PCs, BootPhases, wiring
<1>2. ASSUME NEW m \in Mounters, NEW t \in Trees, Reconcile(m, t) PROVE TypeInv'
  BY <1>2 DEF Reconcile, Diff, DropSet, Call, Alive, BeginSettle, Goto, TypeOK,
       InHand, ApplyPCs, PCs, wiring
<1>3. ASSUME NEW m \in Mounters, NEW id \in RowIds, RemountCall(m, id) PROVE TypeInv'
  BY <1>3 DEF RemountCall, Call, Alive, Goto, TypeOK, InHand, ApplyPCs, PCs,
       wiring, tree
<1>4. ASSUME NEW m \in Mounters, Remount(m) PROVE TypeInv'
  BY <1>4 DEF Remount, Diff, DropSet, Alive, BeginSettle, Goto, TypeOK, InHand,
       ApplyPCs, PCs, wiring
<1>5. ASSUME NEW m \in Mounters, Drop(m) PROVE TypeInv'
  <2>1. CASE doomed[m] = {}
    BY SMTT(30), <1>5, <2>1 DEF Drop, Goto, TypeOK, InHand, ApplyPCs, PCs, wiring
  <2>2. CASE doomed[m] # {}
    <3> PICK r \in doomed[m] : /\ DisposeRow(r)
                              /\ doomed' = [doomed EXCEPT ![m] = @ \ {r}]
      BY <1>5, <2>2 DEF Drop
    <3>1. UNCHANGED <<desired, failed, applier, gate, insts, calls, erred, pc, boot, force,
                      goal, todo, st, unprovided, mountedAny, progressed,
                      remounted, pass>>
      BY <1>5, <2>2 DEF Drop
    <3>2. doomed' \in [Mounters -> SUBSET RowState]
      BY DEF TypeOK
    <3> QED
      BY <3>1, <3>2, DisposeTypes DEF TypeOK, InHand
  <2> QED
    BY <2>1, <2>2
<1>6. ASSUME NEW m \in Mounters, Scan(m) PROVE TypeInv'
  BY <1>6 DEF Scan, PendingDesired, Goto, TypeOK, InHand, ApplyPCs, PCs, wiring, tree
<1>7. ASSUME NEW m \in Mounters, Skip(m) PROVE TypeInv'
  BY <1>7 DEF Skip, TypeOK, InHand, wiring, tree
<1>8. ASSUME NEW m \in Mounters, BeginApply(m) PROVE TypeInv'
  <2> PICK r \in todo[m] :
        /\ todo' = [todo EXCEPT ![m] = @ \ {r}]
        /\ st' = [st EXCEPT ![m] = Fresh(r, insts + 1)]
        /\ unprovided' = [unprovided EXCEPT ![m] = Offers[r.plugin]]
    BY <1>8 DEF BeginApply
  <2>1. r \in Row /\ Offers[r.plugin] \subseteq Keys
    BY DEF TypeOK, Row
  <2>2. Fresh(r, insts + 1) \in RowState
    BY <2>1, FreshIs
  <2> QED
    BY <1>8, <2>1, <2>2 DEF BeginApply, Goto, TypeOK, InHand, ApplyPCs, PCs,
         wiring, tree
<1>9. ASSUME NEW m \in Mounters, MountedAll(m) PROVE TypeInv'
  <2>1. CASE mountedAny[m]
    <3>1. progressed' = [progressed EXCEPT ![m] = boot[m] # "strict"]
      BY <1>9, <2>1 DEF MountedAll
    <3>2. progressed' \in [Mounters -> BOOLEAN]
      BY <3>1, Zenon DEF TypeOK
    <3> QED
      BY <1>9, <2>1, <3>2 DEF MountedAll, Goto, TypeOK, InHand, ApplyPCs, PCs,
           wiring, tree
  <2>2. CASE ~mountedAny[m]
    <3>1. \E l \in {"stale", "scan", "dead"} : pc' = [pc EXCEPT ![m] = l]
      BY <1>9, <2>2 DEF MountedAll, Goto
    <3> QED
      BY SMTT(30), <1>9, <2>2, <3>1 DEF MountedAll, TypeOK, InHand, ApplyPCs, PCs,
           BootPhases, wiring, tree
  <2> QED
    BY <2>1, <2>2
<1>10. ASSUME NEW m \in Mounters, ApplyGet(m) PROVE TypeInv'
  <2>1. st[m] \in RowState
    BY <1>10 DEF ApplyGet, InHand, ApplyPCs
  <2>2. Reading(st[m], applier = m) \in RowState
    BY <2>1, ReadingIs
  <2> QED
    BY <1>10, <2>2 DEF ApplyGet, Goto, TypeOK, InHand, ApplyPCs, PCs, wiring, tree
<1>11. ASSUME NEW m \in Mounters, NEW k \in Keys, Provide(m, k) PROVE TypeInv'
  <2>1. st[m] \in RowState
    BY <1>11 DEF Provide, InHand, ApplyPCs
  <2>2. st[m].inst \in Nat /\ st[m].row.id \in RowIds
    BY <2>1 DEF RowState, Row
  <2>3. Giving(st[m], k, applier = m) \in RowState
    BY <2>1, GivingIs
  <2>4. /\ services' = [services EXCEPT ![k] = st[m].inst]
        /\ touches' = [touches EXCEPT ![k] = seq + 1]
        /\ seq' = seq + 1
        /\ rows' = rows
    BY <1>11 DEF Provide, Tick, tree
  <2>5. \A r \in rows : r.mountSeq \in Nat
    BY DEF TypeOK, RowState
  <2>6. /\ services' \in [Keys -> Nat]
        /\ touches' \in [Keys -> Nat] /\ seq' \in Nat
        /\ \A j \in Keys : touches'[j] <= seq'
        /\ \A r \in rows' : r.mountSeq <= seq'
    BY <2>2, <2>4, <2>5 DEF TypeOK
  <2>7. /\ providerOf' \in [Keys -> RowIds \cup {Ctx}]
        /\ st' \in [Mounters -> RowState \cup {NoState}]
        /\ unprovided' \in [Mounters -> SUBSET Keys]
    BY <1>11, <2>2, <2>3 DEF Provide, TypeOK
  <2>8. TypeOK'
    BY <1>11, <2>6, <2>7 DEF Provide, tree, TypeOK
  <2>9. InHand'
    BY <1>11, <2>3 DEF Provide, TypeOK, InHand, ApplyPCs
  <2> QED
    BY <2>8, <2>9
<1>12. ASSUME NEW m \in Mounters, ApplyOK(m) PROVE TypeInv'
  <2>1. st[m] \in RowState
    BY <1>12 DEF ApplyOK, InHand, ApplyPCs
  <2>2. seq \in Nat /\ seq + 1 \in Nat /\ seq <= seq + 1
    BY DEF TypeOK
  <2>3. /\ Mounted(st[m], seq + 1) \in RowState
        /\ Mounted(st[m], seq + 1).mountSeq = seq + 1
    BY <2>1, <2>2, MountedIs
  <2>4. rows' = rows \cup {Mounted(st[m], seq + 1)} /\ seq' = seq + 1
    BY <1>12 DEF ApplyOK, Tick
  <2>5. rows' \subseteq RowState /\ \A r \in rows' : r.mountSeq <= seq'
    <3>1. ASSUME NEW r \in rows PROVE r.mountSeq \in Nat /\ r.mountSeq <= seq + 1
      BY <2>2 DEF TypeOK, RowState
    <3> QED
      BY <2>2, <2>3, <2>4, <3>1 DEF TypeOK
  <2>6. \A k \in Keys : touches'[k] <= seq'
    BY <1>12, <2>2, <2>4 DEF ApplyOK, TypeOK
  <2>7. TypeOK'
    BY <1>12, <2>4, <2>5, <2>6 DEF ApplyOK, Goto, TypeOK, PCs
  <2>8. InHand'
    BY <1>12 DEF ApplyOK, Goto, TypeOK, InHand, ApplyPCs
  <2> QED
    BY <2>7, <2>8
<1>13. ASSUME NEW m \in Mounters, ApplyErr(m) PROVE TypeInv'
  BY <1>13 DEF ApplyErr, Goto, TypeOK, InHand, ApplyPCs, PCs, wiring, tree
<1>14. ASSUME NEW m \in Mounters, Undo(m) PROVE TypeInv'
  BY <1>14, DisposeTypes DEF Undo, Goto, TypeOK, InHand, ApplyPCs, PCs
<1>15. ASSUME NEW m \in Mounters, Fail(m) PROVE TypeInv'
  <2>1. st[m].row \in Row
    BY <1>15 DEF Fail, InHand, ApplyPCs, RowState
  <2> QED
    BY <1>15, <2>1 DEF Fail, Goto, TypeOK, InHand, ApplyPCs, PCs, wiring
<1>16. ASSUME NEW m \in Mounters, MarkStale(m) PROVE TypeInv'
  BY <1>16 DEF MarkStale, StaleRows, Goto, TypeOK, InHand, ApplyPCs, PCs, wiring, tree
<1>17. ASSUME NEW m \in Mounters, Reload(m) PROVE TypeInv'
  <2> PICK r \in doomed[m] :
        /\ DisposeRow(r)
        /\ doomed' = [doomed EXCEPT ![m] = @ \ {r}]
        /\ remounted' = [remounted EXCEPT ![m] = @ \cup {r.row.id}]
    BY <1>17 DEF Reload
  <2>1. r.row.id \in RowIds
    BY DEF TypeOK, RowState, Row
  <2> QED
    BY <1>17, <2>1, DisposeTypes DEF Reload, TypeOK, InHand
<1>18. ASSUME NEW m \in Mounters, NextPass(m) PROVE TypeInv'
  BY <1>18 DEF NextPass, Goto, TypeOK, InHand, ApplyPCs, PCs, wiring, tree
<1>19. ASSUME NEW m \in Mounters, Return(m) PROVE TypeInv'
  BY <1>19 DEF Return, ReleaseGate, Goto, TypeOK, InHand, ApplyPCs, PCs,
       BootPhases, wiring, tree
<1>20. CASE UNCHANGED vars
  BY <1>20 DEF vars, tree, wiring, locals, TypeOK, InHand
<1> QED
  BY <1>1, <1>2, <1>3, <1>4, <1>5, <1>6, <1>7, <1>8, <1>9, <1>10, <1>11, <1>12,
     <1>13, <1>14, <1>15, <1>16, <1>17, <1>18, <1>19, <1>20 DEF Next, Enter, Run

\* Type correctness, and that seq is ahead of every mount and every touch,
\* whichever goroutines are in the kernel.
THEOREM TypeCorrect == Spec => []TypeOK
<1>1. Spec => []TypeInv
  BY TypeInit, TypeStep, PTL DEF Spec
<1> QED
  BY <1>1, PTL DEF TypeInv
-----------------------------------------------------------------------------
(***************************************************************************)
(* One goroutine in the kernel at a time. The invariants the runs check    *)
(* are not inductive by themselves; SafeInv is. It adds who calls are      *)
(* attributed to (Attributed), that an Apply run names a value (Named),    *)
(* what is known of the snapshot a settle works through (Queue), which     *)
(* rows a drop has still to take down (AsDesired), what a settle has       *)
(* established about the rows it left pending (Visited), and that nothing  *)
(* is mounted before the first call (Untouched).                           *)
(***************************************************************************)
Untouched == calls = 0 => rows = {} /\ \A m \in Mounters : pc[m] = "idle"

Single == \A m, n \in Mounters : m = n

Attributed == \A m \in Mounters : pc[m] \in {"get", "provide"} => applier = m

Named == \A r \in Live : r.inst # Absent

DesiredTree == {desired} \cup {goal[m] : m \in Mounters} \subseteq Trees \cup {{}}

Mountable(r) == r \in desired /\ ~r.disabled /\ r.id \notin ActiveIds \cup FailedIds

Queue ==
  \A m \in Mounters :
    /\ pc[m] \in {"visit"} \cup ApplyPCs => \A r \in todo[m] : Mountable(r)
    /\ pc[m] \in ApplyPCs => /\ Mountable(st[m].row)
                             /\ \A r \in todo[m] : r.id # st[m].row.id

Wanted(r) == \E d \in desired : d.id = r.row.id /\ ~d.disabled /\ SameSpec(d, r.row)

AsDesired ==
  \A r \in rows : Wanted(r) \/ \E m \in Mounters : pc[m] = "drop" /\ r \in doomed[m]

Waiting == \A r \in PendingDesired : Missing(r.plugin) # {}

Visited ==
  \A m \in Mounters :
    /\ pc[m] \in ApplyPCs => mountedAny[m]
    /\ pc[m] = "visit" /\ ~mountedAny[m] =>
         \A r \in PendingDesired \ todo[m] : Missing(r.plugin) # {}
    /\ pc[m] = "stale" \/ (pc[m] = "reload" /\ ~progressed[m])
         \/ (pc[m] = "idle" /\ pass[m] < PassCap) => Waiting

SafeInv ==
  /\ Untouched /\ Attributed /\ Named /\ DesiredTree /\ Queue /\ AsDesired /\ Visited
  /\ NoOrphanService /\ ProvidedPresent /\ OneMountPerRow

LEMMA NoStateApart == \A s \in RowState : s # NoState
  BY KernelAssumption

\* disposeRow, for what follows: r leaves, with the keys only it provided.
LEMMA DisposeIs ==
  ASSUME TypeOK, NEW r, DisposeRow(r)
  PROVE  /\ rows' = rows \ {r}
         /\ \A k \in Keys :
              \/ services'[k] = services[k]
              \/ /\ services'[k] = Absent /\ k \in r.provides
                 /\ \A q \in rows \ {r} : k \notin q.provides
         /\ \A k \in Keys : k \in r.provides =>
              \/ services'[k] = Absent
              \/ \E q \in rows \ {r} : k \in q.provides
  BY DEF DisposeRow

\* The actions that neither mount, dispose, look up nor provide.
Quiet(m) ==
  \/ (\E t \in Trees : Mount(m, t) \/ Reconcile(m, t))
  \/ (\E id \in RowIds : RemountCall(m, id))
  \/ Remount(m) \/ (Drop(m) /\ doomed[m] = {}) \/ Scan(m) \/ Skip(m)
  \/ MountedAll(m) \/ ApplyErr(m) \/ MarkStale(m) \/ NextPass(m) \/ Return(m)

LEMMA QuietWiring ==
  ASSUME TypeOK, NEW m \in Mounters, Quiet(m)
  PROVE  UNCHANGED <<rows, services, st>> /\ Live' = Live
<1>1. UNCHANGED <<rows, services, st>>
  BY DEF Quiet, Mount, Reconcile, RemountCall, Remount, Diff, Drop, Scan, Skip,
     MountedAll, ApplyErr, MarkStale, NextPass, Return, tree, wiring
<1>2. \A n \in Mounters : pc'[n] = "fail" <=> pc[n] = "fail"
  <2>1. ASSUME Skip(m) PROVE pc' = pc
    BY <2>1 DEF Skip
  <2>2. ASSUME ~Skip(m) PROVE pc[m] # "fail" /\ \E l : l # "fail" /\ pc' = [pc EXCEPT ![m] = l]
    <3>1. CASE \E t \in Trees : Mount(m, t) \/ Reconcile(m, t)
      BY <3>1 DEF Mount, Reconcile, Diff, Call, Goto
    <3>2. CASE (\E id \in RowIds : RemountCall(m, id)) \/ Remount(m)
      BY <3>2 DEF RemountCall, Remount, Diff, Call, Goto
    <3>3. CASE (Drop(m) /\ doomed[m] = {}) \/ Scan(m) \/ ApplyErr(m) \/ MarkStale(m) \/ NextPass(m)
      BY <3>3 DEF Drop, Scan, ApplyErr, MarkStale, NextPass, Goto
    <3>4. CASE MountedAll(m)
      BY <3>4 DEF MountedAll, Goto
    <3>5. CASE Return(m)
      BY <3>5 DEF Return, Goto
    <3> QED
      BY <2>2, <3>1, <3>2, <3>3, <3>4, <3>5 DEF Quiet
  <2> QED
    BY <2>1, <2>2 DEF TypeOK
<1> QED
  BY <1>1, <1>2 DEF Live

\* A disposal keeps services and providers in step.
LEMMA DisposeWiring ==
  ASSUME TypeOK, NEW r, DisposeRow(r), NoOrphanService, ProvidedPresent,
         rows \subseteq Live, Live \subseteq rows \cup {r}, Live' = rows'
  PROVE  NoOrphanService' /\ ProvidedPresent'
<1>1. ASSUME NEW k \in Keys \ CtxKeys, services'[k] # Absent
      PROVE  \E q \in rows' : k \in q.provides
  <2>1. CASE k \in r.provides
    BY <1>1, <2>1, DisposeIs
  <2>2. CASE k \notin r.provides
    <3>1. services[k] # Absent
      BY <1>1, <2>2, DisposeIs
    <3>2. PICK q \in Live : k \in q.provides
      BY <3>1 DEF NoOrphanService
    <3> QED
      BY <2>2, <3>2, DisposeIs
  <2> QED
    BY <2>1, <2>2
<1>2. ASSUME NEW q \in rows', NEW k \in q.provides PROVE services'[k] # Absent
  <2>1. q \in rows \ {r}
    BY DisposeIs
  <2>2. k \in Keys
    BY <2>1 DEF TypeOK, RowState
  <2>3. services[k] # Absent
    BY <2>1 DEF ProvidedPresent
  <2> QED
    BY <2>1, <2>2, <2>3, DisposeIs
<1> QED
  BY <1>1, <1>2 DEF NoOrphanService, ProvidedPresent

\* The services and the rows that provide them, in step.
Wiring == Attributed /\ Named /\ NoOrphanService /\ ProvidedPresent

LEMMA WiringStep ==
  ASSUME Single, TypeInv, Wiring, [Next]_vars
  PROVE  Wiring'
<1> USE DEF TypeInv
<1>1. ASSUME NEW m \in Mounters, Quiet(m) PROVE Wiring'
  <2>1. UNCHANGED <<rows, services, st>> /\ Live' = Live
    BY <1>1, QuietWiring
  <2>2. Attributed'
    BY <1>1 DEF Wiring, Attributed, Quiet, Mount, Reconcile, RemountCall, Remount,
       Diff, Call, Drop, Scan, Skip, MountedAll, ApplyErr, MarkStale, NextPass,
       Return, Goto, TypeOK, Single
  <2> QED
    BY <2>1, <2>2 DEF Wiring, Named, NoOrphanService, ProvidedPresent
<1>2. ASSUME NEW m \in Mounters, BeginApply(m) PROVE Wiring'
  <2> PICK r \in todo[m] : st' = [st EXCEPT ![m] = Fresh(r, insts + 1)]
    BY <1>2 DEF BeginApply
  <2>1. st[m] = NoState
    BY <1>2 DEF BeginApply, InHand, ApplyPCs
  <2> DEFINE s == Fresh(r, insts + 1)
  <2>2. s \in RowState /\ s.provides = {} /\ s.inst # Absent
    BY FreshIs DEF TypeOK
  <2>3. /\ rows' = rows /\ services' = services /\ applier' = m
        /\ st' = [st EXCEPT ![m] = s] /\ pc' = [pc EXCEPT ![m] = "get"]
    BY <1>2 DEF BeginApply, Goto, tree, wiring
  <2> HIDE DEF s
  <2>4. Live = rows /\ Live' = rows \cup {s}
    BY <2>1, <2>2, <2>3, NoStateApart DEF Live, Single, TypeOK
  <2> QED
    BY <2>2, <2>3, <2>4 DEF Wiring, Attributed, Named, NoOrphanService,
       ProvidedPresent, TypeOK, Single
<1>3. ASSUME NEW m \in Mounters, ApplyGet(m) PROVE Wiring'
  <2>1. st[m] \in RowState
    BY <1>3 DEF ApplyGet, InHand, ApplyPCs
  <2> DEFINE s == Reading(st[m], applier = m)
  <2>2. s \in RowState /\ s.provides = st[m].provides /\ s.inst = st[m].inst
    BY <2>1, ReadingIs
  <2>3. /\ rows' = rows /\ services' = services /\ applier' = applier
        /\ st' = [st EXCEPT ![m] = s] /\ pc' = [pc EXCEPT ![m] = "provide"]
    BY <1>3 DEF ApplyGet, Goto, tree, wiring
  <2> HIDE DEF s
  <2>4. Live' = rows \cup {s}
    BY <2>2, <2>3, NoStateApart DEF Live, Single, TypeOK
  <2>5. Live = rows \cup {st[m]}
    BY <1>3, <2>1, NoStateApart DEF ApplyGet, Live, Single
  <2> QED
    BY <1>3, <2>1, <2>2, <2>3, <2>4, <2>5 DEF ApplyGet, Wiring, Attributed, Named,
       NoOrphanService, ProvidedPresent, TypeOK, Single
<1>4. ASSUME NEW m \in Mounters, NEW k \in Keys, Provide(m, k) PROVE Wiring'
  <2>1. st[m] \in RowState /\ applier = m
    BY <1>4 DEF Provide, InHand, ApplyPCs, Wiring, Attributed
  <2> DEFINE s == Giving(st[m], k, applier = m)
  <2>2. s \in RowState /\ s.provides = st[m].provides \cup {k} /\ s.inst = st[m].inst
    BY <2>1, GivingIs
  <2>3. /\ rows' = rows /\ applier' = applier /\ pc' = pc
        /\ services' = [services EXCEPT ![k] = st[m].inst]
        /\ st' = [st EXCEPT ![m] = s] /\ pc[m] = "provide"
    BY <1>4 DEF Provide, tree
  <2> HIDE DEF s
  <2>4. Live' = rows \cup {s}
    BY <2>2, <2>3, NoStateApart DEF Live, Single, TypeOK
  <2>5. Live = rows \cup {st[m]}
    BY <2>1, <2>3, NoStateApart DEF Live, Single
  <2>6. st[m].inst # Absent
    BY <2>5 DEF Wiring, Named
  <2> QED
    BY <2>1, <2>2, <2>3, <2>4, <2>5, <2>6 DEF Wiring, Attributed, Named,
       NoOrphanService, ProvidedPresent, TypeOK, Single
<1>5. ASSUME NEW m \in Mounters, ApplyOK(m) PROVE Wiring'
  <2>1. st[m] \in RowState /\ seq + 1 \in Nat
    BY <1>5 DEF ApplyOK, InHand, ApplyPCs, TypeOK
  <2> DEFINE s == Mounted(st[m], seq + 1)
  <2>2. s.provides = st[m].provides /\ s.inst = st[m].inst
    BY <2>1, MountedIs
  <2>3. /\ rows' = rows \cup {s} /\ services' = services
        /\ st' = [st EXCEPT ![m] = NoState]
        /\ pc[m] = "provide" /\ pc' = [pc EXCEPT ![m] = "visit"]
    BY <1>5 DEF ApplyOK, Goto
  <2> HIDE DEF s
  <2>4. Live' = rows \cup {s}
    BY <2>3 DEF Live, Single, TypeOK
  <2>5. Live = rows \cup {st[m]}
    BY <2>1, <2>3, NoStateApart DEF Live, Single
  <2> QED
    BY <2>2, <2>3, <2>4, <2>5 DEF Wiring, Attributed, Named, NoOrphanService,
       ProvidedPresent, TypeOK, Single
<1>6. ASSUME NEW m \in Mounters, (Drop(m) /\ doomed[m] # {}) \/ Reload(m) PROVE Wiring'
  <2> PICK r \in doomed[m] : DisposeRow(r)
    BY <1>6 DEF Drop, Reload
  <2>1. UNCHANGED <<applier, st, pc>> /\ pc[m] \in {"drop", "reload"}
    BY <1>6 DEF Drop, Reload
  <2>2. Live = rows /\ Live' = rows'
    BY <2>1 DEF Live, InHand, ApplyPCs, Single
  <2> QED
    BY <2>1, <2>2, DisposeIs, DisposeWiring DEF Wiring, Attributed, Named
<1>7. ASSUME NEW m \in Mounters, Undo(m) PROVE Wiring'
  <2>1. /\ DisposeRow(st[m]) /\ st' = st
        /\ pc[m] = "undo" /\ pc' = [pc EXCEPT ![m] = "fail"]
    BY <1>7 DEF Undo, Goto
  <2>2. Live = rows \cup {st[m]} /\ Live' = rows'
    BY <2>1, NoStateApart DEF Live, InHand, ApplyPCs, Single, TypeOK
  <2> QED
    BY <2>1, <2>2, DisposeIs, DisposeWiring DEF Wiring, Attributed, Named,
       Single, TypeOK
<1>8. ASSUME NEW m \in Mounters, Fail(m) PROVE Wiring'
  <2>1. /\ rows' = rows /\ services' = services /\ st' = [st EXCEPT ![m] = NoState]
        /\ pc[m] = "fail" /\ \E l \in {"dead", "visit"} : pc' = [pc EXCEPT ![m] = l]
    BY <1>8 DEF Fail, Goto, wiring
  <2>2. Live = rows /\ Live' = rows
    BY <2>1 DEF Live, Single, TypeOK
  <2> QED
    BY <2>1, <2>2 DEF Wiring, Attributed, Named, NoOrphanService,
       ProvidedPresent, Single, TypeOK
<1>9. CASE UNCHANGED vars
  <2>1. UNCHANGED <<rows, services, st, pc, applier>>
    BY <1>9 DEF vars, tree, wiring, locals
  <2> QED
    BY <2>1 DEF Wiring, Attributed, Named, NoOrphanService, ProvidedPresent, Live
<1> QED
  <2>1. ASSUME NEW m \in Mounters, Enter(m) \/ Run(m) PROVE Wiring'
    BY <2>1, <1>1, <1>2, <1>3, <1>4, <1>5, <1>6, <1>7, <1>8 DEF Enter, Run, Quiet
  <2> QED
    BY <2>1, <1>9 DEF Next

-----------------------------------------------------------------------------
(* Which rows are mounted, and which a settle may still mount.             *)

VisitPCs == {"visit"} \cup ApplyPCs

\* Taking rows and failures away keeps the rest mountable, and mounted once.
LEMMA Shrink ==
  ASSUME rows' \subseteq rows, failed' \subseteq failed
  PROVE  /\ ActiveIds' \subseteq ActiveIds /\ FailedIds' \subseteq FailedIds
         /\ desired' = desired => \A r : Mountable(r) => Mountable(r)'
         /\ OneMountPerRow => OneMountPerRow'
<1>1. ActiveIds' \subseteq ActiveIds /\ FailedIds' \subseteq FailedIds
  BY DEF ActiveIds, FailedIds
<1> QED
  BY <1>1 DEF Mountable, OneMountPerRow

\* Desired ids are distinct: a tree names a row once.
LEMMA DistinctIds ==
  ASSUME DesiredTree, NEW a \in desired, NEW b \in desired, a.id = b.id
  PROVE  a = b
  BY KernelAssumption DEF DesiredTree

Order == DesiredTree /\ Queue /\ OneMountPerRow

LEMMA OrderStep ==
  ASSUME Single, TypeInv, Order, [Next]_vars
  PROVE  Order'
<1> USE DEF TypeInv
<1>1. ASSUME NEW m \in Mounters,
             \/ \E t \in Trees : Mount(m, t) \/ Reconcile(m, t)
             \/ (\E id \in RowIds : RemountCall(m, id)) \/ Remount(m)
      PROVE  Order'
  <2>1. rows' = rows /\ failed' \subseteq failed
    BY <1>1 DEF Mount, Reconcile, RemountCall, Remount, Diff, tree
  <2>2. DesiredTree'
    <3>1. ASSUME NEW t \in Trees, Mount(m, t) \/ Reconcile(m, t) PROVE desired' = t /\ goal' = goal
      BY <3>1 DEF Mount, Reconcile, Diff
    <3>2. ASSUME NEW id \in RowIds, RemountCall(m, id)
          PROVE  desired' = desired /\ goal' = [goal EXCEPT ![m] = desired]
      BY <3>2 DEF RemountCall, tree
    <3>3. ASSUME Remount(m) PROVE desired' = goal[m] /\ goal' = goal
      BY <3>3 DEF Remount, Diff
    <3> QED
      BY <1>1, <3>1, <3>2, <3>3 DEF Order, DesiredTree, TypeOK
  <2>3. pc'[m] \notin VisitPCs
    BY <1>1 DEF Mount, Reconcile, RemountCall, Remount, Diff, Goto, VisitPCs,
       ApplyPCs, TypeOK
  <2> QED
    BY <2>1, <2>2, <2>3, Shrink DEF Order, Queue, VisitPCs, Single
<1>2. ASSUME NEW m \in Mounters, Drop(m) \/ Reload(m) PROVE Order'
  <2>1. /\ rows' \subseteq rows /\ UNCHANGED <<failed, desired, goal>>
        /\ pc'[m] \notin VisitPCs
    BY <1>2, DisposeIs DEF Drop, Reload, Goto, VisitPCs, ApplyPCs, TypeOK
  <2> QED
    BY <2>1, Shrink DEF Order, Queue, DesiredTree, VisitPCs, Single
<1>3. ASSUME NEW m \in Mounters,
             MountedAll(m) \/ MarkStale(m) \/ NextPass(m) \/ Return(m)
      PROVE  Order'
  <2>1. UNCHANGED <<rows, failed, desired>> /\ pc'[m] \notin VisitPCs
    BY <1>3 DEF MountedAll, MarkStale, NextPass, Return, Goto, VisitPCs, ApplyPCs,
       TypeOK, tree
  <2>2. goal' = goal \/ goal' = [goal EXCEPT ![m] = {}]
    BY <1>3 DEF MountedAll, MarkStale, NextPass, Return
  <2>3. DesiredTree'
    BY <2>1, <2>2 DEF Order, DesiredTree, TypeOK
  <2> QED
    BY <2>1, <2>3, Shrink DEF Order, Queue, VisitPCs, Single
<1>4. ASSUME NEW m \in Mounters, Scan(m) PROVE Order'
  <2>1. /\ UNCHANGED <<rows, failed, desired, goal>>
        /\ todo'[m] = PendingDesired /\ pc'[m] = "visit"
    BY <1>4 DEF Scan, Goto, TypeOK, tree
  <2> QED
    BY <2>1, Shrink DEF Order, Queue, DesiredTree, PendingDesired, Mountable,
       ApplyPCs, Single
<1>5. ASSUME NEW m \in Mounters, Skip(m) PROVE Order'
  <2>1. /\ UNCHANGED <<rows, failed, desired, goal, pc>>
        /\ pc[m] = "visit" /\ todo'[m] \subseteq todo[m]
    BY <1>5 DEF Skip, TypeOK, tree
  <2> QED
    BY <2>1, Shrink DEF Order, Queue, DesiredTree, ApplyPCs, Single
<1>6. ASSUME NEW m \in Mounters, BeginApply(m) PROVE Order'
  <2> PICK r \in todo[m] : /\ todo' = [todo EXCEPT ![m] = @ \ {r}]
                           /\ st' = [st EXCEPT ![m] = Fresh(r, insts + 1)]
    BY <1>6 DEF BeginApply
  <2>1. r \in Row
    BY DEF TypeOK
  <2>2. /\ UNCHANGED <<rows, failed, desired, goal>> /\ pc[m] = "visit"
        /\ todo'[m] = todo[m] \ {r} /\ st'[m].row = r
    BY <1>6, <2>1, FreshIs DEF BeginApply, TypeOK, tree
  <2>3. \A q \in todo[m] : Mountable(q)
    BY <2>2 DEF Order, Queue
  <2>4. \A q \in todo'[m] : q.id # r.id
    BY <2>2, <2>3, DistinctIds DEF Order, Mountable
  <2> QED
    BY <2>2, <2>3, <2>4, Shrink DEF Order, Queue, DesiredTree, Single
<1>7. ASSUME NEW m \in Mounters,
             ApplyGet(m) \/ (\E k \in Keys : Provide(m, k)) \/ ApplyErr(m) \/ Undo(m)
      PROVE  Order'
  <2>1. st[m] \in RowState /\ pc[m] \in ApplyPCs
    BY <1>7 DEF ApplyGet, Provide, ApplyErr, Undo, InHand, ApplyPCs
  <2>2. /\ rows' \subseteq rows /\ UNCHANGED <<failed, desired, goal, todo>>
        /\ pc'[m] \in ApplyPCs
    BY <1>7, DisposeIs DEF ApplyGet, Provide, ApplyErr, Undo, Goto, ApplyPCs,
       TypeOK, tree
  <2>3. st'[m].row = st[m].row
    <3>1. CASE ApplyGet(m)
      <4>1. st'[m] = Reading(st[m], applier = m)
        BY <3>1 DEF ApplyGet, TypeOK
      <4> QED
        BY <2>1, <4>1, ReadingIs
    <3>2. ASSUME NEW k \in Keys, Provide(m, k) PROVE st'[m].row = st[m].row
      <4>1. st'[m] = Giving(st[m], k, applier = m)
        BY <3>2 DEF Provide, TypeOK
      <4>2. Giving(st[m], k, applier = m).row = st[m].row
        BY <2>1, GivingIs
      <4> QED
        BY <4>1, <4>2
    <3>3. CASE ApplyErr(m) \/ Undo(m)
      BY <3>3 DEF ApplyErr, Undo
    <3> QED
      BY <1>7, <3>1, <3>2, <3>3
  <2> QED
    BY <2>1, <2>2, <2>3, Shrink DEF Order, Queue, DesiredTree, Single
<1>8. ASSUME NEW m \in Mounters, ApplyOK(m) PROVE Order'
  <2> DEFINE s == Mounted(st[m], seq + 1)
  <2>1. st[m] \in RowState /\ seq + 1 \in Nat
    BY <1>8 DEF ApplyOK, InHand, ApplyPCs, TypeOK
  <2>2. s.row = st[m].row
    BY <2>1, MountedIs
  <2>3. /\ rows' = rows \cup {s} /\ UNCHANGED <<failed, desired, goal, todo>>
        /\ pc[m] = "provide" /\ pc'[m] = "visit"
    BY <1>8 DEF ApplyOK, Goto, TypeOK
  <2> HIDE DEF s
  <2>4. /\ Mountable(st[m].row)
        /\ \A r \in todo[m] : Mountable(r) /\ r.id # st[m].row.id
    BY <2>3 DEF Order, Queue, ApplyPCs
  <2>5. ActiveIds' = ActiveIds \cup {st[m].row.id} /\ FailedIds' = FailedIds
    BY <2>2, <2>3 DEF ActiveIds, FailedIds
  <2>6. Queue'
    BY <2>3, <2>4, <2>5 DEF Queue, Mountable, ApplyPCs, Single
  <2>7. \A a \in rows : a.row.id # s.row.id
    BY <2>2, <2>4 DEF Mountable, ActiveIds
  <2>8. OneMountPerRow'
    BY <2>3, <2>4, <2>5, <2>7 DEF Order, OneMountPerRow, Mountable
  <2> QED
    BY <2>3, <2>6, <2>8 DEF Order, DesiredTree
<1>9. ASSUME NEW m \in Mounters, Fail(m) PROVE Order'
  <2>1. /\ UNCHANGED <<rows, desired, goal, todo>>
        /\ pc[m] = "fail" /\ pc'[m] \in {"dead", "visit"}
    BY <1>9 DEF Fail, Goto, TypeOK
  <2>2. FailedIds' \subseteq FailedIds \cup {st[m].row.id} /\ ActiveIds' = ActiveIds
    BY <1>9, <2>1 DEF Fail, FailedIds, ActiveIds
  <2>3. /\ Mountable(st[m].row)
        /\ \A r \in todo[m] : Mountable(r) /\ r.id # st[m].row.id
    BY <2>1 DEF Order, Queue, ApplyPCs
  <2>4. Queue'
    BY <2>1, <2>2, <2>3 DEF Queue, Mountable, ApplyPCs, Single
  <2>5. OneMountPerRow'
    BY <2>1, <2>2, <2>3 DEF Order, OneMountPerRow, Mountable
  <2> QED
    BY <2>1, <2>4, <2>5 DEF Order, DesiredTree
<1>10. CASE UNCHANGED vars
  <2>1. UNCHANGED <<rows, failed, desired, goal, todo, st, pc>>
    BY <1>10 DEF vars, tree, locals
  <2> QED
    BY <2>1, Shrink DEF Order, Queue, DesiredTree
<1> QED
  <2>1. ASSUME NEW m \in Mounters, Enter(m) \/ Run(m) PROVE Order'
    BY <2>1, <1>1, <1>2, <1>3, <1>4, <1>5, <1>6, <1>7, <1>8, <1>9 DEF Enter, Run
  <2> QED
    BY <2>1, <1>10 DEF Next

-----------------------------------------------------------------------------
(* What a settle leaves behind.                                            *)

\* A drop takes down everything the candidate removes, disables, changes
\* or forces: what it leaves is wanted.
LEMMA KeptIsWanted ==
  ASSUME NEW new, NEW f, desired' = new, rows' = rows,
         NEW r \in rows, r \notin DropSet(new, f)
  PROVE  Wanted(r)'
<1>1. r \notin Changed(new, f)
  BY DEF DropSet
<1> QED
  BY <1>1 DEF Changed, Wanted

LEMMA UntouchedStep == TypeInv /\ Untouched /\ [Next]_vars => Untouched'
<1> SUFFICES ASSUME TypeInv, Untouched, [Next]_vars PROVE Untouched'
  OBVIOUS
<1>1. ASSUME NEW m \in Mounters, Enter(m) PROVE calls' # 0
  <2>1. calls' = calls + 1
    BY <1>1 DEF Enter, Mount, Reconcile, RemountCall, Call
  <2> QED
    BY <2>1 DEF TypeInv, TypeOK
<1>2. ASSUME NEW m \in Mounters, Run(m) PROVE calls' = calls /\ pc[m] # "idle"
  BY <1>2 DEF Run, Remount, Drop, Scan, Skip, BeginApply, MountedAll, ApplyGet,
     Provide, ApplyOK, ApplyErr, Undo, Fail, MarkStale, Reload, NextPass, Return
<1>3. CASE UNCHANGED vars
  BY <1>3 DEF vars, tree, Untouched
<1> QED
  BY <1>1, <1>2, <1>3 DEF Next, Untouched

LEMMA AsDesiredStep ==
  ASSUME Single, TypeInv, Untouched, Queue, AsDesired, [Next]_vars
  PROVE  AsDesired'
<1> USE DEF TypeInv
<1>1. ASSUME NEW m \in Mounters, NEW t \in Trees, Mount(m, t) PROVE AsDesired'
  <2>1. rows' = {}
    BY <1>1 DEF Mount, Untouched
  <2> QED
    BY <2>1 DEF AsDesired
<1>2. ASSUME NEW m \in Mounters, NEW new, NEW f, Diff(m, new, f) PROVE AsDesired'
  <2>1. /\ rows' = rows /\ desired' = new /\ pc'[m] = "drop"
        /\ doomed'[m] = DropSet(new, f)
    BY <1>2 DEF Diff, Goto, TypeOK
  <2> QED
    BY <2>1, KeptIsWanted DEF AsDesired
<1>3. ASSUME NEW m \in Mounters, Drop(m) PROVE AsDesired'
  <2>1. CASE doomed[m] = {}
    BY <1>3, <2>1 DEF Drop, AsDesired, Wanted, Single
  <2>2. CASE doomed[m] # {}
    <3> PICK r \in doomed[m] : /\ DisposeRow(r)
                              /\ doomed' = [doomed EXCEPT ![m] = @ \ {r}]
                              /\ pc' = pc
      BY <1>3, <2>2 DEF Drop
    <3>1. rows' = rows \ {r} /\ desired' = desired /\ doomed'[m] = doomed[m] \ {r}
      BY <1>3, DisposeIs DEF Drop, TypeOK
    <3> QED
      BY <1>3, <3>1 DEF AsDesired, Wanted, Single
  <2> QED
    BY <2>1, <2>2
<1>4. ASSUME NEW m \in Mounters, ApplyOK(m) PROVE AsDesired'
  <2> DEFINE s == Mounted(st[m], seq + 1)
  <2>1. st[m] \in RowState /\ seq + 1 \in Nat /\ pc[m] = "provide"
    BY <1>4 DEF ApplyOK, InHand, ApplyPCs, TypeOK
  <2>2. s.row = st[m].row
    BY <2>1, MountedIs
  <2>3. rows' = rows \cup {s} /\ desired' = desired
    BY <1>4 DEF ApplyOK
  <2> HIDE DEF s
  <2>4. Wanted(s)
    BY <2>1, <2>2 DEF Queue, Mountable, ApplyPCs, Wanted, SameSpec
  <2> QED
    BY <2>1, <2>3, <2>4 DEF AsDesired, Wanted, Single
<1>5. ASSUME NEW m \in Mounters, Run(m) \/ \E id \in RowIds : RemountCall(m, id),
             ~Remount(m), ~Drop(m), ~ApplyOK(m)
      PROVE  AsDesired'
  <2>1. rows' \subseteq rows /\ desired' = desired
    BY <1>5, DisposeIs DEF Run, RemountCall, Scan, Skip, BeginApply, MountedAll,
       ApplyGet, Provide, ApplyErr, Undo, Fail, MarkStale, Reload, NextPass,
       Return, tree
  <2>2. pc[m] # "drop"
    BY <1>5 DEF Run, RemountCall, Call, Scan, Skip, BeginApply, MountedAll,
       ApplyGet, Provide, ApplyErr, Undo, Fail, MarkStale, Reload, NextPass, Return
  <2> QED
    BY <2>1, <2>2 DEF AsDesired, Wanted, Single
<1>6. CASE UNCHANGED vars
  BY <1>6 DEF vars, tree, locals, AsDesired, Wanted
<1> QED
  <2>1. ASSUME NEW m \in Mounters, Enter(m) \/ Run(m) PROVE AsDesired'
    <3>1. ASSUME NEW t \in Trees, Reconcile(m, t) PROVE AsDesired'
      BY <3>1, <1>2 DEF Reconcile
    <3>2. CASE Remount(m)
      BY <3>2, <1>2 DEF Remount
    <3> QED
      BY <2>1, <3>1, <3>2, <1>1, <1>3, <1>4, <1>5 DEF Enter
  <2> QED
    BY <2>1, <1>6 DEF Next

\* While nothing a settle reads changes, what it found out stays true.
LEMMA SamePending ==
  ASSUME UNCHANGED <<desired, rows, failed, services>>
  PROVE  /\ PendingDesired' = PendingDesired
         /\ \A p : Missing(p)' = Missing(p)
         /\ Waiting' = Waiting
  BY DEF PendingDesired, Missing, Waiting, ActiveIds, FailedIds

LEMMA VisitedStep ==
  ASSUME Single, TypeInv, Untouched, Visited, [Next]_vars
  PROVE  Visited'
<1> USE DEF TypeInv
<1>1. ASSUME NEW m \in Mounters,
             \/ \E t \in Trees : Mount(m, t) \/ Reconcile(m, t)
             \/ (\E id \in RowIds : RemountCall(m, id)) \/ Remount(m)
             \/ Drop(m) \/ NextPass(m)
      PROVE  Visited'
  <2>1. pc'[m] \in {"scan", "drop", "gate"}
    BY <1>1 DEF Mount, Reconcile, RemountCall, Remount, Diff, Drop, NextPass,
       Goto, TypeOK
  <2> QED
    BY <2>1 DEF Visited, ApplyPCs, Single
<1>2. ASSUME NEW m \in Mounters, Scan(m) PROVE Visited'
  <2>1. /\ UNCHANGED <<desired, rows, failed, services>>
        /\ pc'[m] = "visit" /\ todo'[m] = PendingDesired
    BY <1>2 DEF Scan, Goto, TypeOK, tree, wiring
  <2> QED
    BY <2>1, SamePending DEF Visited, ApplyPCs, Single
<1>3. ASSUME NEW m \in Mounters, Skip(m) PROVE Visited'
  <2> PICK r \in todo[m] : /\ Missing(r.plugin) # {}
                           /\ todo' = [todo EXCEPT ![m] = @ \ {r}]
    BY <1>3 DEF Skip
  <2>1. /\ UNCHANGED <<desired, rows, failed, services, pc, mountedAny>>
        /\ pc[m] = "visit" /\ todo'[m] = todo[m] \ {r}
    BY <1>3 DEF Skip, TypeOK, tree, wiring
  <2> QED
    BY <2>1, SamePending DEF Visited, ApplyPCs, Single
<1>4. ASSUME NEW m \in Mounters, BeginApply(m) PROVE Visited'
  <2>1. pc'[m] = "get" /\ mountedAny'[m]
    BY <1>4 DEF BeginApply, Goto, TypeOK
  <2> QED
    BY <2>1 DEF Visited, Single
<1>5. ASSUME NEW m \in Mounters, MountedAll(m) PROVE Visited'
  <2>1. UNCHANGED <<desired, rows, failed, services>> /\ pc[m] = "visit" /\ todo[m] = {}
    BY <1>5 DEF MountedAll, tree, wiring
  <2>2. CASE mountedAny[m]
    <3>1. pc'[m] = "scan"
      BY <1>5, <2>2 DEF MountedAll, Goto, TypeOK
    <3> QED
      BY <3>1 DEF Visited, ApplyPCs, Single
  <2>3. CASE ~mountedAny[m]
    <3>1. pc'[m] \in {"stale", "scan", "dead"}
      BY <1>5, <2>3 DEF MountedAll, Goto, TypeOK
    <3>2. Waiting'
      BY <2>1, <2>3, SamePending DEF Visited, Waiting
    <3> QED
      BY <3>1, <3>2 DEF Visited, ApplyPCs, Single
  <2> QED
    BY <2>2, <2>3
<1>6. ASSUME NEW m \in Mounters,
             \/ ApplyGet(m) \/ (\E k \in Keys : Provide(m, k)) \/ ApplyOK(m)
             \/ ApplyErr(m) \/ Undo(m) \/ Fail(m)
      PROVE  Visited'
  <2>1. pc[m] \in ApplyPCs /\ mountedAny' = mountedAny
    BY <1>6 DEF ApplyGet, Provide, ApplyOK, ApplyErr, Undo, Fail, ApplyPCs
  <2>2. pc'[m] \in ApplyPCs \cup {"visit", "dead"}
    BY <1>6 DEF ApplyGet, Provide, ApplyOK, ApplyErr, Undo, Fail, Goto, ApplyPCs, TypeOK
  <2> QED
    BY <2>1, <2>2 DEF Visited, ApplyPCs, Single
<1>7. ASSUME NEW m \in Mounters, MarkStale(m) PROVE Visited'
  <2>1. /\ UNCHANGED <<desired, rows, failed, services>>
        /\ pc[m] = "stale" /\ pc'[m] = "reload"
    BY <1>7 DEF MarkStale, Goto, TypeOK, tree, wiring
  <2> QED
    BY <2>1, SamePending DEF Visited, ApplyPCs, Single
<1>8. ASSUME NEW m \in Mounters, Reload(m) PROVE Visited'
  <2>1. pc'[m] = "reload" /\ progressed'[m]
    BY <1>8 DEF Reload, TypeOK
  <2> QED
    BY <2>1 DEF Visited, ApplyPCs, Single
<1>9. ASSUME NEW m \in Mounters, Return(m) PROVE Visited'
  <2>1. /\ UNCHANGED <<desired, rows, failed, services>>
        /\ pc[m] = "reload" /\ pc'[m] \in {"idle", "dead"}
        /\ progressed[m] => pass'[m] = PassCap
    BY <1>9 DEF Return, Goto, TypeOK, tree, wiring
  <2>2. pass'[m] < PassCap => ~progressed[m]
    BY <2>1, KernelAssumption
  <2> QED
    BY <2>1, <2>2, SamePending DEF Visited, ApplyPCs, Single
<1>10. CASE UNCHANGED vars
  <2>1. UNCHANGED <<desired, rows, failed, services, pc, todo, mountedAny, progressed, pass>>
    BY <1>10 DEF vars, tree, wiring, locals
  <2> QED
    BY <2>1, SamePending DEF Visited
<1> QED
  <2>1. ASSUME NEW m \in Mounters, Enter(m) \/ Run(m) PROVE Visited'
    BY <2>1, <1>1, <1>2, <1>3, <1>4, <1>5, <1>6, <1>7, <1>8, <1>9 DEF Enter, Run
  <2> QED
    BY <2>1, <1>10 DEF Next

-----------------------------------------------------------------------------
LEMMA SafeInit == Init => SafeInv
<1> SUFFICES ASSUME Init PROVE SafeInv
  OBVIOUS
<1>1. rows = {} /\ Live = {} /\ failed = {} /\ desired = {}
  BY DEF Init, Live
<1>2. \A m \in Mounters : pc[m] = "idle" /\ goal[m] = {}
  BY DEF Init
<1>3. \A k \in Keys \ CtxKeys : services[k] = Absent
  BY DEF Init
<1> QED
  BY <1>1, <1>2, <1>3 DEF SafeInv, Untouched, Attributed, Named, DesiredTree, Queue,
     AsDesired, Visited, Waiting, PendingDesired, NoOrphanService, ProvidedPresent,
     OneMountPerRow, ActiveIds, FailedIds, ApplyPCs

LEMMA SafeStep == ASSUME Single PROVE TypeInv /\ SafeInv /\ [Next]_vars => SafeInv'
  BY UntouchedStep, WiringStep, OrderStep, AsDesiredStep, VisitedStep
     DEF SafeInv, Wiring, Order

LEMMA AlwaysSafe == ASSUME Single PROVE Spec => [](TypeInv /\ SafeInv)
<1>1. TypeInv /\ SafeInv /\ [Next]_vars => (TypeInv /\ SafeInv)'
  BY TypeStep, SafeStep
<1> QED
  BY <1>1, TypeInit, SafeInit, PTL DEF Spec

\* With one goroutine in the kernel at a time, a service is registered only
\* while a row that provides it is mounted or mounting.
THEOREM NoOrphans == ASSUME Single PROVE Spec => []NoOrphanService
  BY AlwaysSafe, PTL DEF SafeInv

\* With one goroutine in the kernel at a time, what a mounted row provides
\* stays registered, whichever rows of the same key come and go.
THEOREM ProvidedStay == ASSUME Single PROVE Spec => []ProvidedPresent
  BY AlwaysSafe, PTL DEF SafeInv

\* With one goroutine in the kernel at a time, services and mounted rows agree:
\* none is left behind by a row that went, none is missing of a row that stays.
THEOREM ServicesInStep == ASSUME Single PROVE Spec => []ServicesAgree
  BY NoOrphans, ProvidedStay, PTL DEF ServicesAgree

\* With one goroutine in the kernel at a time, a row is mounted at most once
\* and never while it is Failed.
THEOREM MountedOnce == ASSUME Single PROVE Spec => []OneMountPerRow
  BY AlwaysSafe, PTL DEF SafeInv

\* With one goroutine in the kernel at a time, the tree between calls is the
\* tree that was asked for.
THEOREM Settled == ASSUME Single PROVE Spec => []SettledTree
<1>1. SafeInv => SettledTree
  BY KernelAssumption DEF SafeInv, AsDesired, Visited, Waiting, Wanted, SettledTree, Idle
<1> QED
  BY <1>1, AlwaysSafe, PTL

\* With one goroutine in the kernel at a time, the tree is in order: each row
\* mounted once at most, and between calls what was asked for.
THEOREM TreeOrdered == ASSUME Single PROVE Spec => []TreeInOrder
  BY MountedOnce, Settled, PTL DEF TreeInOrder

\* With one goroutine in the kernel at a time, no step mounts a row while it
\* is recorded Failed: only a new call forgets a failure.
THEOREM FailedNotRetried == ASSUME Single PROVE Spec => FailedStaysDown
<1>1. TypeInv /\ SafeInv /\ [Next]_vars
        => [\A id \in FailedIds : id \notin {r.row.id : r \in rows'}]_vars
  <2> SUFFICES ASSUME TypeInv, SafeInv, Next
               PROVE  \A id \in FailedIds : id \notin ActiveIds'
    BY DEF ActiveIds
  <2>1. ActiveIds \cap FailedIds = {}
    BY DEF SafeInv, OneMountPerRow
  <2>2. ASSUME NEW m \in Mounters, ApplyOK(m)
        PROVE  ActiveIds' \cap FailedIds = {}
    <3> DEFINE s == Mounted(st[m], seq + 1)
    <3>1. st[m] \in RowState /\ seq + 1 \in Nat /\ pc[m] = "provide"
      BY <2>2 DEF ApplyOK, TypeInv, InHand, ApplyPCs, TypeOK
    <3>2. s.row = st[m].row
      BY <3>1, MountedIs
    <3>3. rows' = rows \cup {s}
      BY <2>2 DEF ApplyOK
    <3> HIDE DEF s
    <3>4. st[m].row.id \notin FailedIds
      BY <3>1 DEF SafeInv, Queue, Mountable, ApplyPCs
    <3> QED
      BY <2>1, <3>2, <3>3, <3>4 DEF ActiveIds
  <2>3. ASSUME NEW m \in Mounters, Enter(m) \/ Run(m), ~ApplyOK(m)
        PROVE  rows' \subseteq rows
    BY <2>3, DisposeIs DEF TypeInv, Enter, Run, Mount, Reconcile, RemountCall,
       Remount, Diff, Drop, Scan, Skip, BeginApply, MountedAll, ApplyGet, Provide,
       ApplyErr, Undo, Fail, MarkStale, Reload, NextPass, Return, tree
  <2> QED
    BY <2>1, <2>2, <2>3 DEF Next, ActiveIds
<1> QED
  BY <1>1, AlwaysSafe, PTL DEF Spec, FailedStaysDown
-----------------------------------------------------------------------------
(***************************************************************************)
(* Why a settle converges. What a pass mounts, after the first, are rows   *)
(* the pass before it reloaded: what stayed pending lacked a key that none *)
(* of them offers. And what it reloads reads a key that one of those rows  *)
(* has provided again. So the n-th pass needs a chain of n rows, each      *)
(* reading a key of the row before it, all different because a settle      *)
(* reloads a row once.                                                     *)
(***************************************************************************)
ReadsOf(r) == Inject[r.plugin] \cup Optional[r.plugin]

Linked(f, n) ==
  /\ \A i, j \in 1 .. n : f[i] = f[j] => i = j
  /\ \A i \in 1 .. n - 1 : Offers[f[i].plugin] \cap ReadsOf(f[i + 1]) # {}

\* In no tree is there a chain of as many rows as settle has passes, but one.
ShortChains ==
  /\ PassCap > 1
  /\ \A t \in Trees \cup {{}} : \A f \in [1 .. PassCap - 1 -> t] : ~Linked(f, PassCap - 1)

\* The rows of S where a chain of n rows of S ends.
Reached(S, n) == {x \in S : \E f \in [1 .. n -> S] : Linked(f, n) /\ f[n] = x}

LEMMA ReachedMore ==
  ASSUME NEW S, NEW T, S \subseteq T, NEW n \in Nat
  PROVE  Reached(S, n) \subseteq Reached(T, n)
<1> SUFFICES ASSUME NEW x \in Reached(S, n) PROVE x \in Reached(T, n)
  OBVIOUS
<1>1. PICK f \in [1 .. n -> S] : Linked(f, n) /\ f[n] = x
  BY DEF Reached
<1>2. f \in [1 .. n -> T]
  OBVIOUS
<1> QED
  BY <1>1, <1>2 DEF Reached

LEMMA ReachedOne ==
  ASSUME NEW S, NEW x \in S
  PROVE  x \in Reached(S, 1)
<1> DEFINE f == [i \in 1 .. 1 |-> x]
<1>1. f \in [1 .. 1 -> S] /\ f[1] = x
  OBVIOUS
<1>2. Linked(f, 1)
  BY DEF Linked
<1> QED
  BY <1>1, <1>2 DEF Reached

LEMMA ReachedNext ==
  ASSUME NEW S, NEW n \in Nat \ {0}, NEW x \in Reached(S, n), NEW d, d \notin S,
         Offers[x.plugin] \cap ReadsOf(d) # {}
  PROVE  d \in Reached(S \cup {d}, n + 1)
<1> PICK f \in [1 .. n -> S] : Linked(f, n) /\ f[n] = x
  BY DEF Reached
<1> DEFINE g == [i \in 1 .. n + 1 |-> IF i = n + 1 THEN d ELSE f[i]]
<1>1. /\ g \in [1 .. n + 1 -> S \cup {d}] /\ g[n + 1] = d
      /\ \A i \in 1 .. n : g[i] = f[i] /\ f[i] \in S
  OBVIOUS
<1> HIDE DEF g
<1>2. \A i, j \in 1 .. n + 1 : g[i] = g[j] => i = j
  BY <1>1 DEF Linked
<1>3. ASSUME NEW i \in 1 .. n PROVE Offers[g[i].plugin] \cap ReadsOf(g[i + 1]) # {}
  <2>1. CASE i = n
    BY <1>1, <2>1
  <2>2. CASE i # n
    <3>1. i \in 1 .. n - 1 /\ i + 1 \in 1 .. n
      BY <2>2
    <3> QED
      BY <1>1, <3>1 DEF Linked
  <2> QED
    BY <2>1, <2>2
<1>4. Linked(g, n + 1)
  BY <1>2, <1>3 DEF Linked
<1> QED
  BY <1>1, <1>4 DEF Reached

\* A row observes and wants nothing but what its plugin reads.
Looked(s) == s.observed \cup s.wants \subseteq ReadsOf(s.row)

AllLooked ==
  /\ \A r \in rows : Looked(r)
  /\ \A m \in Mounters : pc[m] \in ApplyPCs => Looked(st[m])

\* A mounted row provides what its plugin offers, and nothing else.
Provisions ==
  /\ \A r \in rows : r.provides = Offers[r.row.plugin]
  /\ \A m \in Mounters : pc[m] \in {"get", "provide"} =>
       st[m].provides \cup unprovided[m] = Offers[st[m].row.plugin]

\* What was touched after a row's mount was touched by another row.
Touched ==
  \A r \in rows, k \in Keys : touches[k] > r.mountSeq => providerOf[k] # r.row.id

Told == AllLooked /\ Provisions /\ Touched

\* What a row watches is what its plugin reads; and what is told is stale.
LEMMA WatchedReads ==
  ASSUME NEW r \in RowState, Looked(r)
  PROVE  Watched(r) \subseteq ReadsOf(r.row) /\ Watched(r) \subseteq Keys
  BY KernelAssumption DEF Looked, Watched, ReadsOf, RowState, Row

LEMMA StaleTouched ==
  ASSUME TypeOK, AllLooked, Touched, NEW r \in rows
  PROVE  Stale(r) <=> \E k \in Watched(r) : touches[k] > r.mountSeq
<1>1. Watched(r) \subseteq Keys
  BY WatchedReads DEF AllLooked, TypeOK
<1> QED
  BY <1>1 DEF Stale, Touched
LEMMA LookedStep ==
  ASSUME Single, TypeInv, AllLooked, [Next]_vars
  PROVE  AllLooked'
<1> USE DEF TypeInv
<1>1. ASSUME NEW m \in Mounters, BeginApply(m) PROVE AllLooked'
  <2> PICK r \in todo[m] : st' = [st EXCEPT ![m] = Fresh(r, insts + 1)]
    BY <1>1 DEF BeginApply
  <2>1. rows' = rows /\ st'[m] = Fresh(r, insts + 1)
    BY <1>1 DEF BeginApply, TypeOK, tree
  <2>2. Looked(Fresh(r, insts + 1))
    BY DEF Looked, ReadsOf, Fresh
  <2> QED
    BY <2>1, <2>2 DEF AllLooked, Looked, ReadsOf, Single
<1>2. ASSUME NEW m \in Mounters, ApplyGet(m) PROVE AllLooked'
  <2> DEFINE s == st[m]
             b == (applier = m)
             read == Inject[s.row.plugin] \cup Optional[s.row.plugin]
             hits == {k \in read : services[k] # Absent}
  <2>1. s \in RowState /\ rows' = rows /\ st'[m] = Reading(s, b)
    BY <1>2 DEF ApplyGet, InHand, ApplyPCs, TypeOK, tree
  <2>2. /\ Reading(s, b).row = s.row
        /\ Reading(s, b).observed = IF b THEN hits ELSE {}
        /\ Reading(s, b).wants = IF b THEN read \ hits ELSE {}
    BY <2>1 DEF Reading, RowState
  <2> HIDE DEF s, b
  <2>3. Reading(s, b).observed \cup Reading(s, b).wants \subseteq read
    BY <2>2
  <2>4. Looked(Reading(s, b))
    BY <2>2, <2>3 DEF Looked, ReadsOf
  <2> QED
    BY <2>1, <2>4 DEF AllLooked, Looked, ReadsOf, Single
<1>3. ASSUME NEW m \in Mounters, NEW k \in Keys, Provide(m, k) PROVE AllLooked'
  <2> DEFINE s == st[m]
             P == s.provides \cup IF applier = m THEN {k} ELSE {}
  <2>1. /\ s \in RowState /\ rows' = rows /\ pc[m] \in ApplyPCs
        /\ st'[m] = [s EXCEPT !.provides = P]
    BY <1>3 DEF Provide, Giving, InHand, ApplyPCs, TypeOK, tree
  <2> HIDE DEF P
  <2>2. /\ st'[m].observed = s.observed /\ st'[m].wants = s.wants
        /\ st'[m].row = s.row
    BY <2>1 DEF RowState
  <2>3. Looked(st'[m])
    BY <2>1, <2>2 DEF AllLooked, Looked, ReadsOf
  <2> QED
    BY <2>1, <2>3 DEF AllLooked, Looked, ReadsOf, Single
<1>4. ASSUME NEW m \in Mounters, ApplyOK(m) PROVE AllLooked'
  <2> DEFINE s == Mounted(st[m], seq + 1)
  <2>1. st[m] \in RowState /\ pc[m] \in ApplyPCs /\ pc'[m] = "visit"
    BY <1>4 DEF ApplyOK, InHand, ApplyPCs, TypeOK, Goto
  <2>2. s.observed = st[m].observed /\ s.wants = st[m].wants /\ s.row = st[m].row
    BY <2>1 DEF Mounted, RowState
  <2>3. rows' = rows \cup {s}
    BY <1>4 DEF ApplyOK
  <2> HIDE DEF s
  <2>4. Looked(s)
    BY <2>1, <2>2 DEF AllLooked, Looked, ReadsOf
  <2> QED
    BY <2>1, <2>3, <2>4 DEF AllLooked, Looked, ReadsOf, Single, ApplyPCs
<1>5. ASSUME NEW m \in Mounters, ApplyErr(m) \/ Undo(m) PROVE AllLooked'
  <2>1. pc[m] \in ApplyPCs /\ st' = st /\ rows' \subseteq rows
    BY <1>5, DisposeIs DEF ApplyErr, Undo, ApplyPCs, tree
  <2> QED
    BY <2>1 DEF AllLooked, Looked, ReadsOf, Single
<1>6. ASSUME NEW m \in Mounters,
             \/ \E t \in Trees : Mount(m, t) \/ Reconcile(m, t)
             \/ (\E id \in RowIds : RemountCall(m, id)) \/ Remount(m)
             \/ Drop(m) \/ Scan(m) \/ Skip(m) \/ MountedAll(m) \/ Fail(m)
             \/ MarkStale(m) \/ Reload(m) \/ NextPass(m) \/ Return(m)
      PROVE  AllLooked'
  <2>1. rows' \subseteq rows
    BY <1>6, DisposeIs DEF Mount, Reconcile, RemountCall, Remount, Diff, Drop, Scan,
       Skip, MountedAll, Fail, MarkStale, Reload, NextPass, Return, tree
  <2>2. pc'[m] \notin ApplyPCs
    BY <1>6 DEF Mount, Reconcile, RemountCall, Remount, Diff, Drop, Scan, Skip,
       MountedAll, Fail, MarkStale, Reload, NextPass, Return, Goto, TypeOK, ApplyPCs
  <2> QED
    BY <2>1, <2>2 DEF AllLooked, Looked, ReadsOf, Single
<1>7. CASE UNCHANGED vars
  BY <1>7 DEF vars, tree, locals, AllLooked, Looked
<1> QED
  <2>1. ASSUME NEW m \in Mounters, Enter(m) \/ Run(m) PROVE AllLooked'
    BY <2>1, <1>1, <1>2, <1>3, <1>4, <1>5, <1>6 DEF Enter, Run
  <2> QED
    BY <2>1, <1>7 DEF Next


\* What every disposal leaves as it was.
LEMMA DisposeTold ==
  ASSUME TypeOK, NEW r, DisposeRow(r)
  PROVE  /\ rows' \subseteq rows /\ touches' = touches
         /\ \A k \in Keys : providerOf'[k] \in {providerOf[k], Ctx}
         /\ \A k \in Keys : services[k] = Absent => services'[k] = Absent
  BY DEF DisposeRow, TypeOK

LEMMA ToldStep ==
  ASSUME Single, TypeInv, SafeInv, Told, [Next]_vars
  PROVE  Told'
<1> USE DEF TypeInv
<1>0. AllLooked'
  BY LookedStep DEF Told
<1>1. ASSUME NEW m \in Mounters,
             \/ \E t \in Trees : Mount(m, t) \/ Reconcile(m, t)
             \/ (\E id \in RowIds : RemountCall(m, id)) \/ Remount(m)
             \/ Drop(m) \/ Scan(m) \/ Skip(m) \/ MountedAll(m) \/ ApplyErr(m) \/ Undo(m)
             \/ Fail(m) \/ MarkStale(m) \/ Reload(m) \/ NextPass(m) \/ Return(m)
      PROVE  Provisions' /\ Touched'
  <2>1. /\ rows' \subseteq rows /\ touches' = touches
        /\ \A k \in Keys : providerOf'[k] \in {providerOf[k], Ctx}
    BY <1>1, DisposeTold DEF Mount, Reconcile, RemountCall, Remount, Diff, Drop, Scan,
       Skip, MountedAll, ApplyErr, Undo, Fail, MarkStale, Reload, NextPass, Return,
       tree, wiring
  <2>2. pc'[m] \notin {"get", "provide"}
    BY <1>1 DEF Mount, Reconcile, RemountCall, Remount, Diff, Drop, Scan, Skip,
       MountedAll, ApplyErr, Undo, Fail, MarkStale, Reload, NextPass, Return, Goto, TypeOK
  <2>3. Provisions'
    BY <2>1, <2>2 DEF Told, Provisions, Single
  <2>4. Touched'
    BY <2>1, KernelAssumption DEF Told, Touched, TypeOK, RowState, Row
  <2> QED
    BY <2>3, <2>4
<1>2. ASSUME NEW m \in Mounters, BeginApply(m) PROVE Provisions' /\ Touched'
  <2> PICK r \in todo[m] : /\ st' = [st EXCEPT ![m] = Fresh(r, insts + 1)]
                           /\ unprovided' = [unprovided EXCEPT ![m] = Offers[r.plugin]]
    BY <1>2 DEF BeginApply
  <2>1. /\ UNCHANGED <<rows, providerOf, touches>>
        /\ st'[m].row = r /\ st'[m].provides = {} /\ unprovided'[m] = Offers[r.plugin]
    BY <1>2, FreshIs DEF BeginApply, TypeOK, tree, wiring
  <2> QED
    BY <2>1 DEF Told, Provisions, Touched, Single
<1>3. ASSUME NEW m \in Mounters, ApplyGet(m) PROVE Provisions' /\ Touched'
  <2> PICK t : t = Reading(st[m], applier = m)
    OBVIOUS
  <2>1. /\ st[m] \in RowState /\ pc[m] = "get" /\ st'[m] = t
        /\ UNCHANGED <<rows, providerOf, touches, unprovided>>
    BY <1>3 DEF ApplyGet, InHand, ApplyPCs, TypeOK, tree, wiring
  <2>2. t.row = st[m].row /\ t.provides = st[m].provides
    BY <2>1, ReadingIs
  <2>3. t.provides \cup unprovided[m] = Offers[t.row.plugin]
    BY <2>1, <2>2 DEF Told, Provisions
  <2> QED
    BY <2>1, <2>3 DEF Told, Provisions, Touched, Single
<1>4. ASSUME NEW m \in Mounters, NEW x \in Keys, Provide(m, x)
      PROVE  Provisions' /\ Touched'
  <2> PICK t : t = Giving(st[m], x, applier = m)
    OBVIOUS
  <2>1. /\ st[m] \in RowState /\ pc[m] = "provide" /\ rows' = rows
        /\ applier = m /\ x \in unprovided[m] /\ unprovided'[m] = unprovided[m] \ {x}
        /\ providerOf' = [providerOf EXCEPT ![x] = st[m].row.id]
        /\ touches' = [touches EXCEPT ![x] = seq + 1]
    BY <1>4 DEF Provide, InHand, ApplyPCs, TypeOK, tree, SafeInv, Attributed
  <2>2. st'[m] = t
    <3>1. st' = [st EXCEPT ![m] = Giving(st[m], x, applier = m)]
      BY <1>4 DEF Provide
    <3> QED
      BY <3>1 DEF TypeOK
  <2>3. t.row = st[m].row /\ t.provides = st[m].provides \cup {x}
    BY <2>1, GivingIs
  <2>4. t.provides \cup unprovided'[m] = Offers[t.row.plugin]
    BY <2>1, <2>3 DEF Told, Provisions
  <2>5. Provisions'
    BY <2>1, <2>4, <2>2 DEF Told, Provisions, Single
  <2>6. \A r \in rows : r.row.id # st[m].row.id
    BY <2>1 DEF SafeInv, Queue, Mountable, ApplyPCs, ActiveIds
  <2>7. Touched'
    BY <2>1, <2>6 DEF Told, Touched, TypeOK
  <2> QED
    BY <2>5, <2>7
<1>5. ASSUME NEW m \in Mounters, ApplyOK(m) PROVE Provisions' /\ Touched'
  <2> PICK t : t = Mounted(st[m], seq + 1)
    OBVIOUS
  <2>1. /\ st[m] \in RowState /\ pc[m] = "provide" /\ pc'[m] = "visit"
        /\ unprovided[m] = {} /\ rows' = rows \cup {t} /\ UNCHANGED <<touches, providerOf>>
    BY <1>5 DEF ApplyOK, InHand, ApplyPCs, TypeOK, Goto
  <2>2. t.row = st[m].row /\ t.provides = st[m].provides /\ t.mountSeq = seq + 1
    <3>1. seq + 1 \in Nat
      BY DEF TypeOK
    <3> QED
      BY <2>1, <3>1, MountedIs
  <2>3. t.provides = Offers[t.row.plugin]
    BY <2>1, <2>2 DEF Told, Provisions
  <2>4. Provisions'
    BY <2>1, <2>3 DEF Told, Provisions, Single
  <2>5. \A k \in Keys : ~(touches[k] > t.mountSeq)
    BY <2>2 DEF TypeOK
  <2>6. Touched'
    BY <2>1, <2>5 DEF Told, Touched
  <2> QED
    BY <2>4, <2>6
<1>6. CASE UNCHANGED vars
  BY <1>0, <1>6 DEF vars, tree, wiring, locals, Told, Provisions, Touched
<1> QED
  <2>1. ASSUME NEW m \in Mounters, Enter(m) \/ Run(m) PROVE Provisions' /\ Touched'
    BY <2>1, <1>1, <1>2, <1>3, <1>4, <1>5 DEF Enter, Run
  <2> QED
    BY <2>1, <1>0, <1>6 DEF Next, Told

SettlePCs == {"scan", "stale"} \cup VisitPCs

\* The rows this settle has reloaded.
Done(m) == {d \in desired : d.id \in remounted[m]}

\* A pending row outside L lacks a key that no row of L offers.
Locked(L) ==
  \A d \in PendingDesired \ L : \E k \in Inject[d.plugin] :
    services[k] = Absent /\ \A x \in L : k \notin Offers[x.plugin]

\* What r watches and was touched after its mount, a row of L offers.
TouchedBy(L, r) ==
  \A k \in Watched(r) : touches[k] > r.mountSeq => \E x \in L : k \in Offers[x.plugin]

\* A pass after the first mounts rows of L, those reloaded in the pass before.
Passing(m, L) ==
  /\ L \subseteq Reached(Done(m), pass[m])
  /\ Locked(L)
  /\ pc[m] \in ApplyPCs => st[m].row \in L
  /\ progressed[m] \/ (pc[m] = "visit" /\ mountedAny[m]) => L # {}
  /\ \A r \in rows : r.row.id \notin remounted[m] => TouchedBy(L, r)

\* It has reloaded those of L, and goes on to rows that a chain leads to.
Reloading(m, L) ==
  /\ L \subseteq Reached(Done(m), pass[m] + 1)
  /\ Locked(L)
  /\ doomed[m] \subseteq rows
  /\ \A r \in doomed[m] :
       /\ r.row.id \notin remounted[m]
       /\ \/ pass[m] = 0
          \/ \E x \in Reached(Done(m), pass[m]) : Offers[x.plugin] \cap ReadsOf(r.row) # {}
  /\ \A r \in rows \ doomed[m] : r.row.id \notin remounted[m] => TouchedBy({}, r)
  /\ progressed[m] => pass[m] = 0 \/ Reached(Done(m), pass[m]) # {}

InPassOf(m) ==
  /\ pass[m] < PassCap
  /\ pc[m] = "drop" => pass[m] = 0
  /\ pc[m] \in SettlePCs => pass[m] = 0 \/ \E L \in SUBSET desired : Passing(m, L)
  /\ pc[m] = "reload" => \E L \in SUBSET desired : Reloading(m, L)

InPass == \A m \in Mounters : InPassOf(m)

\* A mount phase goes on with the same rows to mount.
LEMMA PassingKept ==
  ASSUME TypeOK, AllLooked, NEW m \in Mounters, NEW L, Passing(m, L),
         UNCHANGED desired, remounted'[m] = remounted[m], pass'[m] = pass[m],
         PendingDesired' \subseteq PendingDesired,
         \A k \in Keys : \/ services[k] = Absent => services'[k] = Absent
                         \/ \E x \in L : k \in Offers[x.plugin],
         \A k \in Keys : touches'[k] = touches[k] \/ \E x \in L : k \in Offers[x.plugin],
         \A r \in rows' \ rows : \A k \in Watched(r) : ~(touches'[k] > r.mountSeq),
         pc'[m] \in ApplyPCs => st'[m].row \in L,
         progressed'[m] \/ (pc'[m] = "visit" /\ mountedAny'[m]) => L # {}
  PROVE  Passing(m, L)'
<1>1. Done(m)' = Done(m)
  BY DEF Done
<1>2. Locked(L)'
  <2> SUFFICES ASSUME NEW d \in PendingDesired' \ L
               PROVE  \E k \in Inject[d.plugin] :
                        services'[k] = Absent /\ \A x \in L : k \notin Offers[x.plugin]
    BY DEF Locked
  <2>1. PICK k \in Inject[d.plugin] :
          services[k] = Absent /\ \A x \in L : k \notin Offers[x.plugin]
    BY DEF Passing, Locked
  <2>2. k \in Keys
    BY KernelAssumption DEF PendingDesired, TypeOK, Row
  <2> QED
    BY <2>1, <2>2
<1>3. ASSUME NEW r \in rows', r.row.id \notin remounted[m] PROVE TouchedBy(L, r)'
  <2>1. CASE r \in rows
    <3>1. TouchedBy(L, r) /\ Watched(r) \subseteq Keys
      BY <1>3, <2>1, WatchedReads DEF Passing, AllLooked, TypeOK
    <3> QED
      BY <3>1 DEF TouchedBy, Watched
  <2>2. CASE r \notin rows
    BY <1>3, <2>2 DEF TouchedBy, Watched
  <2> QED
    BY <2>1, <2>2
<1> QED
  BY <1>1, <1>2, <1>3 DEF Passing

\* Where a reload phase begins.
LEMMA MarkPass ==
  ASSUME Single, TypeInv, SafeInv, Told, InPass, NEW m \in Mounters, MarkStale(m)
  PROVE  InPassOf(m)'
<1> USE DEF TypeInv
<1>1. /\ UNCHANGED <<desired, rows, failed, services, touches, providerOf, remounted, pass>>
      /\ UNCHANGED progressed
      /\ pc[m] = "stale" /\ pc'[m] = "reload" /\ doomed'[m] = StaleRows(remounted[m])
  BY DEF MarkStale, Goto, TypeOK, tree, wiring
<1>2. Waiting
  BY <1>1 DEF SafeInv, Visited
<1>3. Locked({})'
  BY <1>1, <1>2 DEF Waiting, Missing, Locked, PendingDesired, ActiveIds, FailedIds
<1>4. pass[m] = 0 \/ \E L \in SUBSET desired : Passing(m, L)
  BY <1>1 DEF InPass, InPassOf, SettlePCs
<1>5. ASSUME NEW r \in StaleRows(remounted[m]), pass[m] # 0
      PROVE  \E x \in Reached(Done(m), pass[m]) : Offers[x.plugin] \cap ReadsOf(r.row) # {}
  <2>1. PICK L : Passing(m, L)
    BY <1>4, <1>5
  <2>2. r \in rows /\ r.row.id \notin remounted[m] /\ Stale(r)
    BY DEF StaleRows
  <2>3. PICK k \in Watched(r) : touches[k] > r.mountSeq
    BY <2>2, StaleTouched DEF Told
  <2>4. PICK x \in L : k \in Offers[x.plugin]
    BY <2>1, <2>2, <2>3 DEF Passing, TouchedBy
  <2>5. k \in ReadsOf(r.row)
    BY <2>2, <2>3, WatchedReads DEF Told, AllLooked, TypeOK
  <2> QED
    BY <2>1, <2>4, <2>5 DEF Passing
<1>6. ASSUME NEW r \in rows, r \notin StaleRows(remounted[m]), r.row.id \notin remounted[m]
      PROVE  TouchedBy({}, r)'
  <2>1. ~Stale(r)
    BY <1>6 DEF StaleRows
  <2>2. \A k \in Watched(r) : ~(touches[k] > r.mountSeq)
    BY <2>1, StaleTouched DEF Told
  <2> QED
    BY <1>1, <2>2 DEF TouchedBy, Watched
<1>7. progressed[m] => pass[m] = 0 \/ Reached(Done(m), pass[m]) # {}
  BY <1>4 DEF Passing
<1>8. Done(m)' = Done(m) /\ StaleRows(remounted[m]) \subseteq rows
      /\ \A r \in StaleRows(remounted[m]) : r.row.id \notin remounted[m]
  BY <1>1 DEF Done, StaleRows
<1>9. Reloading(m, {})'
  BY <1>1, <1>3, <1>5, <1>6, <1>7, <1>8 DEF Reloading
<1>10. pass'[m] < PassCap
  BY <1>1 DEF InPass, InPassOf
<1> QED
  BY <1>1, <1>9, <1>10 DEF InPassOf, SettlePCs, VisitPCs, ApplyPCs

\* A reload lengthens a chain by the row it reloads.
LEMMA ReloadPass ==
  ASSUME Single, TypeInv, SafeInv, Told, InPass, NEW m \in Mounters, Reload(m)
  PROVE  InPassOf(m)'
<1> USE DEF TypeInv
<1> DEFINE p == pass[m]
<1> PICK r \in doomed[m] : /\ DisposeRow(r)
                         /\ doomed' = [doomed EXCEPT ![m] = @ \ {r}]
                         /\ remounted' = [remounted EXCEPT ![m] = @ \cup {r.row.id}]
  BY DEF Reload
<1>1. /\ UNCHANGED <<desired, failed, pass, touches>> /\ pc[m] = "reload" /\ pc' = pc
      /\ rows' = rows \ {r} /\ doomed'[m] = doomed[m] \ {r}
      /\ remounted'[m] = remounted[m] \cup {r.row.id}
      /\ \A k \in Keys : services[k] = Absent => services'[k] = Absent
  BY DisposeTold DEF Reload, DisposeRow, TypeOK
<1>2. p \in Nat /\ p < PassCap
  BY DEF InPass, InPassOf, TypeOK
<1>3. PICK L \in SUBSET desired : Reloading(m, L)
  BY <1>1 DEF InPass, InPassOf
<1>4. r \in rows /\ r.row.id \notin remounted[m]
  BY <1>3 DEF Reloading
<1>5. PICK d \in desired : d.id = r.row.id /\ d.plugin = r.row.plugin
  BY <1>1, <1>4 DEF SafeInv, AsDesired, Wanted, SameSpec, Single
<1>6. Done(m)' = Done(m) \cup {d} /\ d \notin Done(m)
  <2>1. \A e \in desired : e.id = d.id => e = d
    BY DistinctIds DEF SafeInv
  <2> QED
    BY <1>1, <1>4, <1>5, <2>1 DEF Done
<1>7. d \in Reached(Done(m)', p + 1)
  <2>1. CASE p = 0
    BY <1>6, <2>1, ReachedOne
  <2>2. CASE p # 0
    <3>1. PICK x \in Reached(Done(m), p) : Offers[x.plugin] \cap ReadsOf(r.row) # {}
      BY <1>3, <2>2 DEF Reloading
    <3>2. ReadsOf(d) = ReadsOf(r.row)
      BY <1>5 DEF ReadsOf
    <3> QED
      BY <1>2, <1>6, <2>2, <3>1, <3>2, ReachedNext
  <2> QED
    BY <2>1, <2>2
<1>8. /\ Reached(Done(m), p + 1) \subseteq Reached(Done(m)', p + 1)
      /\ Reached(Done(m), p) \subseteq Reached(Done(m)', p)
  <2>1. Done(m) \subseteq Done(m)' /\ p + 1 \in Nat
    BY <1>2, <1>6
  <2> QED
    BY <1>2, <2>1, ReachedMore
<1> DEFINE M == L \cup {d}
<1>9. M \in SUBSET desired /\ M \subseteq Reached(Done(m)', p + 1)
  BY <1>3, <1>7, <1>8 DEF Reloading
<1>10. Locked(M)'
  <2> SUFFICES ASSUME NEW e \in PendingDesired', e \notin M
               PROVE  \E k \in Inject[e.plugin] :
                        services'[k] = Absent /\ \A x \in M : k \notin Offers[x.plugin]
    BY DEF Locked
  <2>1. e \in desired /\ e.id # r.row.id
    BY <1>1, <1>5, DistinctIds DEF PendingDesired, SafeInv
  <2>2. e \in PendingDesired
    BY <1>1, <2>1 DEF PendingDesired, ActiveIds, FailedIds
  <2>3. PICK k \in Inject[e.plugin] :
          services[k] = Absent /\ \A x \in L : k \notin Offers[x.plugin]
    BY <1>3, <2>2 DEF Reloading, Locked
  <2>4. k \in Keys
    BY <2>1, KernelAssumption DEF TypeOK, Row
  <2>5. k \notin Offers[d.plugin]
    <3>1. r \in Live /\ r.provides = Offers[d.plugin]
      BY <1>4, <1>5 DEF Live, Told, Provisions
    <3> QED
      BY <2>3, <3>1 DEF SafeInv, ProvidedPresent
  <2> QED
    BY <1>1, <2>3, <2>4, <2>5
<1>11. ASSUME NEW q \in doomed[m] \ {r}
       PROVE  /\ q \in rows \ {r} /\ q.row.id \notin remounted'[m]
              /\ \/ p = 0
                 \/ \E x \in Reached(Done(m)', p) : Offers[x.plugin] \cap ReadsOf(q.row) # {}
  <2>1. /\ q \in rows \ {r} /\ q.row.id \notin remounted[m]
        /\ p = 0 \/ \E x \in Reached(Done(m), p) : Offers[x.plugin] \cap ReadsOf(q.row) # {}
    BY <1>3 DEF Reloading
  <2>2. q.row.id # r.row.id
    BY <1>4, <2>1 DEF SafeInv, OneMountPerRow
  <2> QED
    BY <1>1, <1>8, <2>1, <2>2
<1>12. ASSUME NEW q \in rows \ {r}, q \notin doomed[m] \ {r}, q.row.id \notin remounted'[m]
       PROVE  TouchedBy({}, q)'
  <2>1. TouchedBy({}, q)
    BY <1>1, <1>3, <1>12 DEF Reloading
  <2> QED
    BY <1>1, <2>1 DEF TouchedBy, Watched
<1>13. p = 0 \/ Reached(Done(m)', p) # {}
  <2>1. p # 0 => Reached(Done(m), p) # {}
    BY <1>3 DEF Reloading
  <2> QED
    BY <1>8, <2>1
<1>14. pass'[m] = p
  BY <1>1
<1> HIDE DEF M, p
<1>15. (\E N \in SUBSET desired' : Reloading(m, N)')
  BY <1>1, <1>9, <1>10, <1>11, <1>12, <1>13, <1>14 DEF Reloading
<1> QED
  BY <1>1, <1>2, <1>14, <1>15 DEF InPassOf, SettlePCs, VisitPCs, ApplyPCs

\* A tree has no chain for a settle that comes to its cap.
LEMMA NoLongChain ==
  ASSUME ShortChains, DesiredTree, NEW S, S \subseteq desired
  PROVE  Reached(S, PassCap - 1) = {}
<1> SUFFICES ASSUME NEW x \in Reached(S, PassCap - 1) PROVE FALSE
  OBVIOUS
<1> PICK f \in [1 .. PassCap - 1 -> S] : Linked(f, PassCap - 1)
  BY DEF Reached
<1>1. f \in [1 .. PassCap - 1 -> desired] /\ desired \in Trees \cup {{}}
  BY DEF DesiredTree
<1> QED
  BY <1>1 DEF ShortChains

\* The end of a pass.
LEMMA EndPass ==
  ASSUME Single, ShortChains, TypeInv, SafeInv, Told, InPass, NEW m \in Mounters,
         NextPass(m) \/ Return(m)
  PROVE  InPassOf(m)'
<1> USE DEF TypeInv
<1>1. /\ UNCHANGED <<desired, rows, failed, services, touches>>
      /\ pc[m] = "reload" /\ doomed[m] = {}
  BY DEF NextPass, Return, tree, wiring
<1>2. PICK L \in SUBSET desired : Reloading(m, L)
  BY <1>1 DEF InPass, InPassOf
<1>3. pass[m] \in Nat /\ pass[m] < PassCap /\ PassCap \in Nat
  BY KernelAssumption DEF InPass, InPassOf, TypeOK
<1>4. CASE NextPass(m)
  <2>1. /\ pass'[m] = pass[m] + 1 /\ pass[m] + 1 < PassCap /\ ~progressed'[m]
        /\ pc'[m] = "scan" /\ remounted' = remounted
    BY <1>4 DEF NextPass, Goto, TypeOK
  <2>2. Done(m)' = Done(m) /\ Locked(L)'
    BY <1>1, <1>2, <2>1 DEF Done, Reloading, Locked, PendingDesired, ActiveIds, FailedIds
  <2>3. ASSUME NEW r \in rows, r.row.id \notin remounted[m] PROVE TouchedBy(L, r)'
    BY <1>1, <1>2, <2>3 DEF Reloading, TouchedBy, Watched
  <2>4. Passing(m, L)'
    BY <1>1, <1>2, <2>1, <2>2, <2>3 DEF Reloading, Passing, ApplyPCs
  <2> QED
    BY <1>1, <1>2, <2>1, <2>4 DEF InPassOf, SettlePCs, VisitPCs, ApplyPCs
<1>5. CASE Return(m)
  <2>1. /\ pc'[m] \in {"idle", "dead"} /\ (~progressed[m] \/ pass[m] + 1 >= PassCap)
        /\ pass'[m] = IF progressed[m] THEN PassCap ELSE 0
    <3>1. pc \in [Mounters -> PCs] /\ pass \in [Mounters -> Nat]
      BY DEF TypeOK
    <3>2. /\ ~progressed[m] \/ pass[m] + 1 >= PassCap
          /\ pass' = [pass EXCEPT ![m] = IF progressed[m] THEN PassCap ELSE 0]
          /\ pc' = [pc EXCEPT ![m] = "dead"] \/ pc' = [pc EXCEPT ![m] = "idle"]
      BY <1>5 DEF Return, Goto
    <3> QED
      BY <3>1, <3>2
  <2>2. ~progressed[m]
    <3> SUFFICES ASSUME progressed[m] PROVE FALSE
      OBVIOUS
    <3>1. pass[m] = PassCap - 1 /\ pass[m] # 0
      BY <1>3, <2>1 DEF ShortChains
    <3>2. Reached(Done(m), PassCap - 1) # {}
      BY <1>2, <3>1 DEF Reloading
    <3>3. Done(m) \subseteq desired
      BY DEF Done
    <3> QED
      BY <3>2, <3>3, NoLongChain DEF SafeInv
  <2> QED
    BY <1>3, <2>1, <2>2 DEF InPassOf, SettlePCs, VisitPCs, ApplyPCs
<1> QED
  BY <1>4, <1>5

\* The steps of a mount phase.
LEMMA MountPass ==
  ASSUME Single, TypeInv, SafeInv, Told, InPass, NEW m \in Mounters,
         \/ Scan(m) \/ Skip(m) \/ BeginApply(m) \/ MountedAll(m) \/ ApplyGet(m)
         \/ (\E k \in Keys : Provide(m, k)) \/ ApplyOK(m) \/ ApplyErr(m) \/ Undo(m) \/ Fail(m)
  PROVE  InPassOf(m)'
<1> USE DEF TypeInv
<1>1. /\ UNCHANGED <<desired, remounted, pass>> /\ pc[m] \in SettlePCs
      /\ pc'[m] \in SettlePCs \cup {"dead"}
  BY DEF Scan, Skip, BeginApply, MountedAll, ApplyGet, Provide, ApplyOK, ApplyErr,
     Undo, Fail, Goto, TypeOK, tree, SettlePCs, VisitPCs, ApplyPCs
<1>2. CASE pass[m] = 0
  <2>1. pass'[m] = 0 /\ pass'[m] < PassCap
    BY <1>1, <1>2 DEF InPass, InPassOf
  <2> QED
    BY <1>1, <2>1 DEF InPassOf, SettlePCs, VisitPCs, ApplyPCs
<1>3. CASE pass[m] # 0
  <2> PICK L \in SUBSET desired : Passing(m, L)
    BY <1>1, <1>3 DEF InPass, InPassOf
  <2>1. pc[m] \in ApplyPCs => /\ st[m] \in RowState /\ st[m].row \in L
                              /\ \A q \in rows : q.row.id # st[m].row.id
    BY DEF InHand, Passing, SafeInv, Queue, Mountable, ActiveIds
  <2>2. pc'[m] \in ApplyPCs => st'[m].row \in L
    <3>1. CASE BeginApply(m)
      <4> PICK r \in todo[m] : /\ Missing(r.plugin) = {}
                               /\ st' = [st EXCEPT ![m] = Fresh(r, insts + 1)]
        BY <3>1 DEF BeginApply
      <4>1. st'[m].row = r /\ pc[m] = "visit"
        BY <3>1, FreshIs DEF BeginApply, TypeOK
      <4>2. r \in PendingDesired
        BY <4>1 DEF SafeInv, Queue, Mountable, PendingDesired
      <4>3. r \in L
        BY <4>2 DEF Passing, Locked, Missing
      <4> QED
        BY <4>1, <4>3
    <3>2. CASE ApplyGet(m)
      <4>1. pc[m] = "get" /\ st'[m] = Reading(st[m], applier = m)
        BY <3>2 DEF ApplyGet, TypeOK
      <4> QED
        BY <2>1, <4>1, ReadingIs DEF ApplyPCs
    <3>3. CASE \E k \in Keys : Provide(m, k)
      <4> PICK k \in Keys : Provide(m, k)
        BY <3>3
      <4> PICK t : t = Giving(st[m], k, applier = m)
        OBVIOUS
      <4>1. pc[m] = "provide" /\ st'[m] = t
        <5>1. st' = [st EXCEPT ![m] = t] /\ pc[m] = "provide"
          BY DEF Provide
        <5> QED
          BY <5>1 DEF TypeOK
      <4>2. st[m] \in RowState
        BY <2>1, <4>1 DEF ApplyPCs
      <4>3. t.row = st[m].row
        BY <4>2, GivingIs
      <4> QED
        BY <2>1, <4>1, <4>3 DEF ApplyPCs
    <3>4. CASE ApplyErr(m) \/ Undo(m)
      BY <2>1, <3>4 DEF ApplyErr, Undo, ApplyPCs
    <3>5. CASE Scan(m) \/ Skip(m) \/ MountedAll(m) \/ ApplyOK(m) \/ Fail(m)
      BY <3>5 DEF Scan, Skip, MountedAll, ApplyOK, Fail, Goto, TypeOK, ApplyPCs
    <3> QED
      BY <3>1, <3>2, <3>3, <3>4, <3>5
  <2>3. PendingDesired' \subseteq PendingDesired
    <3>1. rows \subseteq rows' /\ FailedIds \subseteq FailedIds'
      <4>1. CASE Undo(m)
        <5>1. rows' = rows \ {st[m]} /\ st[m] \notin rows /\ failed' = failed
          BY <2>1, <4>1 DEF Undo, DisposeRow, ApplyPCs
        <5> QED
          BY <5>1 DEF FailedIds
      <4>2. CASE Fail(m)
        BY <4>2 DEF Fail, FailedIds
      <4>3. CASE ~Undo(m) /\ ~Fail(m)
        BY <4>3 DEF Scan, Skip, BeginApply, MountedAll, ApplyGet, Provide, ApplyOK,
           ApplyErr, tree, FailedIds
      <4> QED
        BY <4>1, <4>2, <4>3
    <3> QED
      BY <1>1, <3>1 DEF PendingDesired, ActiveIds
  <2>4. /\ \A k \in Keys : \/ services[k] = Absent => services'[k] = Absent
                           \/ \E x \in L : k \in Offers[x.plugin]
        /\ \A k \in Keys : touches'[k] = touches[k] \/ \E x \in L : k \in Offers[x.plugin]
    <3>1. CASE \E k \in Keys : Provide(m, k)
      <4> PICK x \in Keys : Provide(m, x)
        BY <3>1
      <4>1. /\ pc[m] = "provide" /\ x \in unprovided[m]
            /\ \A k \in Keys : k # x => services'[k] = services[k] /\ touches'[k] = touches[k]
        BY DEF Provide, TypeOK
      <4>2. x \in Offers[st[m].row.plugin]
        BY <4>1 DEF Told, Provisions
      <4> QED
        BY <2>1, <4>1, <4>2 DEF ApplyPCs
    <3>2. CASE ~\E k \in Keys : Provide(m, k)
      BY <3>2, DisposeTold DEF Scan, Skip, BeginApply, MountedAll, ApplyGet, ApplyOK,
         ApplyErr, Undo, Fail, wiring
    <3> QED
      BY <3>1, <3>2
  <2>5. \A r \in rows' \ rows : \A k \in Watched(r) : ~(touches'[k] > r.mountSeq)
    <3>1. CASE ApplyOK(m)
      <4> PICK t : t = Mounted(st[m], seq + 1)
        OBVIOUS
      <4>1. /\ pc[m] = "provide" /\ rows' = rows \cup {t} /\ touches' = touches
            /\ seq + 1 \in Nat
        BY <3>1 DEF ApplyOK, TypeOK
      <4>2. t.mountSeq = seq + 1 /\ t \in RowState
        BY <2>1, <4>1, MountedIs DEF ApplyPCs
      <4>3. Watched(t) \subseteq Keys
        BY <4>2, KernelAssumption DEF Watched, RowState, Row
      <4> QED
        BY <4>1, <4>2, <4>3 DEF TypeOK
    <3>2. CASE ~ApplyOK(m)
      BY <3>2, DisposeTold DEF Scan, Skip, BeginApply, MountedAll, ApplyGet, Provide,
         ApplyErr, Undo, Fail, tree
    <3> QED
      BY <3>1, <3>2
  <2>6. progressed'[m] \/ (pc'[m] = "visit" /\ mountedAny'[m]) => L # {}
    <3>1. CASE pc[m] \in ApplyPCs
      BY <2>1, <3>1
    <3>2. CASE pc[m] \notin ApplyPCs
      BY <3>2 DEF Scan, Skip, BeginApply, MountedAll, ApplyGet, Provide, ApplyOK, ApplyErr,
         Undo, Fail, Goto, TypeOK, ApplyPCs, Passing
    <3> QED
      BY <3>1, <3>2
  <2>7. Passing(m, L)'
    BY <1>1, <2>2, <2>3, <2>4, <2>5, <2>6, PassingKept DEF Told
  <2>8. pass'[m] < PassCap
    BY <1>1 DEF InPass, InPassOf
  <2> QED
    BY <1>1, <2>7, <2>8 DEF InPassOf, SettlePCs, VisitPCs, ApplyPCs
<1> QED
  BY <1>2, <1>3

LEMMA InPassStep ==
  ASSUME Single, ShortChains, TypeInv, SafeInv, Told, InPass, [Next]_vars
  PROVE  InPass'
<1> USE DEF TypeInv
<1>1. ASSUME NEW m \in Mounters,
             (\E t \in Trees : Mount(m, t) \/ Reconcile(m, t)) \/ Remount(m)
      PROVE  InPassOf(m)'
  <2>1. pass'[m] = 0 /\ pc'[m] \in {"scan", "drop"}
    BY <1>1 DEF Mount, Reconcile, Remount, Diff, BeginSettle, Goto, TypeOK
  <2> QED
    BY <2>1, KernelAssumption DEF InPassOf
<1>2. ASSUME NEW m \in Mounters, (\E id \in RowIds : RemountCall(m, id)) \/ Drop(m)
      PROVE  InPassOf(m)'
  <2>1. pass'[m] = pass[m] /\ pass[m] < PassCap /\ (pc[m] = "drop" => pass[m] = 0)
    BY <1>2 DEF RemountCall, Drop, InPass, InPassOf
  <2>2. CASE Drop(m)
    <3>1. pc[m] = "drop" /\ pc'[m] \in {"drop", "scan"}
      BY <2>2 DEF Drop, Goto, TypeOK
    <3> QED
      BY <2>1, <3>1 DEF InPassOf
  <2>3. CASE ~Drop(m)
    <3>1. pc'[m] = "gate"
      BY <1>2, <2>3 DEF RemountCall, Goto, TypeOK
    <3> QED
      BY <2>1, <3>1 DEF InPassOf, SettlePCs, VisitPCs, ApplyPCs
  <2> QED
    BY <2>2, <2>3
<1>3. CASE UNCHANGED vars
  <2>1. /\ UNCHANGED <<tree, services, touches, st, pc, doomed, mountedAny>>
        /\ UNCHANGED <<progressed, remounted, pass>>
    BY <1>3 DEF vars, wiring, locals
  <2>2. /\ \A m : Done(m)' = Done(m)
        /\ \A L : Locked(L)' <=> Locked(L)
        /\ \A L, r : TouchedBy(L, r)' <=> TouchedBy(L, r)
    BY <2>1 DEF tree, Done, Locked, TouchedBy, PendingDesired, ActiveIds, FailedIds, Watched
  <2>3. ASSUME NEW m \in Mounters, NEW L
        PROVE  (Passing(m, L)' <=> Passing(m, L)) /\ (Reloading(m, L)' <=> Reloading(m, L))
    BY <2>1, <2>2 DEF tree, Passing, Reloading
  <2> QED
    BY <2>1, <2>3 DEF tree, InPass, InPassOf
<1> QED
  <2>1. ASSUME NEW m \in Mounters, Enter(m) \/ Run(m) PROVE InPassOf(m)'
    BY <2>1, <1>1, <1>2, MarkPass, ReloadPass, EndPass, MountPass DEF Enter, Run
  <2> QED
    BY <2>1, <1>3 DEF Next, InPass, Single

LEMMA AlwaysInPass ==
  ASSUME Single, ShortChains
  PROVE  Spec => [](TypeInv /\ SafeInv /\ Told /\ InPass)
<1>1. Init => Told /\ InPass
  <2> SUFFICES ASSUME Init PROVE Told /\ InPass
    OBVIOUS
  <2>1. /\ rows = {} /\ \A m \in Mounters : pc[m] = "idle" /\ pass[m] = 0
        /\ PassCap \in Nat \ {0}
    BY KernelAssumption DEF Init
  <2> QED
    BY <2>1 DEF Told, AllLooked, Provisions, Touched, ApplyPCs, InPass, InPassOf,
       SettlePCs, VisitPCs
<1>2. TypeInv /\ SafeInv /\ Told /\ InPass /\ [Next]_vars => (Told /\ InPass)'
  BY ToldStep, InPassStep
<1> QED
  BY <1>1, <1>2, AlwaysSafe, PTL DEF Spec

\* With one goroutine in the kernel at a time, and no chain of as many rows as
\* a settle has passes (but one), each reading a key of the row before it: a
\* settle converges by itself and never gives up at the cap.
THEOREM SettlesConverge == ASSUME Single, ShortChains PROVE Spec => []SettleConverges
<1>1. InPass => SettleConverges
  BY DEF InPass, InPassOf, SettleConverges
<1> QED
  BY <1>1, AlwaysInPass, PTL

-----------------------------------------------------------------------------
(***************************************************************************)
(* Why rows are fresh when a settle ends, until an Apply fails. A row that *)
(* holds an old value was told of the new one by a touch, and is stale; or *)
(* its key is withdrawn, and then (Owed) a row that offers it is a ghost:  *)
(* reloaded by this settle and still to be mounted. The settle cannot end  *)
(* while there are ghosts: rows are ranked by what they inject (Ranked),   *)
(* and the lowest ghost lacks nothing.                                     *)
(***************************************************************************)
\* What a plugin injects from the bare context, none provides over it.
CtxApart == \A p, q \in Plugins : Inject[p] \cap CtxKeys \cap Offers[q] = {}

Needs(r) == Inject[r.row.plugin] \cup r.observed

Went == failed = {} /\ \A m \in Mounters : pc[m] \notin {"undo", "fail"}

\* What a row looked up was so then, and what replaced it has touched the key.
Looks(r) ==
  /\ \A k \in Watched(r) \ r.provides :
       touches[k] > r.mountSeq \/ services[k] \in {r.got[k], Absent}
  /\ \A k \in r.wants : r.got[k] = Absent

Seen ==
  /\ \A r \in rows : Looks(r)
  /\ \A m \in Mounters : pc[m] = "get" => Missing(st[m].row.plugin) = {}
  /\ \A m \in Mounters : pc[m] = "provide" =>
       /\ \A k \in Watched(st[m]) \ Offers[st[m].row.plugin] : services[k] = st[m].got[k]
       /\ \A k \in st[m].wants : st[m].got[k] = Absent
       /\ \A k \in Needs(st[m]) : services[k] # Absent

CtxThere ==
  \A k \in CtxKeys : (\A p \in Plugins : k \notin Offers[p]) => services[k] # Absent

Cleared == \A m \in Mounters : pc[m] \in {"idle", "gate", "drop"} => remounted[m] = {}

Marked ==
  \A m \in Mounters :
    pc[m] = "reload" /\ ~progressed[m] => doomed[m] = StaleRows(remounted[m])

\* The rows a drop has left to take down are mounted, and so are no others
\* that inject or observed a key of theirs.
Dropping ==
  \A m \in Mounters : pc[m] = "drop" =>
    /\ doomed[m] \subseteq rows
    /\ \A a \in rows, d \in doomed[m] : Depends(a, d) => a \in doomed[m]

Books == Went /\ Seen /\ CtxThere /\ Cleared /\ Marked

\* A row that reads what nothing withdrew, and is not stale, is up to date.
LEMMA NotStaleFresh ==
  ASSUME TypeOK, NEW r \in rows, Touched, Looks(r), ~Stale(r),
         \A k \in Needs(r) : services[k] # Absent
  PROVE  UpToDate(r)
<1>1. \A k \in Watched(r) : k \in Keys
  BY KernelAssumption DEF Watched, TypeOK, RowState, Row
<1>2. \A k \in Watched(r) : ~(touches[k] > r.mountSeq)
  BY <1>1 DEF Stale, Touched
<1>3. \A k \in Watched(r) \ r.provides : services[k] \in {r.got[k], Absent}
  BY <1>2 DEF Looks
<1> QED
  BY <1>3 DEF UpToDate, Needs, Looks, Watched

\* The steps that touch neither rows nor wiring, nor a rowState in hand.
Still(m) ==
  \/ (\E t \in Trees : Mount(m, t) \/ Reconcile(m, t))
  \/ (\E id \in RowIds : RemountCall(m, id))
  \/ Remount(m) \/ (Drop(m) /\ doomed[m] = {}) \/ Scan(m) \/ Skip(m)
  \/ MountedAll(m) \/ MarkStale(m) \/ NextPass(m) \/ Return(m)

LEMMA StillIs ==
  ASSUME TypeOK, NEW m \in Mounters, Still(m)
  PROVE  /\ UNCHANGED <<rows, services, providerOf, touches, seq, st>>
         /\ pc'[m] \notin ApplyPCs
         /\ failed' \subseteq failed
<1>1. UNCHANGED <<rows, services, providerOf, touches, seq, st>> /\ failed' \subseteq failed
  BY DEF Still, Mount, Reconcile, RemountCall, Remount, Diff, Drop, Scan, Skip,
     MountedAll, MarkStale, NextPass, Return, tree, wiring
<1>2. pc'[m] \notin ApplyPCs
  <2>1. CASE \E t \in Trees : Mount(m, t) \/ Reconcile(m, t)
    BY <2>1 DEF Mount, Reconcile, Diff, Call, Goto, TypeOK, ApplyPCs
  <2>2. CASE (\E id \in RowIds : RemountCall(m, id)) \/ Remount(m)
    BY <2>2 DEF RemountCall, Remount, Diff, Call, Goto, TypeOK, ApplyPCs
  <2>3. CASE (Drop(m) /\ doomed[m] = {}) \/ Scan(m) \/ Skip(m) \/ MarkStale(m) \/ NextPass(m)
    BY <2>3 DEF Drop, Scan, Skip, MarkStale, NextPass, Goto, TypeOK, ApplyPCs
  <2>4. CASE MountedAll(m) \/ Return(m)
    BY <2>4 DEF MountedAll, Return, Goto, TypeOK, ApplyPCs
  <2> QED
    BY <2>1, <2>2, <2>3, <2>4 DEF Still
<1> QED
  BY <1>1, <1>2

\* Where a goroutine is in a settle, and what it has reloaded and marked.
LEMMA ClearedStep ==
  ASSUME Single, TypeInv, Cleared, Marked, [Next]_vars
  PROVE  Cleared' /\ Marked'
<1> USE DEF TypeInv
<1>1. ASSUME NEW m \in Mounters,
             \/ \E t \in Trees : Mount(m, t) \/ Reconcile(m, t)
             \/ Remount(m) \/ Return(m)
      PROVE  Cleared' /\ Marked'
  <2>1. remounted'[m] = {} /\ pc'[m] # "reload"
    BY <1>1 DEF Mount, Reconcile, Remount, Return, Diff, BeginSettle, Goto, TypeOK
  <2> QED
    BY <2>1 DEF Cleared, Marked, Single
<1>2. ASSUME NEW m \in Mounters, (\E id \in RowIds : RemountCall(m, id)) \/ Drop(m)
      PROVE  Cleared' /\ Marked'
  <2>1. /\ pc[m] \in {"idle", "drop"} /\ pc'[m] # "reload"
        /\ remounted' = remounted
    BY <1>2 DEF RemountCall, Drop, Call, Goto, TypeOK
  <2> QED
    BY <2>1 DEF Cleared, Marked, Single
<1>3. ASSUME NEW m \in Mounters,
             \/ Scan(m) \/ Skip(m) \/ BeginApply(m) \/ MountedAll(m) \/ ApplyGet(m)
             \/ (\E k \in Keys : Provide(m, k)) \/ ApplyOK(m) \/ ApplyErr(m)
             \/ Undo(m) \/ Fail(m) \/ NextPass(m)
      PROVE  Cleared' /\ Marked'
  <2>1. pc'[m] \notin {"idle", "gate", "drop", "reload"}
    BY <1>3 DEF Scan, Skip, BeginApply, MountedAll, ApplyGet, Provide, ApplyOK, ApplyErr,
       Undo, Fail, NextPass, Goto, TypeOK
  <2> QED
    BY <2>1 DEF Cleared, Marked, Single
<1>4. ASSUME NEW m \in Mounters, MarkStale(m) PROVE Cleared' /\ Marked'
  <2>1. /\ UNCHANGED <<rows, touches, providerOf, remounted>> /\ pc'[m] = "reload"
        /\ doomed'[m] = StaleRows(remounted[m])
    BY <1>4 DEF MarkStale, Goto, TypeOK, tree, wiring
  <2> QED
    BY <2>1 DEF Cleared, Marked, Single, StaleRows, Stale, Watched
<1>5. ASSUME NEW m \in Mounters, Reload(m) PROVE Cleared' /\ Marked'
  <2>1. pc'[m] = "reload" /\ progressed'[m]
    BY <1>5 DEF Reload, TypeOK
  <2> QED
    BY <2>1 DEF Cleared, Marked, Single
<1>6. CASE UNCHANGED vars
  BY <1>6 DEF vars, tree, wiring, locals, Cleared, Marked, StaleRows, Stale, Watched
<1> QED
  <2>1. ASSUME NEW m \in Mounters, Enter(m) \/ Run(m) PROVE Cleared' /\ Marked'
    BY <2>1, <1>1, <1>2, <1>3, <1>4, <1>5 DEF Enter, Run
  <2> QED
    BY <2>1, <1>6 DEF Next

\* A disposal withdraws keys and touches none.
LEMMA DisposeBooks ==
  ASSUME TypeInv, NEW r \in rows, DisposeRow(r), Provisions, Seen, CtxThere,
         \A m \in Mounters : pc[m] \notin ApplyPCs /\ pc'[m] \notin ApplyPCs
  PROVE  Seen' /\ CtxThere'
<1>1. /\ rows' = rows \ {r} /\ touches' = touches
      /\ \A k \in Keys : services'[k] = services[k]
                         \/ (services'[k] = Absent /\ k \in r.provides)
  BY DEF DisposeRow, TypeInv, TypeOK
<1>2. Seen'
  <2>1. ASSUME NEW q \in rows' PROVE Looks(q)'
    <3>1. \A k \in Watched(q) : k \in Keys
      BY <1>1, KernelAssumption DEF Watched, TypeInv, TypeOK, RowState, Row
    <3>2. Looks(q)
      BY <1>1 DEF Seen
    <3> QED
      BY <1>1, <3>1, <3>2 DEF Looks, Watched
  <2> QED
    BY <2>1 DEF Seen, ApplyPCs
<1>3. CtxThere'
  <2>1. \E p \in Plugins : r.provides = Offers[p]
    BY DEF Provisions, TypeInv, TypeOK, RowState, Row
  <2> QED
    BY <1>1, <2>1, KernelAssumption DEF CtxThere
<1> QED
  BY <1>2, <1>3
\* A row is begun with what it injects there, and reads it so.
LEMMA GetBooks ==
  ASSUME Single, TypeInv, SafeInv, Told, Books, NEW m \in Mounters, ApplyGet(m)
  PROVE  Seen' /\ CtxThere'
<1> USE DEF TypeInv
<1> DEFINE s == st[m]
           p == s.row.plugin
           read == Inject[p] \cup Optional[p]
           hits == {k \in read : services[k] # Absent}
<1>1. /\ s \in RowState /\ pc[m] = "get" /\ pc'[m] = "provide" /\ applier = m
      /\ UNCHANGED <<rows, services, touches, providerOf, unprovided>>
      /\ st'[m] = Reading(s, TRUE)
  BY DEF ApplyGet, InHand, ApplyPCs, TypeOK, tree, wiring, SafeInv, Attributed, Goto
<1>2. /\ Reading(s, TRUE).row = s.row /\ Reading(s, TRUE).provides = s.provides
      /\ Reading(s, TRUE).observed = hits /\ Reading(s, TRUE).wants = read \ hits
      /\ Reading(s, TRUE).got = [k \in Keys |-> IF k \in hits THEN services[k] ELSE Absent]
  BY <1>1 DEF Reading, RowState
<1>3. Inject[p] \subseteq hits /\ read \subseteq Keys /\ p \in Plugins
  BY <1>1, KernelAssumption DEF Books, Seen, Missing, RowState, Row
<1>4. CtxThere'
  BY <1>1 DEF Books, CtxThere
<1>5. Seen'
  <2> DEFINE t == Reading(s, TRUE)
  <2>1. /\ \A k \in Watched(t) : services[k] = t.got[k]
        /\ \A k \in t.wants : t.got[k] = Absent
        /\ \A k \in Needs(t) : services[k] # Absent
    BY <1>2, <1>3 DEF Watched, Needs
  <2> HIDE DEF t
  <2>2. \A r \in rows' : Looks(r)'
    BY <1>1 DEF Books, Seen, Looks, Watched
  <2>3. st'[m] = t
    BY <1>1 DEF t
  <2> QED
    BY <1>1, <2>1, <2>2, <2>3 DEF Seen, Single, Watched, Needs
<1> QED
  BY <1>4, <1>5

LEMMA ProvideBooks ==
  ASSUME Single, TypeInv, SafeInv, Told, Books, NEW m \in Mounters,
         NEW x \in Keys, Provide(m, x)
  PROVE  Seen' /\ CtxThere'
<1> USE DEF TypeInv
<1> DEFINE s == st[m]
           P == s.provides \cup {x}
           p == s.row.plugin
<1>1. /\ s \in RowState /\ pc[m] = "provide" /\ pc' = pc /\ applier = m /\ rows' = rows
      /\ x \in unprovided[m] /\ unprovided'[m] = unprovided[m] \ {x}
      /\ services' = [services EXCEPT ![x] = s.inst]
      /\ providerOf' = [providerOf EXCEPT ![x] = s.row.id]
      /\ touches' = [touches EXCEPT ![x] = seq + 1]
      /\ st'[m] = Giving(s, x, TRUE)
  BY DEF Provide, InHand, ApplyPCs, TypeOK, tree, SafeInv, Attributed
<1>2. st'[m] = [s EXCEPT !.provides = P]
  BY <1>1 DEF Giving
<1>3. /\ st'[m].row = s.row /\ st'[m].got = s.got /\ st'[m].observed = s.observed
      /\ st'[m].wants = s.wants /\ st'[m].provides = P
  BY <1>1, <1>2 DEF RowState
<1>4. s.inst # Absent
  <2>1. s \in Live
    BY <1>1, NoStateApart DEF Live
  <2> QED
    BY <2>1 DEF SafeInv, Named
<1>5. x \in Offers[p] /\ s.provides \cup unprovided[m] = Offers[p]
  BY <1>1 DEF Told, Provisions
<1>6. \A r \in rows : r.row.id # s.row.id /\ r.mountSeq < seq + 1
  <2>1. s.row.id \notin ActiveIds
    BY <1>1 DEF SafeInv, Queue, Mountable, ApplyPCs
  <2> QED
    BY <2>1 DEF ActiveIds, TypeOK, RowState
<1>7. CtxThere'
  BY <1>1, <1>4, KernelAssumption DEF Books, CtxThere, TypeOK
<1>8. \A r \in rows' : Looks(r)'
  <2> SUFFICES ASSUME NEW r \in rows PROVE Looks(r)'
    BY <1>1
  <2>1. Looks(r) /\ \A k \in Watched(r) : k \in Keys
    BY KernelAssumption DEF Books, Seen, Watched, TypeOK, RowState, Row
  <2>2. touches'[x] > r.mountSeq
    BY <1>1, <1>6 DEF TypeOK, RowState
  <2>3. \A k \in Keys : k # x => touches'[k] = touches[k] /\ services'[k] = services[k]
    BY <1>1 DEF TypeOK
  <2>4. \A k \in Watched(r) \ r.provides :
          touches'[k] > r.mountSeq \/ services'[k] \in {r.got[k], Absent}
    BY <2>1, <2>2, <2>3 DEF Looks
  <2> QED
    BY <2>1, <2>4 DEF Looks, Watched
<1>9. Seen'
  <2>1. \A k \in Keys : k # x => services'[k] = services[k]
    BY <1>1 DEF TypeOK
  <2>2. \A k \in Watched(s) : k \in Keys
    BY <1>1, KernelAssumption DEF Watched, RowState, Row
  <2>3. services'[x] # Absent
    BY <1>1, <1>4 DEF TypeOK
  <2>4. /\ \A k \in Watched(s) \ Offers[p] : services'[k] = s.got[k]
        /\ \A k \in s.wants : s.got[k] = Absent
        /\ \A k \in Needs(s) : services'[k] # Absent
    BY <1>1, <1>5, <2>1, <2>2, <2>3 DEF Books, Seen, Watched, Needs
  <2> DEFINE t == st'[m]
  <2>5. /\ \A k \in Watched(t) \ Offers[t.row.plugin] : services'[k] = t.got[k]
        /\ \A k \in t.wants : t.got[k] = Absent
        /\ \A k \in Needs(t) : services'[k] # Absent
    BY <1>3, <2>4 DEF Watched, Needs
  <2> QED
    BY <1>1, <1>8, <2>5 DEF Seen, Single, Watched, Needs
<1> QED
  BY <1>7, <1>9

LEMMA MountBooks ==
  ASSUME Single, TypeInv, SafeInv, Told, Books, NEW m \in Mounters, ApplyOK(m)
  PROVE  Seen' /\ CtxThere'
<1> USE DEF TypeInv
<1> DEFINE s == st[m]
           p == s.row.plugin
<1> PICK t : t = Mounted(s, seq + 1)
  OBVIOUS
<1>1. /\ s \in RowState /\ pc[m] = "provide" /\ pc'[m] = "visit"
      /\ unprovided[m] = {} /\ rows' = rows \cup {t}
      /\ UNCHANGED <<services, touches, providerOf>>
  BY DEF ApplyOK, InHand, ApplyPCs, TypeOK, Goto
<1>2. /\ t.row = s.row /\ t.provides = s.provides /\ t.got = s.got /\ t.wants = s.wants
      /\ t.observed = s.observed /\ t.mountSeq = seq + 1
  BY <1>1 DEF Mounted, RowState
<1>3. s.provides = Offers[p]
  BY <1>1 DEF Told, Provisions
<1>4. Looks(t)'
  <2>1. Watched(t) = Watched(s)
    BY <1>2 DEF Watched
  <2>2. \A k \in Watched(t) \ t.provides : services'[k] = t.got[k]
    BY <1>1, <1>2, <1>3, <2>1 DEF Books, Seen
  <2>3. \A k \in t.wants : t.got[k] = Absent
    BY <1>1, <1>2 DEF Books, Seen
  <2> QED
    BY <2>2, <2>3 DEF Looks, Watched
<1>5. \A r \in rows : Looks(r)'
  BY <1>1 DEF Books, Seen, Looks, Watched
<1>6. Seen'
  BY <1>1, <1>4, <1>5 DEF Seen, Single, ApplyPCs
<1>7. CtxThere'
  BY <1>1 DEF Books, CtxThere
<1> QED
  BY <1>6, <1>7

LEMMA BooksStep ==
  ASSUME Single, ~erred', TypeInv, SafeInv, Told, InPass, Dropping,
         Books, [Next]_vars
  PROVE  Books'
<1> USE DEF TypeInv
<1>0. Cleared' /\ Marked'
  BY ClearedStep DEF Books
<1>1. ASSUME NEW m \in Mounters, Still(m) PROVE Books'
  <2>1. /\ UNCHANGED <<rows, services, providerOf, touches, st>>
        /\ pc'[m] \notin ApplyPCs /\ failed' \subseteq failed
    BY <1>1, StillIs
  <2>2. Went' /\ CtxThere'
    BY <2>1 DEF Books, Went, CtxThere, ApplyPCs, Single
  <2>3. Seen'
    BY <2>1 DEF Books, Seen, Looks, Watched, Needs, Missing, ApplyPCs, Single
  <2> QED
    BY <1>0, <2>2, <2>3 DEF Books
<1>2. ASSUME NEW m \in Mounters, (Drop(m) /\ doomed[m] # {}) \/ Reload(m) PROVE Books'
  <2>1. PICK r \in doomed[m] : DisposeRow(r)
    BY <1>2 DEF Drop, Reload
  <2>2. /\ pc[m] \in {"drop", "reload"} /\ pc' = pc /\ failed' = failed
    BY <1>2 DEF Drop, Reload
  <2>3. CASE r \in rows
    <3>1. Seen' /\ CtxThere'
      BY <2>1, <2>2, <2>3, DisposeBooks DEF Told, Books, ApplyPCs, Single
    <3> QED
      BY <1>0, <2>2, <3>1 DEF Books, Went
  <2>4. r \in rows
    BY <1>2, <2>2 DEF InPass, InPassOf, Reloading, Dropping
  <2> QED
    BY <2>3, <2>4
<1>3. ASSUME NEW m \in Mounters, BeginApply(m) PROVE Books'
  <2> PICK r \in todo[m] : /\ Missing(r.plugin) = {}
                           /\ st' = [st EXCEPT ![m] = Fresh(r, insts + 1)]
                           /\ unprovided' = [unprovided EXCEPT ![m] = Offers[r.plugin]]
    BY <1>3 DEF BeginApply
  <2>1. /\ UNCHANGED <<rows, failed, services, providerOf, touches>> /\ pc'[m] = "get"
        /\ st'[m].row = r /\ st'[m].provides = {} /\ unprovided'[m] = Offers[r.plugin]
    BY <1>3, FreshIs DEF BeginApply, Goto, TypeOK, tree, wiring
  <2>2. Went' /\ CtxThere'
    BY <2>1 DEF Books, Went, CtxThere, Single
  <2>3. Seen'
    BY <2>1 DEF Books, Seen, Looks, Watched, Missing, Single
  <2> QED
    BY <1>0, <2>2, <2>3 DEF Books
<1>4. ASSUME NEW m \in Mounters,
             ApplyGet(m) \/ (\E k \in Keys : Provide(m, k)) \/ ApplyOK(m)
      PROVE  Books'
  <2>1. Seen' /\ CtxThere'
    BY <1>4, GetBooks, ProvideBooks, MountBooks
  <2>2. failed' = failed /\ pc'[m] \in {"provide", "visit"}
    BY <1>4 DEF ApplyGet, Provide, ApplyOK, Goto, TypeOK, tree
  <2> QED
    BY <1>0, <2>1, <2>2 DEF Books, Went, Single
<1>5. ASSUME NEW m \in Mounters PROVE ~ApplyErr(m) /\ ~Undo(m) /\ ~Fail(m)
  BY <1>5 DEF ApplyErr, Undo, Fail, Books, Went
<1>6. CASE UNCHANGED vars
  BY <1>0, <1>6 DEF vars, tree, wiring, locals, Books, Went, CtxThere,
     Seen, Looks, Watched, Needs, Missing
<1> QED
  <2>1. ASSUME NEW m \in Mounters, Enter(m) \/ Run(m) PROVE Books'
    BY <2>1, <1>1, <1>2, <1>3, <1>4, <1>5 DEF Enter, Run, Still
  <2> QED
    BY <2>1, <1>6 DEF Next


\* The rows this settle has reloaded and not mounted again.
Ghosts(m) == {d \in PendingDesired : d.id \in remounted[m]}

\* The mounted rows that no drop takes down.
Kept(m) == rows \ IF pc[m] = "drop" THEN doomed[m] ELSE {}

\* Row id is kept, or a ghost, with plugin p.
Holds(m, id, p) ==
  \/ \E r \in Kept(m) : r.row.id = id /\ r.row.plugin = p
  \/ \E d \in Ghosts(m) : d.id = id /\ d.plugin = p

\* What is kept or a ghost injects keys of what ranks below it.
RankedBy(m, rank) ==
  \A i \in RowIds, p \in Plugins : Holds(m, i, p) =>
    /\ rank[i] <= seq
    /\ \A k \in Inject[p] \ CtxKeys : \E j \in RowIds, q \in Plugins :
         Holds(m, j, q) /\ k \in Offers[q] /\ rank[j] < rank[i]

Ranked == \A m \in Mounters : \E rank \in [RowIds -> Nat] : RankedBy(m, rank)

\* A row being applied was begun when mounted rows offered what it injects.
Fed ==
  \A m \in Mounters : pc[m] \in {"get", "provide"} =>
    \A k \in Inject[st[m].row.plugin] \ CtxKeys :
      \E q \in rows : k \in Offers[q.row.plugin]

\* A key that a mounted row needs is gone only while its drop, or the mount
\* of a ghost that offers it, is still to come.
Owed ==
  \A m \in Mounters : \A r \in rows : \A k \in Needs(r) : services[k] = Absent =>
    \/ pc[m] = "drop" /\ r \in doomed[m]
    \/ \E d \in Ghosts(m) : k \in Offers[d.plugin]

Debts == Dropping /\ Fed /\ Owed /\ Ranked

\* The set a call takes down is closed under the rows that read its keys.
LEMMA DropSetClosed ==
  ASSUME NEW new, NEW f
  PROVE  /\ DropSet(new, f) \subseteq rows
         /\ \A a \in rows, d \in DropSet(new, f) : Depends(a, d) => a \in DropSet(new, f)
<1>1. DropSet(new, f) \subseteq rows
  BY DEF DropSet
<1>2. ASSUME NEW a \in rows, NEW d \in DropSet(new, f), Depends(a, d)
      PROVE  a \in DropSet(new, f)
  <2>1. ASSUME NEW D \in SUBSET rows, Changed(new, f) \subseteq D, Closed(D) PROVE a \in D
    <3>1. d \in D
      BY <2>1 DEF DropSet
    <3> QED
      BY <1>2, <2>1, <3>1 DEF Closed
  <2> QED
    BY <2>1 DEF DropSet
<1> QED
  BY <1>1, <1>2

\* Ranks stay good while the same rows are kept or ghosts.
LEMMA SameRanks ==
  ASSUME TypeOK, NEW m \in Mounters, NEW rank \in [RowIds -> Nat], RankedBy(m, rank),
         seq' \in Nat, seq <= seq',
         \A i \in RowIds, p \in Plugins : Holds(m, i, p)' <=> Holds(m, i, p)
  PROVE  RankedBy(m, rank)'
  BY DEF RankedBy, TypeOK

\* A settle that has nothing left to mount or reload has no ghosts.
LEMMA NoGhosts ==
  ASSUME CtxApart, TypeInv, SafeInv, Told, Books, Ranked, NEW m \in Mounters, pc[m] = "reload", Waiting
  PROVE  Ghosts(m) = {}
<1> USE DEF TypeInv
<1> SUFFICES ASSUME Ghosts(m) # {} PROVE FALSE
  OBVIOUS
<1> PICK rank \in [RowIds -> Nat] : RankedBy(m, rank)
  BY DEF Ranked
<1>1. \A d \in Ghosts(m) : d \in PendingDesired /\ d.id \in RowIds /\ d.plugin \in Plugins
  BY DEF Ghosts, PendingDesired, TypeOK, Row
<1> DEFINE R == {rank[d.id] : d \in Ghosts(m)}
<1>2. R \subseteq Nat /\ R # {}
  BY <1>1
<1> HIDE DEF R
<1>3. PICK n \in R : \A x \in R : ~(x < n)
  <2>1. PICK n \in R : \A x \in R : ~(<<x, n>> \in OpToRel(<, Nat))
    BY <1>2, NatLessThanWellFounded, WFMin
  <2> QED
    BY <1>2, <2>1 DEF OpToRel
<1>4. PICK d \in Ghosts(m) : \A g \in Ghosts(m) : ~(rank[g.id] < rank[d.id])
  BY <1>3 DEF R
<1>5. PICK k \in Inject[d.plugin] : services[k] = Absent
  BY <1>1 DEF Waiting, Missing
<1>6. k \in Keys \ CtxKeys
  BY <1>1, <1>5, KernelAssumption DEF Books, CtxThere, CtxApart
<1>7. Holds(m, d.id, d.plugin)
  BY DEF Holds
<1>8. PICK j \in RowIds, q \in Plugins :
        Holds(m, j, q) /\ k \in Offers[q] /\ rank[j] < rank[d.id]
  BY <1>1, <1>6, <1>7 DEF RankedBy
<1>9. PICK r \in rows : k \in Offers[r.row.plugin]
  BY <1>4, <1>8 DEF Holds, Kept
<1>10. r \in Live /\ k \in r.provides
  BY <1>9 DEF Live, Told, Provisions
<1> QED
  BY <1>5, <1>10 DEF SafeInv, ProvidedPresent

\* Without ghosts, and outside a drop, nothing that a mounted row needs is gone.
LEMMA NothingGone ==
  ASSUME Owed, NEW m \in Mounters, pc[m] # "drop", Ghosts(m) = {}
  PROVE  \A r \in rows : \A k \in Needs(r) : services[k] # Absent
  BY DEF Owed

\* Steps that leave the rows and what was reloaded as they are owe no more.
LEMMA SteadyDebts ==
  ASSUME Single, TypeOK, NEW m \in Mounters, Owed, Ranked,
         UNCHANGED <<rows, desired, failed, remounted>>, seq' \in Nat, seq <= seq',
         pc[m] = "drop" => doomed[m] = {}, pc'[m] # "drop",
         \A k \in Keys : services'[k] = services[k] \/ services'[k] # Absent
  PROVE  Dropping' /\ Owed' /\ Ranked'
<1>1. Dropping'
  BY DEF Dropping, Single
<1>2. Ghosts(m)' = Ghosts(m) /\ Kept(m)' = Kept(m)
  BY DEF Ghosts, Kept, PendingDesired, ActiveIds, FailedIds
<1>3. Owed'
  <2> SUFFICES ASSUME NEW r \in rows, NEW k \in Needs(r), services'[k] = Absent
               PROVE  \E d \in Ghosts(m) : k \in Offers[d.plugin]
    BY <1>2 DEF Owed, Single, Needs
  <2>1. k \in Keys
    BY KernelAssumption DEF Needs, TypeOK, RowState, Row
  <2> QED
    BY <2>1 DEF Owed
<1>4. Ranked'
  <2>1. PICK rank \in [RowIds -> Nat] : RankedBy(m, rank)
    BY DEF Ranked
  <2>2. \A i \in RowIds, p \in Plugins : Holds(m, i, p)' <=> Holds(m, i, p)
    BY <1>2 DEF Holds
  <2>3. RankedBy(m, rank)'
    BY <2>1, <2>2, SameRanks
  <2> QED
    BY <2>3 DEF Ranked, Single
<1> QED
  BY <1>1, <1>3, <1>4

\* The first critical section of a call: what it dooms is closed.
LEMMA DiffDebts ==
  ASSUME Single, TypeInv, SafeInv, Told, Books, Debts, NEW m \in Mounters,
         NEW new, NEW f, Diff(m, new, f), pc[m] \in {"idle", "gate"}
  PROVE  Debts'
<1> USE DEF TypeInv
<1> DEFINE D == DropSet(new, f)
<1>1. /\ UNCHANGED <<rows, services, seq, st>> /\ doomed'[m] = D
      /\ pc'[m] = "drop" /\ remounted'[m] = {}
  BY DEF Diff, BeginSettle, Goto, TypeOK, wiring
<1>2. D \subseteq rows /\ \A a \in rows, d \in D : Depends(a, d) => a \in D
  BY DropSetClosed
<1> HIDE DEF D
<1>3. Dropping'
  BY <1>1, <1>2 DEF Dropping, Single, Depends
<1>4. Fed'
  BY <1>1 DEF Fed, Single
<1>5. Ghosts(m) = {} /\ Ghosts(m)' = {} /\ Kept(m) = rows /\ Kept(m)' = rows \ D
  BY <1>1 DEF Books, Cleared, Ghosts, Kept
<1>6. Owed'
  <2>1. \A r \in rows : \A k \in Needs(r) : services[k] # Absent
    BY <1>5, NothingGone DEF Debts
  <2> QED
    BY <1>1, <2>1 DEF Owed, Needs
<1>7. Ranked'
  <2>1. PICK rank \in [RowIds -> Nat] : RankedBy(m, rank)
    BY DEF Debts, Ranked
  <2>2. ASSUME NEW i \in RowIds, NEW p \in Plugins, Holds(m, i, p)'
        PROVE  /\ rank[i] <= seq'
               /\ \A k \in Inject[p] \ CtxKeys : \E j \in RowIds, q \in Plugins :
                    Holds(m, j, q)' /\ k \in Offers[q] /\ rank[j] < rank[i]
    <3>1. PICK a \in rows \ D : a.row.id = i /\ a.row.plugin = p
      BY <1>5, <2>2 DEF Holds
    <3>2. Holds(m, i, p)
      BY <1>5, <3>1 DEF Holds
    <3>3. ASSUME NEW k \in Inject[p] \ CtxKeys
          PROVE  \E j \in RowIds, q \in Plugins :
                   Holds(m, j, q)' /\ k \in Offers[q] /\ rank[j] < rank[i]
      <4>1. PICK j \in RowIds, q \in Plugins :
              Holds(m, j, q) /\ k \in Offers[q] /\ rank[j] < rank[i]
        BY <2>1, <3>2 DEF RankedBy
      <4>2. PICK b \in rows : b.row.id = j /\ b.row.plugin = q
        BY <1>5, <4>1 DEF Holds
      <4>3. k \in b.provides
        BY <4>1, <4>2 DEF Told, Provisions
      <4>4. Depends(a, b)
        BY <3>1, <4>3 DEF Depends
      <4>5. b \notin D
        BY <1>2, <3>1, <4>4
      <4>6. Holds(m, j, q)'
        BY <1>5, <4>2, <4>5 DEF Holds
      <4> QED
        BY <4>1, <4>6
    <3>4. rank[i] <= seq'
      BY <1>1, <2>1, <3>2 DEF RankedBy
    <3> QED
      BY <3>3, <3>4
  <2>3. RankedBy(m, rank)'
    BY <2>2 DEF RankedBy
  <2> QED
    BY <2>3 DEF Ranked, Single
<1> QED
  BY <1>3, <1>4, <1>6, <1>7 DEF Debts

\* A drop takes a doomed row down, and with it keys that doomed rows read.
LEMMA DropDebts ==
  ASSUME Single, TypeInv, Books, Debts, NEW m \in Mounters, Drop(m), doomed[m] # {}
  PROVE  Debts'
<1> USE DEF TypeInv
<1> PICK r \in doomed[m] : DisposeRow(r) /\ doomed' = [doomed EXCEPT ![m] = @ \ {r}]
  BY DEF Drop
<1>1. /\ UNCHANGED <<desired, failed, remounted, pc, seq>> /\ pc[m] = "drop"
      /\ rows' = rows \ {r} /\ doomed'[m] = doomed[m] \ {r} /\ r \in rows
      /\ \A k \in Keys : services'[k] = services[k] \/ k \in r.provides
      /\ doomed[m] \subseteq rows
      /\ \A a \in rows, d \in doomed[m] : Depends(a, d) => a \in doomed[m]
  BY DEF Drop, DisposeRow, Debts, Dropping, TypeOK
<1>2. Dropping'
  BY <1>1 DEF Dropping, Single, Depends
<1>3. Fed'
  BY <1>1 DEF Fed, Single
<1>4. Owed'
  <2> SUFFICES ASSUME NEW a \in rows \ {r}, NEW k \in Needs(a), services'[k] = Absent
               PROVE  a \in doomed[m] \/ \E d \in Ghosts(m)' : k \in Offers[d.plugin]
    BY <1>1 DEF Owed, Single, Needs
  <2>1. k \in Keys
    BY KernelAssumption DEF Needs, TypeOK, RowState, Row
  <2>2. CASE k \in r.provides
    BY <1>1, <2>2 DEF Depends, Needs
  <2>3. CASE services[k] = Absent
    <3>1. a \in doomed[m] \/ \E d \in Ghosts(m) : k \in Offers[d.plugin]
      BY <2>3 DEF Debts, Owed
    <3>2. Ghosts(m) \subseteq Ghosts(m)'
      BY <1>1 DEF Ghosts, PendingDesired, ActiveIds, FailedIds
    <3> QED
      BY <3>1, <3>2
  <2> QED
    BY <1>1, <2>1, <2>2, <2>3
<1>5. Ranked'
  <2>1. PICK rank \in [RowIds -> Nat] : RankedBy(m, rank)
    BY DEF Debts, Ranked
  <2>2. Kept(m)' = Kept(m)
    BY <1>1 DEF Kept
  <2>3. Ghosts(m)' = {} /\ Ghosts(m) = {}
    BY <1>1 DEF Books, Cleared, Ghosts
  <2>4. \A i \in RowIds, p \in Plugins : Holds(m, i, p)' <=> Holds(m, i, p)
    BY <2>2, <2>3 DEF Holds
  <2>5. RankedBy(m, rank)'
    BY <1>1, <2>1, <2>4, SameRanks DEF TypeOK
  <2> QED
    BY <2>5 DEF Ranked, Single
<1> QED
  BY <1>2, <1>3, <1>4, <1>5 DEF Debts

\* A reload takes a row down that the settle will mount again: a ghost.
LEMMA ReloadDebts ==
  ASSUME Single, TypeInv, SafeInv, Told, InPass, Books, Debts, NEW m \in Mounters, Reload(m)
  PROVE  Debts'
<1> USE DEF TypeInv
<1> PICK r \in doomed[m] : /\ DisposeRow(r)
                          /\ remounted' = [remounted EXCEPT ![m] = @ \cup {r.row.id}]
  BY DEF Reload
<1>1. /\ UNCHANGED <<desired, failed, pc, seq, st>> /\ pc[m] = "reload"
      /\ rows' = rows \ {r} /\ r \in rows /\ failed = {}
      /\ remounted'[m] = remounted[m] \cup {r.row.id}
      /\ \A k \in Keys : services'[k] = services[k] \/ k \in r.provides
  BY DEF Reload, DisposeRow, InPass, InPassOf, Reloading, TypeOK, Books, Went
<1>2. PICK d \in desired : d.id = r.row.id /\ ~d.disabled /\ d.plugin = r.row.plugin
  BY <1>1 DEF SafeInv, AsDesired, Wanted, SameSpec, Single
<1>3. \A q \in rows \ {r} : q.row.id # r.row.id
  BY <1>1 DEF SafeInv, OneMountPerRow
<1>4. d \in Ghosts(m)'
  BY <1>1, <1>2, <1>3 DEF Ghosts, PendingDesired, ActiveIds, FailedIds
<1>5. Ghosts(m) \subseteq Ghosts(m)'
  BY <1>1 DEF Ghosts, PendingDesired, ActiveIds, FailedIds
<1>6. Ghosts(m)' \subseteq Ghosts(m) \cup {d}
  <2> SUFFICES ASSUME NEW g \in Ghosts(m)', g # d PROVE g \in Ghosts(m)
    OBVIOUS
  <2>1. g \in desired /\ ~g.disabled /\ \A q \in rows \ {r} : q.row.id # g.id
    BY <1>1 DEF Ghosts, PendingDesired, ActiveIds
  <2>2. g.id # r.row.id
    BY <1>2, <2>1, DistinctIds DEF SafeInv
  <2>3. g.id \in remounted[m]
    BY <1>1, <2>2 DEF Ghosts
  <2> QED
    BY <1>1, <2>1, <2>2, <2>3 DEF Ghosts, PendingDesired, ActiveIds, FailedIds
<1>7. Dropping'
  BY <1>1 DEF Dropping, Single
<1>8. Fed'
  BY <1>1 DEF Fed, Single
<1>9. Owed'
  <2> SUFFICES ASSUME NEW a \in rows \ {r}, NEW k \in Needs(a), services'[k] = Absent
               PROVE  \E g \in Ghosts(m)' : k \in Offers[g.plugin]
    BY <1>1 DEF Owed, Single, Needs
  <2>1. k \in Keys
    BY KernelAssumption DEF Needs, TypeOK, RowState, Row
  <2>2. CASE k \in r.provides
    BY <1>1, <1>2, <1>4, <2>2 DEF Told, Provisions
  <2>3. CASE services[k] = Absent
    <3>1. \E g \in Ghosts(m) : k \in Offers[g.plugin]
      BY <1>1, <2>3 DEF Debts, Owed
    <3> QED
      BY <1>5, <3>1
  <2> QED
    BY <1>1, <2>1, <2>2, <2>3
<1>10. Ranked'
  <2>1. PICK rank \in [RowIds -> Nat] : RankedBy(m, rank)
    BY DEF Debts, Ranked
  <2>2. Kept(m) = rows /\ Kept(m)' = rows \ {r}
    BY <1>1 DEF Kept
  <2>3. ASSUME NEW i \in RowIds, NEW p \in Plugins
        PROVE  Holds(m, i, p)' <=> Holds(m, i, p)
    <3>1. ASSUME Holds(m, i, p) PROVE Holds(m, i, p)'
      BY <1>2, <1>4, <1>5, <2>2, <3>1 DEF Holds
    <3>2. ASSUME Holds(m, i, p)' PROVE Holds(m, i, p)
      BY <1>1, <1>2, <1>6, <2>2, <3>2 DEF Holds
    <3> QED
      BY <3>1, <3>2
  <2>4. RankedBy(m, rank)'
    BY <1>1, <2>1, <2>3, SameRanks DEF TypeOK
  <2> QED
    BY <2>4 DEF Ranked, Single
<1> QED
  BY <1>7, <1>8, <1>9, <1>10 DEF Debts

\* A mount adds a row above all others, or pays a ghost's debt.
LEMMA MountDebts ==
  ASSUME Single, TypeInv, SafeInv, Told, Books, Debts, NEW m \in Mounters, ApplyOK(m)
  PROVE  Debts'
<1> USE DEF TypeInv
<1> DEFINE s == st[m]
           i0 == s.row.id
           p0 == s.row.plugin
<1> PICK t : t = Mounted(s, seq + 1)
  OBVIOUS
<1>1. /\ s \in RowState /\ pc[m] = "provide" /\ pc'[m] = "visit" /\ unprovided[m] = {}
      /\ rows' = rows \cup {t} /\ seq' = seq + 1 /\ i0 \in RowIds /\ p0 \in Plugins
      /\ UNCHANGED <<services, desired, failed, remounted>> /\ failed = {}
  BY DEF ApplyOK, InHand, ApplyPCs, TypeOK, Goto, RowState, Row, Tick, Books, Went
<1>2. t.row = s.row /\ t.observed = s.observed
  BY <1>1 DEF Mounted, RowState
<1>3. s.row \in desired /\ ~s.row.disabled /\ \A q \in rows : q.row.id # i0
  BY <1>1 DEF SafeInv, Queue, Mountable, ApplyPCs, ActiveIds
<1>4. Kept(m) = rows /\ Kept(m)' = rows \cup {t}
  BY <1>1 DEF Kept
<1>5. Ghosts(m)' = Ghosts(m) \ {s.row}
  <2>1. ASSUME NEW d \in Ghosts(m), d # s.row PROVE d \in Ghosts(m)'
    <3>1. d \in desired /\ d.id # i0
      BY <1>3, <2>1, DistinctIds DEF SafeInv, Ghosts, PendingDesired
    <3> QED
      BY <1>1, <1>2, <3>1 DEF Ghosts, PendingDesired, ActiveIds, FailedIds
  <2>2. s.row \notin Ghosts(m)'
    BY <1>1, <1>2 DEF Ghosts, PendingDesired, ActiveIds
  <2>3. Ghosts(m)' \subseteq Ghosts(m)
    BY <1>1 DEF Ghosts, PendingDesired, ActiveIds, FailedIds
  <2> QED
    BY <2>1, <2>2, <2>3
<1>6. Dropping' /\ Fed'
  BY <1>1 DEF Dropping, Fed, Single
<1>7. Owed'
  <2>1. ASSUME NEW k \in Needs(t) PROVE services[k] # Absent
    <3>1. k \in Needs(s)
      BY <1>2 DEF Needs
    <3> QED
      BY <1>1, <3>1 DEF Books, Seen
  <2>2. ASSUME NEW a \in rows, NEW k \in Needs(a), services[k] = Absent
        PROVE  \E d \in Ghosts(m)' : k \in Offers[d.plugin]
    <3>1. PICK d \in Ghosts(m) : k \in Offers[d.plugin]
      BY <1>1, <2>2 DEF Debts, Owed
    <3>2. d # s.row
      <4>1. k \in Offers[p0] => k \in s.provides
        BY <1>1 DEF Told, Provisions
      <4>2. s \in Live
        BY <1>1, NoStateApart DEF Live
      <4> QED
        BY <2>2, <3>1, <4>1, <4>2 DEF SafeInv, ProvidedPresent
    <3> QED
      BY <1>5, <3>1, <3>2
  <2> QED
    BY <1>1, <2>1, <2>2 DEF Owed, Needs, Single
<1>8. PICK rank \in [RowIds -> Nat] : RankedBy(m, rank)
  BY DEF Debts, Ranked
<1>9. CASE s.row \in Ghosts(m)
  <2>1. ASSUME NEW i \in RowIds, NEW p \in Plugins PROVE Holds(m, i, p)' <=> Holds(m, i, p)
    BY <1>2, <1>4, <1>5, <1>9 DEF Holds
  <2>2. RankedBy(m, rank)'
    BY <1>1, <1>8, <2>1, SameRanks DEF TypeOK
  <2> QED
    BY <2>2, <1>6, <1>7 DEF Ranked, Single, Debts
<1>10. CASE s.row \notin Ghosts(m)
  <2> PICK rnk : rnk = [rank EXCEPT ![i0] = seq + 1]
    OBVIOUS
  <2>1. rnk \in [RowIds -> Nat]
    BY <1>1 DEF TypeOK
  <2>2. rnk[i0] = seq + 1 /\ \A j \in RowIds : j # i0 => rnk[j] = rank[j]
    BY <1>1
  <2>3. \A q \in Plugins : ~Holds(m, i0, q)
    <3>1. ASSUME NEW d \in Ghosts(m) PROVE d.id # i0
      BY <1>3, <1>10, DistinctIds DEF SafeInv, Ghosts, PendingDesired
    <3> QED
      BY <1>3, <1>4, <3>1 DEF Holds
  <2>4. \A j \in RowIds, q \in Plugins : Holds(m, j, q) => Holds(m, j, q)'
    BY <1>4, <1>5, <1>10 DEF Holds
  <2>5. ASSUME NEW j \in RowIds, NEW q \in Plugins, Holds(m, j, q)'
        PROVE  Holds(m, j, q) \/ (j = i0 /\ q = p0)
    BY <1>2, <1>4, <1>5, <2>5 DEF Holds
  <2>6. ASSUME NEW i \in RowIds, NEW p \in Plugins, Holds(m, i, p)
        PROVE  /\ rnk[i] <= seq'
               /\ \A k \in Inject[p] \ CtxKeys : \E j \in RowIds, q \in Plugins :
                    Holds(m, j, q)' /\ k \in Offers[q] /\ rnk[j] < rnk[i]
    <3>1. i # i0 /\ rnk[i] = rank[i] /\ rank[i] <= seq
      BY <1>8, <2>2, <2>3, <2>6 DEF RankedBy
    <3>2. ASSUME NEW k \in Inject[p] \ CtxKeys
          PROVE  \E j \in RowIds, q \in Plugins :
                   Holds(m, j, q)' /\ k \in Offers[q] /\ rnk[j] < rnk[i]
      <4>1. PICK j \in RowIds, q \in Plugins :
              Holds(m, j, q) /\ k \in Offers[q] /\ rank[j] < rank[i]
        BY <1>8, <2>6 DEF RankedBy
      <4>2. rnk[j] = rank[j] /\ Holds(m, j, q)'
        BY <2>2, <2>3, <2>4, <4>1
      <4> QED
        BY <3>1, <4>1, <4>2
    <3>3. rnk[i] <= seq'
      BY <1>1, <3>1 DEF TypeOK
    <3> QED
      BY <3>2, <3>3
  <2>7. ASSUME NEW k \in Inject[p0] \ CtxKeys
        PROVE  \E j \in RowIds, q \in Plugins :
                 Holds(m, j, q)' /\ k \in Offers[q] /\ rnk[j] < rnk[i0]
    <3>1. PICK r \in rows : k \in Offers[r.row.plugin]
      BY <1>1 DEF Debts, Fed
    <3>2. r.row.id \in RowIds /\ r.row.plugin \in Plugins /\ r.row.id # i0
      BY <1>3 DEF TypeOK, RowState, Row
    <3>3. Holds(m, r.row.id, r.row.plugin)
      BY <1>4 DEF Holds
    <3>4. rank[r.row.id] <= seq
      BY <1>8, <3>2, <3>3 DEF RankedBy
    <3>5. rnk[r.row.id] < rnk[i0]
      BY <2>2, <3>2, <3>4 DEF TypeOK
    <3> QED
      BY <2>4, <3>1, <3>2, <3>3, <3>5
  <2>8. rnk[i0] <= seq'
    BY <1>1, <2>2 DEF TypeOK
  <2>9. RankedBy(m, rnk)'
    BY <2>5, <2>6, <2>7, <2>8 DEF RankedBy
  <2>10. Ranked'
    BY <2>1, <2>9 DEF Ranked, Single
  <2> QED
    BY <2>10, <1>6, <1>7 DEF Debts
<1> QED
  BY <1>9, <1>10

\* A settle returns with nothing reloaded left to mount.
LEMMA ReturnDebts ==
  ASSUME Single, CtxApart, TypeInv, SafeInv, Told, InPass', Books, Debts,
         NEW m \in Mounters, Return(m)
  PROVE  Debts' /\ \A r \in rows : r.row.id \in remounted[m] \/ UpToDate(r)
<1> USE DEF TypeInv
<1>1. /\ UNCHANGED <<rows, desired, failed, services, seq, st>> /\ remounted'[m] = {}
      /\ pc[m] = "reload" /\ doomed[m] = {} /\ pc'[m] \in {"idle", "dead"}
  BY DEF Return, Goto, TypeOK, tree, wiring
<1>2. ~progressed[m]
  <2>1. pass'[m] < PassCap /\ pass'[m] = IF progressed[m] THEN PassCap ELSE 0
    BY DEF Return, TypeOK, InPass, InPassOf
  <2> QED
    BY <2>1, KernelAssumption
<1>3. Ghosts(m) = {}
  BY <1>1, <1>2, NoGhosts DEF Debts, SafeInv, Visited
<1>4. \A r \in rows : \A k \in Needs(r) : services[k] # Absent
  BY <1>1, <1>3, NothingGone DEF Debts
<1>5. Dropping' /\ Fed'
  BY <1>1 DEF Dropping, Fed, Single
<1>6. Owed'
  BY <1>1, <1>4 DEF Owed, Needs
<1>7. Ranked'
  <2>1. PICK rank \in [RowIds -> Nat] : RankedBy(m, rank)
    BY DEF Debts, Ranked
  <2>2. Ghosts(m)' = {} /\ Kept(m)' = Kept(m)
    BY <1>1 DEF Ghosts, Kept
  <2>3. \A i \in RowIds, p \in Plugins : Holds(m, i, p)' <=> Holds(m, i, p)
    BY <1>3, <2>2 DEF Holds
  <2>4. RankedBy(m, rank)'
    BY <1>1, <2>1, <2>3, SameRanks DEF TypeOK
  <2> QED
    BY <2>4 DEF Ranked, Single
<1>8. ASSUME NEW r \in rows, r.row.id \notin remounted[m] PROVE UpToDate(r)
  <2>1. ~Stale(r)
    BY <1>1, <1>2, <1>8 DEF Books, Marked, StaleRows
  <2>2. Touched /\ Looks(r)
    BY DEF Told, Books, Seen
  <2> QED
    BY <1>4, <2>1, <2>2, NotStaleFresh
<1> QED
  BY <1>5, <1>6, <1>7, <1>8 DEF Debts

LEMMA DebtsStep ==
  ASSUME Single, ~erred', CtxApart, TypeInv, SafeInv, Told, InPass, InPass',
         Books, Debts,
         [Next]_vars
  PROVE  Debts'
<1> USE DEF TypeInv
<1>1. ASSUME NEW m \in Mounters, NEW t \in Trees, Mount(m, t) PROVE Debts'
  <2>1. /\ rows' = {} /\ remounted'[m] = {} /\ pc'[m] = "scan"
    BY <1>1 DEF Mount, BeginSettle, Goto, TypeOK, SafeInv, Untouched
  <2>2. Kept(m)' = {} /\ Ghosts(m)' = {}
    BY <2>1 DEF Kept, Ghosts
  <2>3. PICK rank \in [RowIds -> Nat] : RankedBy(m, rank)
    BY DEF Debts, Ranked
  <2>4. RankedBy(m, rank)'
    BY <2>2 DEF RankedBy, Holds
  <2> QED
    BY <2>1, <2>4 DEF Debts, Dropping, Fed, Owed, Ranked, Single
<1>2. ASSUME NEW m \in Mounters, (\E t \in Trees : Reconcile(m, t)) \/ Remount(m)
      PROVE  Debts'
  <2>1. PICK new, f : Diff(m, new, f) /\ pc[m] \in {"idle", "gate"}
    BY <1>2 DEF Reconcile, Remount, Call
  <2> QED
    BY <2>1, DiffDebts
<1>3. ASSUME NEW m \in Mounters,
             \/ \E id \in RowIds : RemountCall(m, id)
             \/ (Drop(m) /\ doomed[m] = {}) \/ Scan(m) \/ Skip(m) \/ BeginApply(m)
             \/ MountedAll(m) \/ ApplyGet(m) \/ (\E k \in Keys : Provide(m, k))
             \/ MarkStale(m) \/ NextPass(m)
      PROVE  Debts'
  <2>1. /\ UNCHANGED <<rows, desired, failed, remounted>>
        /\ pc[m] = "drop" => doomed[m] = {}
    BY <1>3 DEF RemountCall, Drop, Scan, Skip, BeginApply, MountedAll, ApplyGet, Provide,
       MarkStale, NextPass, Call, tree
  <2>2. /\ seq' \in Nat /\ seq <= seq' /\ pc'[m] # "drop"
        /\ ~(\E k \in Keys : Provide(m, k)) => services' = services
    <3>1. seq \in Nat /\ pc \in [Mounters -> PCs]
      BY DEF TypeOK
    <3>2. CASE \/ \E id \in RowIds : RemountCall(m, id)
               \/ (Drop(m) /\ doomed[m] = {}) \/ Scan(m) \/ Skip(m)
      BY <3>1, <3>2 DEF RemountCall, Drop, Scan, Skip, Goto, wiring
    <3>3. CASE BeginApply(m) \/ MountedAll(m) \/ ApplyGet(m)
      BY <3>1, <3>3 DEF BeginApply, MountedAll, ApplyGet, Goto, wiring
    <3>4. CASE (\E k \in Keys : Provide(m, k)) \/ MarkStale(m) \/ NextPass(m)
      BY <3>1, <3>4 DEF Provide, MarkStale, NextPass, Goto, Tick, wiring
    <3> QED
      BY <1>3, <3>2, <3>3, <3>4
  <2>3. \A k \in Keys : services'[k] = services[k] \/ services'[k] # Absent
    <3>1. ASSUME NEW x \in Keys, Provide(m, x)
          PROVE  \A k \in Keys : services'[k] = services[k] \/ services'[k] # Absent
      <4>1. pc[m] = "provide" /\ st[m] \in RowState
        BY <3>1 DEF Provide, InHand, ApplyPCs
      <4>2. st[m].inst # Absent
        BY <4>1, NoStateApart DEF SafeInv, Named, Live
      <4> QED
        BY <3>1, <4>2 DEF Provide, TypeOK
    <3> QED
      BY <2>2, <3>1
  <2>4. Dropping' /\ Owed' /\ Ranked'
    BY <2>1, <2>2, <2>3, SteadyDebts DEF Debts
  <2>5. Fed'
    <3>1. CASE BeginApply(m)
      <4> PICK r \in todo[m] : /\ Missing(r.plugin) = {}
                               /\ st' = [st EXCEPT ![m] = Fresh(r, insts + 1)]
        BY <3>1 DEF BeginApply
      <4>1. st'[m].row = r /\ pc[m] = "visit" /\ r \in Row
        BY <3>1, FreshIs DEF BeginApply, TypeOK
      <4>2. ASSUME NEW k \in Inject[r.plugin] \ CtxKeys
            PROVE  \E q \in rows : k \in Offers[q.row.plugin]
        <5>1. k \in Keys /\ services[k] # Absent
          BY <4>1, <4>2, KernelAssumption DEF Missing, Row
        <5>2. PICK q \in Live : k \in q.provides
          BY <4>2, <5>1 DEF SafeInv, NoOrphanService
        <5>3. Live = rows
          BY <4>1 DEF Live, InHand, ApplyPCs, Single
        <5> QED
          BY <5>2, <5>3 DEF Told, Provisions
      <4> QED
        BY <2>1, <4>1, <4>2 DEF Fed, Single
    <3>2. CASE ApplyGet(m) \/ \E k \in Keys : Provide(m, k)
      <4>1. st[m] \in RowState /\ pc[m] \in {"get", "provide"}
        BY <3>2 DEF ApplyGet, Provide, InHand, ApplyPCs
      <4>2. st'[m].row = st[m].row
        <5>1. CASE ApplyGet(m)
          BY <4>1, <5>1, ReadingIs DEF ApplyGet, TypeOK
        <5>2. CASE \E k \in Keys : Provide(m, k)
          <6> PICK k \in Keys : Provide(m, k)
            BY <5>2
          <6>1. st'[m] = Giving(st[m], k, applier = m)
            BY DEF Provide, TypeOK
          <6>2. (applier = m) \in BOOLEAN
            OBVIOUS
          <6>3. Giving(st[m], k, applier = m).row = st[m].row
            BY <4>1, <6>2, GivingIs
          <6> QED
            BY <6>1, <6>3
        <5> QED
          BY <3>2, <5>1, <5>2
      <4> QED
        BY <2>1, <4>1, <4>2 DEF Debts, Fed, Single
    <3>3. CASE ~BeginApply(m) /\ ~ApplyGet(m) /\ ~\E k \in Keys : Provide(m, k)
      <4>1. pc'[m] \notin {"get", "provide"}
        <5>1. pc \in [Mounters -> PCs]
          BY DEF TypeOK
        <5>2. CASE \E id \in RowIds : RemountCall(m, id)
          BY <5>1, <5>2 DEF RemountCall, Call, Goto
        <5>3. CASE (Drop(m) /\ doomed[m] = {}) \/ Scan(m) \/ Skip(m)
          BY <5>1, <5>3 DEF Drop, Scan, Skip, Goto
        <5>4. CASE MountedAll(m)
          BY <5>1, <5>4 DEF MountedAll, Goto
        <5>5. CASE MarkStale(m) \/ NextPass(m)
          BY <5>1, <5>5 DEF MarkStale, NextPass, Goto
        <5> QED
          BY <1>3, <3>3, <5>2, <5>3, <5>4, <5>5
      <4> QED
        BY <4>1 DEF Fed, Single
    <3> QED
      BY <3>1, <3>2, <3>3
  <2> QED
    BY <2>4, <2>5 DEF Debts
<1>4. ASSUME NEW m \in Mounters PROVE ~ApplyErr(m) /\ ~Undo(m) /\ ~Fail(m)
  BY <1>4 DEF ApplyErr, Undo, Fail, Books, Went
<1>5. CASE UNCHANGED vars
  BY <1>5 DEF vars, tree, wiring, locals, Debts, Dropping, Fed, Owed, Ranked, RankedBy,
     Holds, Kept, Ghosts, PendingDesired, ActiveIds, FailedIds, Needs, Depends
<1> QED
  <2>1. ASSUME NEW m \in Mounters, Enter(m) \/ Run(m) PROVE Debts'
    BY <2>1, <1>1, <1>2, <1>3, <1>4, DropDebts, ReloadDebts, MountDebts, ReturnDebts
       DEF Enter, Run
  <2> QED
    BY <2>1, <1>5 DEF Next

\* What has failed stays so.
LEMMA ErredStays == [Next]_vars /\ erred => erred'
<1>1. ASSUME NEW m \in Mounters, Enter(m), erred PROVE erred'
  BY <1>1 DEF Enter, Mount, Reconcile, Diff, RemountCall
<1>2. ASSUME NEW m \in Mounters, Run(m), erred PROVE erred'
  <2>1. CASE Remount(m) \/ Drop(m) \/ Scan(m) \/ Skip(m) \/ BeginApply(m) \/ MountedAll(m)
    BY <1>2, <2>1 DEF Remount, Diff, Drop, Scan, Skip, BeginApply, MountedAll
  <2>2. CASE \/ ApplyGet(m) \/ (\E k \in Keys : Provide(m, k)) \/ ApplyOK(m)
             \/ ApplyErr(m) \/ Undo(m) \/ Fail(m)
    BY <1>2, <2>2 DEF ApplyGet, Provide, ApplyOK, ApplyErr, Undo, Fail
  <2>3. CASE MarkStale(m) \/ Reload(m) \/ NextPass(m) \/ Return(m)
    BY <1>2, <2>3 DEF MarkStale, Reload, NextPass, Return
  <2> QED
    BY <1>2, <2>1, <2>2, <2>3 DEF Run
<1> QED
  BY <1>1, <1>2 DEF Next, vars

\* With one goroutine in the kernel at a time, where no chain of rows is as long
\* as a settle may take, and until an Apply fails: when a settle has come to its
\* end, a mounted row holds what is provided, or that settle has reloaded it
\* already (settle, staleLocked, disposeRow).
THEOREM RowsFresh ==
  ASSUME Single, ShortChains, CtxApart
  PROVE  Spec => FreshRows
<1> DEFINE Inv == TypeInv /\ SafeInv /\ Told /\ InPass
           Owing == ~erred => Books /\ Debts
<1>1. Init => Owing
  <2> SUFFICES ASSUME Init PROVE Books /\ Debts
    OBVIOUS
  <2>1. /\ rows = {} /\ failed = {} /\ desired = {}
        /\ \A m \in Mounters : pc[m] = "idle" /\ remounted[m] = {}
        /\ \A k \in CtxKeys : services[k] # Absent
    BY KernelAssumption DEF Init, CtxInst, Absent
  <2>2. Books
    BY <2>1 DEF Books, Went, Seen, CtxThere, Cleared, Marked
  <2>3. Dropping /\ Fed /\ Owed
    BY <2>1 DEF Dropping, Fed, Owed
  <2>4. \A m \in Mounters, i \in RowIds, p \in Plugins : ~Holds(m, i, p)
    BY <2>1 DEF Holds, Kept, Ghosts
  <2>5. [i \in RowIds |-> 0] \in [RowIds -> Nat]
    OBVIOUS
  <2> QED
    BY <2>2, <2>3, <2>4, <2>5 DEF Debts, Ranked, RankedBy
<1>2. Inv /\ InPass' /\ Owing /\ [Next]_vars => Owing'
  <2> SUFFICES ASSUME Inv, InPass', Books, Debts, [Next]_vars, ~erred' PROVE (Books /\ Debts)'
    BY ErredStays
  <2>1. Books'
    BY BooksStep DEF Debts
  <2> QED
    BY <2>1, DebtsStep
<1>3. Inv /\ InPass' /\ Owing /\ [Next]_vars =>
        [\A m \in Mounters :
           pc[m] = "reload" /\ pc'[m] = "idle" /\ pass'[m] < PassCap /\ ~erred =>
             \A r \in rows : r.row.id \in remounted[m] \/ UpToDate(r)]_vars
  <2> SUFFICES ASSUME Inv, InPass', Books, Debts, Next, NEW m \in Mounters,
                      pc[m] = "reload", pc'[m] = "idle"
               PROVE  \A r \in rows : r.row.id \in remounted[m] \/ UpToDate(r)
    OBVIOUS
  <2>1. Return(m)
    <3>1. Enter(m) \/ Run(m)
      BY DEF Next, Single
    <3>2. ~Enter(m)
      BY DEF Enter, Mount, Reconcile, RemountCall, Call
    <3>3. ~Reload(m) /\ ~NextPass(m)
      BY DEF Reload, NextPass, Goto, TypeInv, TypeOK
    <3> QED
      BY <3>1, <3>2, <3>3 DEF Run, Remount, Drop, Scan, Skip, BeginApply, MountedAll,
         ApplyGet, Provide, ApplyOK, ApplyErr, Undo, Fail, MarkStale
  <2> QED
    BY <2>1, ReturnDebts
<1> QED
  BY <1>1, <1>2, <1>3, AlwaysInPass, PTL DEF Spec, FreshRows
=============================================================================
