-------------------------------- MODULE Jobs --------------------------------
(***************************************************************************)
(* The background jobs of one process (plugins/tools/jobs.go): a shell     *)
(* command that outlives the code block and the turn that started it, and  *)
(* the notices by which the agent hears of it.  A job belongs to the       *)
(* session that was mounted when it started; the history row may mount     *)
(* another one under a running job.                                        *)
(*                                                                         *)
(* A job's writer and its waiter are goroutines: what they do under one    *)
(* hold of b.mu or of j.mu is one step, and others run in between.  Loop   *)
(* composes this module with the turns that start jobs and take notices.   *)
(***************************************************************************)
EXTENDS Integers, Sequences, FiniteSets, SequencesExt

CONSTANTS Sessions,     \* session files
          NoSession,    \* what is mounted while the history row is down
          NJobs         \* bound: jobs started

ASSUME SomeSession == Sessions # {} /\ NoSession \notin Sessions
ASSUME JobsBound == NJobs \in Nat

VARIABLES
  mounted,  \* the session of the history row
  job,      \* per job: the job and its goroutines
  pending,  \* per owner: the notices queued for it, in order
  wake      \* the token in the wake channel, which has room for one

jobVars == <<mounted, job, pending, wake>>

JobIds == 1 .. NJobs

(* st is "up" while the process runs, "out" when it has ended and its      *)
(* waiter has not said so, "done" when it has.  match and waiter are where *)
(* the writer's and the waiter's notify stand; tell is what the waiter     *)
(* read of claimed.  answered: a claim got the output.  late: a claim was  *)
(* given back when the waiter had read it, or left when the process ended. *)
NoJob == [st |-> "none", owner |-> NoSession, until |-> FALSE,
          claimed |-> FALSE, match |-> "no", waiter |-> "none",
          tell |-> FALSE, answered |-> FALSE, late |-> FALSE,
          recorded |-> <<>>]

Notice(j, what) == [job |-> j, what |-> what]
Notices == [job : JobIds, what : {"match", "finish"}]
Owners == Sessions \cup {NoSession}

JobsInit ==
  /\ mounted = CHOOSE s \in Sessions : TRUE
  /\ job = [j \in JobIds |-> NoJob]
  /\ pending = [s \in Owners |-> <<>>]
  /\ wake = FALSE

----------------------------------------------------------------------------
(* start: the claim of a foreground caller is made before the waiter runs. *)
(* The slip makes it afterwards, which a quick exit overtakes.             *)

Unclaimed(until) == FALSE

Claimed(until) == ~until

StartJob(j, until) ==
  /\ job[j].st = "none"
  /\ \A i \in JobIds : i < j => job[i].st # "none"
  /\ job' = [job EXCEPT ![j] = [NoJob EXCEPT
       !.st = "up", !.owner = mounted, !.until = until,
       !.claimed = Claimed(until), !.waiter = "wait",
       !.recorded = <<mounted>>]]
  /\ UNCHANGED <<mounted, pending, wake>>

(* jobWriter.Write: the pattern fires once.                                *)
Matches(j) ==
  /\ job[j].st = "up" /\ job[j].until /\ job[j].match = "no"
  /\ job' = [job EXCEPT ![j].match = "append"]
  /\ UNCHANGED <<mounted, pending, wake>>

(* It exits, is killed, or reaches its limit.                              *)
Exits(j) ==
  /\ job[j].st = "up"
  /\ job' = [job EXCEPT ![j].st = "out"]
  /\ UNCHANGED <<mounted, pending, wake>>

(* The waiter returns from Wait when the writer has returned.              *)
Publish(j) ==
  /\ job[j].st = "out" /\ job[j].match \in {"no", "over"}
  /\ job' = [job EXCEPT ![j].st = "done", ![j].waiter = "record",
                        ![j].tell = ~job[j].claimed]
  /\ UNCHANGED <<mounted, pending, wake>>

(* recordJob writes to the session mounted now, which need not be the one  *)
(* that has the job's "started".                                           *)
Record(j) ==
  /\ job[j].waiter = "record"
  /\ job' = [job EXCEPT ![j].recorded = Append(@, mounted),
                        ![j].waiter = IF job[j].tell THEN "append" ELSE "over"]
  /\ UNCHANGED <<mounted, pending, wake>>

----------------------------------------------------------------------------
(* notify: append under the lock, then the token, which is dropped when    *)
(* there is one.                                                           *)

Queued(j, what) ==
  [pending EXCEPT ![job[j].owner] = Append(@, Notice(j, what))]

NotifyAppends(j) ==
  /\ UNCHANGED <<mounted, wake>>
  /\ \/ /\ job[j].match = "append"
        /\ job' = [job EXCEPT ![j].match = "wake"]
        /\ pending' = Queued(j, "match")
     \/ /\ job[j].waiter = "append"
        /\ job' = [job EXCEPT ![j].waiter = "wake"]
        /\ pending' = Queued(j, "finish")

NotifyWakes(j) ==
  /\ UNCHANGED <<mounted, pending>>
  /\ wake' = TRUE
  /\ \/ job[j].match = "wake" /\ job' = [job EXCEPT ![j].match = "over"]
     \/ job[j].waiter = "wake" /\ job' = [job EXCEPT ![j].waiter = "over"]

----------------------------------------------------------------------------
(* claim: it looks for the finish before it looks at the grace, under the  *)
(* job's lock, and gives the claim back when the turn is cancelled.        *)

ClaimTakes(j) ==
  /\ job[j].st = "done"
  /\ job' = [job EXCEPT ![j].answered = TRUE]

ClaimGivesUp(j) ==
  /\ job[j].st # "done"
  /\ job' = [job EXCEPT ![j].claimed = FALSE]

ClaimCancelled(j) ==
  job' = [job EXCEPT ![j].claimed = FALSE, ![j].late = job[j].st = "done"]

(* Stop cancels the plugin's context, and the claim is not given back.     *)
ClaimLeft(j) == job' = [job EXCEPT ![j].late = TRUE]

----------------------------------------------------------------------------
(* Take and Wake read the mounted session before they lock.  The notices   *)
(* of other sessions keep their order and their place.                     *)

Waiting(cur) == pending[cur] # <<>>

Taken(cur) == pending[cur]

Left(cur) == [pending EXCEPT ![cur] = <<>>]

(* slip: a loop that mounts waits for the next notice.                     *)
WakeQuietly == wake' = wake

Wake == wake' = (wake \/ Waiting(mounted))

JobStep(j) ==
  \/ Matches(j) \/ Exits(j) \/ Publish(j) \/ Record(j)
  \/ NotifyAppends(j) \/ NotifyWakes(j)
=============================================================================
