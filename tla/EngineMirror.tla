---------------------------- MODULE EngineMirror ----------------------------
(***************************************************************************)
(* The Mirror of go/internal/unreal/session: the coordinator's scheduling  *)
(* state rebuilt from the items it records. One replica is updated by the  *)
(* store observer before the coordinator's next step, another by the actor *)
(* as it takes the items from its queue.                                   *)
(*                                                                         *)
(* Ids are opaque, so Reasons are a set and Pending is its size. Forks and *)
(* heartbeats (off by default) are left out.                               *)
(***************************************************************************)

\* A mirror over the ids of inputs and of calls.
MirrorOf(Inputs, Calls) ==
  [reasons : SUBSET (Inputs \cup Calls),      \* what is pending
   turnReasons : SUBSET (Inputs \cup Calls),  \* what the newest request answers
   inflight : BOOLEAN,
   outstanding : SUBSET Calls]  \* calls whose result the model has not had yet

newMirror ==
  [reasons |-> {}, turnReasons |-> {}, inflight |-> FALSE, outstanding |-> {}]

\* ItemInput: an external input is pending.
ApplyInput(m, i) == [m EXCEPT !.reasons = m.reasons \cup {i}]

\* ItemTurn: a request takes everything that is pending.
ApplyTurn(m) ==
  [m EXCEPT !.reasons = {}, !.turnReasons = m.reasons, !.inflight = TRUE]

\* Mutant: the request stays in flight.
ApplyResponseOnly(m, calls) == [m EXCEPT !.outstanding = m.outstanding \cup calls]

\* ItemModelResponse: the request has answered and asks for calls.
ApplyResponse(m, calls) ==
  [m EXCEPT !.inflight = FALSE, !.outstanding = m.outstanding \cup calls]

\* ItemToolCallStatus with a terminal status: the result is pending.
ApplyResult(m, c) ==
  IF c \notin m.outstanding THEN m
  ELSE [m EXCEPT !.outstanding = m.outstanding \ {c}, !.reasons = m.reasons \cup {c}]
=============================================================================
