------------------------------- MODULE MCLoop -------------------------------
(* A session, its lines and its jobs, with what may befall them.           *)
EXTENDS Loop

Bound(line, esc, swp, switch, error, veto, push, block, jb, slw, quit) ==
  [lines |-> line, escs |-> esc, swaps |-> swp, switches |-> switch,
   errors |-> error, vetoes |-> veto, pushes |-> push, blocks |-> block,
   jobs |-> jb, slow |-> slw, quits |-> quit]

(* Turns that are steered, cut, blocked and pushed back.                   *)
Steered == {Bound(2, 1, 1, 0, 0, 0, 1, 1, 0, 0, 0), Bound(2, 1, 0, 0, 1, 1, 1, 1, 0, 0, 0),
            Bound(2, 1, 0, 1, 0, 0, 0, 0, 0, 0, 0)}

(* A job, with Esc, a remount, a switch and back, or the end of the        *)
(* process.                                                                *)
WithJob == {Bound(1, 1, 1, 0, 0, 0, 0, 1, 1, 0, 0), Bound(1, 0, 0, 2, 0, 0, 0, 1, 1, 0, 0),
            Bound(1, 1, 0, 0, 0, 1, 0, 1, 1, 1, 1)}

MCBounds == Steered \cup WithJob
============================================================================
