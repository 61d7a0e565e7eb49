----------------------------- MODULE MCChildren -----------------------------
(* Children behind a running cap of one, and what may befall them: each    *)
(* trouble with a second child in line, and the troubles of a child alone  *)
(* together.                                                               *)
EXTENDS Children

Bound(n, room, send, stop, withdraw, fault, restart) ==
  [kids |-> n, rooms |-> room, sends |-> send, stops |-> stop,
   withdraws |-> withdraw, faults |-> fault, restarts |-> restart]

InLine == {Bound(2, 0, 0, 1, 0, 1, 0), Bound(2, 0, 0, 0, 1, 1, 0),
           Bound(2, 0, 1, 0, 0, 0, 0), Bound(2, 0, 0, 0, 0, 0, 1)}

Alone == {Bound(1, 0, 1, 1, 0, 1, 0), Bound(1, 0, 1, 0, 0, 0, 1),
          Bound(1, 0, 0, 1, 0, 1, 1), Bound(1, 0, 0, 0, 1, 0, 1)}

WithRoom == {Bound(1, 1, 1, 0, 0, 0, 0), Bound(1, 1, 0, 1, 0, 1, 0),
             Bound(1, 1, 0, 0, 0, 0, 1)}

MCBounds == InLine \cup Alone \cup WithRoom
============================================================================
