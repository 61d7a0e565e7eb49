------------------------------- MODULE MCAsk -------------------------------
(* Instances of Ask for TLC: what the calls are, and what may happen.      *)
EXTENDS Ask
CONSTANTS q1, q2

Scene(k1, k2, r, p, s, d) ==
  [kind |-> (q1 :> k1 @@ q2 :> k2),
   budget |-> [remounts |-> r, posts |-> p, stops |-> s, deaths |-> d]]

\* One block after another, or a reply of native calls, or of commands with
\* approvals.
Answers ==
  {Scene("block", "block", 1, 1, 0, 0), Scene("native", "native", 1, 0, 0, 0),
   Scene("native", "native", 0, 2, 1, 0), Scene("rule", "rule", 0, 1, 1, 0),
   Scene("native", "native", 0, 1, 0, 1), Scene("block", "block", 0, 1, 0, 1)}
\* A native call and an approval beside each other.
Approval == {Scene("native", "rule", 0, 0, 0, 0)}
=============================================================================
