------------------------------ MODULE MCKernel ------------------------------
(* Instances of Kernel for TLC: catalogues of a few plugins and the config *)
(* trees a session moves between.                                          *)
EXTENDS Kernel

CONSTANT m1  \* a goroutine

ConfigA == "a"
ConfigB == "b"

R(id, plugin, cfg, pos) ==
  [id |-> id, plugin |-> plugin, cfg |-> cfg, disabled |-> FALSE, pos |-> pos]
Off(r) == [r EXCEPT !.disabled = TRUE]

-----------------------------------------------------------------------------
(* The rows of a session: providers, one of them twice, an optional seam,   *)
(* the loop, a ui. The plugins of a plain session never fail; in a knotted  *)
(* one two may, and two optional seams form a cycle: the loop reads the     *)
(* usage that the cost row counts, and the cost row reads the runner.       *)

SessionPlugins == {"agent", "cost", "history", "llm", "llm2", "loop", "ui"}
SessionKeys == {"history", "llm", "runner", "usage"}
SessionInject ==
  [p \in SessionPlugins |->
     CASE p \in {"agent", "loop"} -> {"llm"} [] p = "ui" -> {"runner"}
       [] OTHER -> {}]
SessionOptional ==
  [p \in SessionPlugins |->
     CASE p = "agent" -> {"history"} [] p = "loop" -> {"usage"}
       [] p = "cost" -> {"runner"} [] OTHER -> {}]
SessionOffers ==
  [p \in SessionPlugins |->
     CASE p \in {"agent", "loop"} -> {"runner"} [] p = "history" -> {"history"}
       [] p \in {"llm", "llm2"} -> {"llm"} [] p = "cost" -> {"usage"}
       [] OTHER -> {}]

Ui == R("ui", "ui", ConfigA, 1)
Cost == R("cost", "cost", ConfigA, 2)
Llm2 == R("llm2", "llm2", ConfigA, 5)
History == R("history", "history", ConfigA, 6)
Knot == {Ui, Cost, R("loop", "loop", ConfigA, 3), R("llm", "llm", ConfigA, 4)}
Knotted ==
  {Knot, Knot \cup {Llm2}, {Off(r) : r \in Knot} \cup {Llm2},
   {Ui, Cost, R("loop", "loop", ConfigB, 3), Llm2}}
Plain == {Ui, R("agent", "agent", ConfigA, 3), Llm2}
PlainTrees ==
  {Plain, Plain \cup {History}, {Off(r) : r \in Plain} \cup {History},
   {Ui, R("agent", "agent", ConfigA, 3), Off(Llm2)},
   {Ui, R("agent", "agent", ConfigA, 3), R("llm2", "llm2", ConfigB, 5), History}}

SessionTrees == Knotted \cup PlainTrees
=============================================================================
