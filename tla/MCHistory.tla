----------------------------- MODULE MCHistory -----------------------------
(* Two processes that may have one session file open.                      *)
EXTENDS History, TLC

CONSTANTS a, b
Symmetry == Permutations(Stores)
============================================================================
