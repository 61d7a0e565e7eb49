--------------------------- MODULE MCKernelEvents ---------------------------
(* Instances of KernelEvents for TLC.                                      *)
EXTENDS KernelEvents
CONSTANTS e1, kernel, ui, activity
=============================================================================
