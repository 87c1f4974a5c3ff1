--------------------------- MODULE MCTaskManager ---------------------------
(***************************************************************************)
(* TaskManager for TLC.  No symmetry: a liveness property is checked.      *)
(***************************************************************************)
EXTENDS TaskManager
=============================================================================
