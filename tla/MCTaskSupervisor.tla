--------------------------- MODULE MCTaskSupervisor ---------------------------
(***************************************************************************)
(* Small instances of TaskSupervisor: m is a critical task such as the     *)
(* download queue loop, w an important one such as a download's monitor,   *)
(* s a one-shot broadcast.                                                 *)
(***************************************************************************)
EXTENDS TaskSupervisor

CONSTANTS m, w, s

MCCriticality == [n \in Names |-> IF n = m THEN "CRITICAL" ELSE "IMPORTANT"]
=============================================================================
