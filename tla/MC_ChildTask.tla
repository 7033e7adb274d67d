---------------------------- MODULE MC_ChildTask ----------------------------
(* Tool names for the runs of ChildTask.                                   *)
EXTENDS ChildTask

CONSTANTS search, exec, ghost
=============================================================================
