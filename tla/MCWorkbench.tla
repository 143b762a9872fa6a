---------------------------- MODULE MCWorkbench ----------------------------
(* Small instances of Workbench for TLC. *)
EXTENDS Workbench
=============================================================================
