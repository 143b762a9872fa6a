------------------------------ MODULE MCLogFeed ------------------------------
(* Small instances of LogFeed for TLC. *)
EXTENDS LogFeed
=============================================================================
