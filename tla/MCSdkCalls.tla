----------------------------- MODULE MCSdkCalls -----------------------------
(* Small instances of SdkCalls for TLC. *)
EXTENDS SdkCalls
=============================================================================
